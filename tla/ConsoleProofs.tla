--------------------------- MODULE ConsoleProofs ---------------------------
(***************************************************************************)
(* Proofs about Console, for any operations, snapshots, filters, panes and *)
(* numbers of generations.                                                 *)
(*                                                                         *)
(* The gate is busy exactly while one job is in one of three places - the  *)
(* channel to the worker, the worker, the channel back - and it remembers  *)
(* that job (Flow).  A refresh that is in flight is the one that is wanted *)
(* unless a newer one waits to be sent (Latest), so an answer that is      *)
(* accepted leaves nothing waiting, and a key r that was pressed and not   *)
(* yet answered is something that waits (Owed).                            *)
(*                                                                         *)
(* The drawer: what it shows is the selected unit's, or is being asked     *)
(* for, whenever the loop polls for a key (DrawerKeepsUp).                 *)
(*                                                                         *)
(* The list: it is built for a snapshot and a filter by recursion over an  *)
(* order of the units and over the depth of a tree of parents; what such   *)
(* functions return is proved by a least number for which it would fail,   *)
(* so every operation has its one row in its section (ConsoleTypes).       *)
(***************************************************************************)
EXTENDS Console, FiniteSetTheorems, WellFoundedInduction, TLAPS

\* A record with the fields of App, whatever they hold: the job on its way and the
\* snapshots do not depend on what is listed.
IsApp(a) ==
    a \in [view : {a.view}, filter : {a.filter}, filtering : {a.filtering}, rows : {a.rows},
           sel : {a.sel},
           logs : {a.logs}, want_logs : {a.want_logs}, diagnostics_open : {a.diagnostics_open},
           detail_view : {a.detail_view}, last_error : {a.last_error}, due : {a.due}]

\* b is a with another list, selection, drawer or pane.
Keeps(a, b) == IsApp(b) /\ b.view = a.view /\ b.due = a.due

Remembers(g, j) ==
    /\ g.refresh_inflight = IF j.kind = "refresh" THEN j.gen ELSE None
    /\ g.logs_inflight = IF j.kind = "logs" THEN j.gen ELSE None

Answers(e, j) == e.kind = j.kind /\ e.gen = j.gen /\ e.unit = j.unit

Carried(j, js, w, es) ==
    \/ js = <<j>> /\ w = None /\ es = <<>>
    \/ js = <<>> /\ w = j /\ es = <<>>
    \/ js = <<>> /\ w = None /\ \E e : es = <<e>> /\ Answers(e, j)

\* The gate and the two channels agree.
FlowOf(g, js, w, es) ==
    IF w = Dead THEN g.busy /\ js = <<>> /\ es = <<>>
    ELSE IF g.busy THEN \E j \in Job : Carried(j, js, w, es) /\ Remembers(g, j)
    ELSE /\ js = <<>> /\ w = None /\ es = <<>>
         /\ g.refresh_inflight = None /\ g.logs_inflight = None

\* The refresh in flight is the wanted one unless a newer one waits.
Latest(g) ==
    g.refresh_inflight # None => (g.pending_refresh <=> g.refresh_inflight # g.refresh_wanted)

\* A key r whose refresh the worker has not taken is still to be sent or on the
\* way to the worker.
OwedOf(g, js, w, since) ==
    since \/ w = Dead \/ g.pending_refresh \/ (js # <<>> /\ Head(js).kind = "refresh")

GateSound(g) == g \in GateType /\ Latest(g)

Flow == FlowOf(gate, jobs, worker, events)

IInv ==
    /\ IsApp(app) /\ GateSound(gate) /\ Flow /\ OwedOf(gate, jobs, worker, sinceR)
    /\ sinceR \in BOOLEAN

\* A new snapshot, or the note that there is none, answers the last key r.
Postdated == (app'.view # app.view \/ (app.due /\ ~app'.due)) => sinceR

-----------------------------------------------------------------------------
(* What the gate's operators return *)

\* r is what one of them may make of g: nothing is sent and what is in flight stays,
\* or one job is sent, which the gate then remembers.
Sends(g, r) ==
    /\ GateSound(r.gate)
    /\ \/ /\ r.send = <<>> /\ r.gate.busy = g.busy
          /\ r.gate.refresh_inflight = g.refresh_inflight
          /\ r.gate.logs_inflight = g.logs_inflight
          /\ g.pending_refresh => r.gate.pending_refresh
       \/ \E j \in Job :
             /\ r.send = <<j>> /\ ~g.busy /\ r.gate.busy /\ Remembers(r.gate, j)
             /\ g.pending_refresh => j.kind = "refresh"

Rests(g) == ~g.busy => g.refresh_inflight = None /\ g.logs_inflight = None

LEMMA NextGeneration ==
    /\ \A g \in Gen : Succ(g, Gens) \in Gen /\ Succ(g, Gens) # g
    /\ \A g \in LogGen : Succ(g, LogGens) \in LogGen
  BY GensAssumption DEF Succ, Gen, LogGen

LEMMA TryRefresh ==
    ASSUME NEW g, GateSound(g), Rests(g)
    PROVE  Sends(g, TryDispatchRefresh(g))
  <1>1. CASE g.busy \/ ~g.pending_refresh
    BY <1>1 DEF TryDispatchRefresh, Sends
  <1>2. CASE ~(g.busy \/ ~g.pending_refresh)
    <2> DEFINE j == RefreshJob(g.refresh_wanted)
               h == [g EXCEPT !.pending_refresh = FALSE, !.busy = TRUE,
                              !.refresh_inflight = g.refresh_wanted]
    <2>1. TryDispatchRefresh(g) = [gate |-> h, send |-> <<j>>]
      BY <1>2 DEF TryDispatchRefresh
    <2>2. j \in Job /\ j.kind = "refresh" /\ j.gen = g.refresh_wanted
      BY DEF GateSound, GateType, RefreshJob, Job
    <2>3. /\ h \in GateType /\ h.busy /\ ~h.pending_refresh
          /\ h.refresh_inflight = g.refresh_wanted /\ h.refresh_wanted = g.refresh_wanted
          /\ h.logs_inflight = g.logs_inflight
      BY DEF GateSound, GateType
    <2> HIDE DEF h, j
    <2>4. GateSound(h)
      BY <2>3 DEF GateSound, Latest
    <2>5. Remembers(h, j)
      BY <1>2, <2>2, <2>3 DEF Rests, Remembers
    <2> QED
      BY <1>2, <2>1, <2>2, <2>3, <2>4, <2>5 DEF Sends
  <1> QED
    BY <1>1, <1>2

LEMMA TryLogs ==
    ASSUME NEW g, GateSound(g), Rests(g)
    PROVE  Sends(g, TryDispatchLogs(g))
  <1>1. CASE g.busy \/ g.pending_refresh \/ g.pending_logs = None
    BY <1>1 DEF TryDispatchLogs, Sends
  <1>2. CASE ~(g.busy \/ g.pending_refresh \/ g.pending_logs = None)
    <2> DEFINE j == LogsJob(g.logs_wanted, g.pending_logs)
               h == [g EXCEPT !.pending_logs = None, !.busy = TRUE,
                              !.logs_inflight = g.logs_wanted]
    <2>1. TryDispatchLogs(g) = [gate |-> h, send |-> <<j>>]
      BY <1>2 DEF TryDispatchLogs
    <2>2. j \in Job /\ j.kind = "logs" /\ j.gen = g.logs_wanted
      BY <1>2 DEF GateSound, GateType, LogsJob, Job
    <2>3. /\ h \in GateType /\ h.busy
          /\ h.pending_refresh = g.pending_refresh /\ h.refresh_wanted = g.refresh_wanted
          /\ h.refresh_inflight = g.refresh_inflight /\ h.logs_inflight = g.logs_wanted
      BY DEF GateSound, GateType
    <2> HIDE DEF h, j
    <2>4. GateSound(h)
      BY <1>2, <2>3 DEF GateSound, Latest
    <2>5. Remembers(h, j)
      BY <1>2, <2>2, <2>3 DEF Rests, Remembers
    <2> QED
      BY <1>2, <2>1, <2>2, <2>3, <2>4, <2>5 DEF Sends
  <1> QED
    BY <1>1, <1>2

LEMMA TryAny ==
    ASSUME NEW g, GateSound(g), Rests(g)
    PROVE  Sends(g, TryDispatchAny(g))
  BY TryRefresh, TryLogs DEF TryDispatchAny

\* A refresh that is asked for is waiting or sent.
LEMMA AskRefresh ==
    ASSUME NEW g, GateSound(g), Rests(g)
    PROVE  LET r == RequestRefresh(g)
           IN  /\ Sends(g, r)
               /\ r.gate.pending_refresh \/ \E j \in Job : r.send = <<j>> /\ j.kind = "refresh"
  <1>1. CASE g.pending_refresh
    BY <1>1 DEF RequestRefresh, Sends
  <1>2. CASE ~g.pending_refresh
    <2> DEFINE h == [g EXCEPT !.refresh_wanted = Succ(@, Gens), !.pending_refresh = TRUE]
    <2>1. /\ h \in GateType /\ h.pending_refresh /\ h.busy = g.busy
          /\ h.refresh_inflight = g.refresh_inflight /\ h.logs_inflight = g.logs_inflight
          /\ h.refresh_wanted = Succ(g.refresh_wanted, Gens)
      BY NextGeneration DEF GateSound, GateType
    <2>2. Latest(h)
      BY <1>2, <2>1, NextGeneration DEF GateSound, GateType, Latest
    <2>3. RequestRefresh(g) = TryDispatchRefresh(h)
      BY <1>2 DEF RequestRefresh
    <2> HIDE DEF h
    <2>4. Sends(h, TryDispatchRefresh(h))
      BY <2>1, <2>2, TryRefresh DEF GateSound, Rests
    <2> QED
      BY <1>2, <2>1, <2>3, <2>4 DEF Sends
  <1> QED
    BY <1>1, <1>2

LEMMA AskLogs ==
    ASSUME NEW g, GateSound(g), Rests(g), NEW u \in Unit
    PROVE  Sends(g, RequestLogs(g, u))
  <1> DEFINE h == [g EXCEPT !.logs_wanted = Succ(@, LogGens), !.pending_logs = u]
  <1>1. /\ h \in GateType /\ h.pending_refresh = g.pending_refresh /\ h.busy = g.busy
        /\ h.refresh_inflight = g.refresh_inflight /\ h.logs_inflight = g.logs_inflight
        /\ h.refresh_wanted = g.refresh_wanted
    BY NextGeneration DEF GateSound, GateType
  <1>2. RequestLogs(g, u) = TryDispatchLogs(h)
    BY DEF RequestLogs
  <1> HIDE DEF h
  <1>3. Sends(h, TryDispatchLogs(h))
    BY <1>1, TryLogs DEF GateSound, Latest, Rests
  <1> QED
    BY <1>1, <1>2, <1>3 DEF Sends

\* An answer to the job in flight is what the channel back holds, and the gate is
\* at rest once it has taken note of it; then the next job may be sent.
LEMMA FinishSends ==
    ASSUME GateSound(gate), Flow, events # <<>>, NEW e, e = Head(events), NEW r,
           r = IF e.kind = "refresh" THEN FinishRefresh(gate, e.gen) ELSE FinishLogs(gate, e.gen)
    PROVE  /\ worker # Dead /\ jobs = <<>> /\ worker = None /\ Tail(events) = <<>>
           /\ \E h : /\ GateSound(h) /\ ~h.busy
                    /\ h.refresh_inflight = None /\ h.logs_inflight = None
                    /\ h.pending_refresh = gate.pending_refresh
                    /\ Sends(h, r)
  <1>1. worker # Dead /\ gate.busy
    BY DEF Flow, FlowOf
  <1>2. PICK j \in Job : Carried(j, jobs, worker, events) /\ Remembers(gate, j)
    BY <1>1 DEF Flow, FlowOf
  <1>3. PICK f : events = <<f>> /\ Answers(f, j) /\ jobs = <<>> /\ worker = None
    BY <1>2 DEF Carried
  <1>4. e = f /\ Tail(events) = <<>>
    BY <1>3
  <1>5. j.kind \in {"refresh", "logs"}
    BY DEF Job
  <1>6. CASE e.kind = "refresh"
    <2> DEFINE h == [gate EXCEPT !.refresh_inflight = None, !.busy = FALSE]
    <2>1. gate.refresh_inflight = e.gen /\ gate.logs_inflight = None
      BY <1>2, <1>3, <1>4, <1>6 DEF Remembers, Answers
    <2>2. FinishRefresh(gate, e.gen) = TryDispatchAny(h)
      BY <2>1 DEF FinishRefresh
    <2>3. /\ h \in GateType /\ ~h.busy /\ h.refresh_inflight = None /\ h.logs_inflight = None
          /\ h.pending_refresh = gate.pending_refresh
      BY <2>1 DEF GateSound, GateType
    <2> HIDE DEF h
    <2>4. Sends(h, TryDispatchAny(h)) /\ GateSound(h)
      BY <2>3, TryAny DEF GateSound, Latest, Rests
    <2> QED
      BY <1>1, <1>3, <1>4, <1>6, <2>2, <2>3, <2>4
  <1>7. CASE e.kind = "logs"
    <2> DEFINE h == [gate EXCEPT !.logs_inflight = None, !.busy = FALSE]
    <2>1. gate.logs_inflight = e.gen /\ gate.refresh_inflight = None
      BY <1>2, <1>3, <1>4, <1>7 DEF Remembers, Answers
    <2>2. FinishLogs(gate, e.gen) = TryDispatchAny(h)
      BY <2>1 DEF FinishLogs
    <2>3. /\ h \in GateType /\ ~h.busy /\ h.refresh_inflight = None /\ h.logs_inflight = None
          /\ h.pending_refresh = gate.pending_refresh
      BY <2>1 DEF GateSound, GateType
    <2> HIDE DEF h
    <2>4. Sends(h, TryDispatchAny(h)) /\ GateSound(h)
      BY <2>3, TryAny DEF GateSound, Latest, Rests
    <2> QED
      BY <1>1, <1>3, <1>4, <1>7, <2>2, <2>3, <2>4
  <1> QED
    BY <1>3, <1>4, <1>5, <1>6, <1>7 DEF Answers

\* What the channels hold after such a result is sent.
LEMMA SendKeeps ==
    ASSUME NEW g, NEW r, NEW js, NEW w, NEW es, NEW since \in BOOLEAN,
           Sends(g, r), FlowOf(g, js, w, es), OwedOf(g, js, w, since)
    PROVE  LET sent == IF w = Dead THEN js ELSE js \o r.send
           IN  GateSound(r.gate) /\ FlowOf(r.gate, sent, w, es) /\ OwedOf(r.gate, sent, w, since)
  <1>1. CASE w = Dead
    BY <1>1 DEF Sends, FlowOf, OwedOf
  <1>2. CASE w # Dead /\ r.send = <<>>
    <2>1. js \o r.send = js
      BY <1>2 DEF FlowOf, Carried
    <2>2. FlowOf(r.gate, js, w, es)
      BY <1>2 DEF Sends, FlowOf, Remembers
    <2>3. OwedOf(r.gate, js, w, since)
      BY <1>2 DEF Sends, OwedOf
    <2> QED
      BY <1>2, <2>1, <2>2, <2>3 DEF Sends
  <1>3. CASE w # Dead /\ r.send # <<>>
    <2>1. PICK j \in Job :
              /\ r.send = <<j>> /\ ~g.busy /\ r.gate.busy /\ Remembers(r.gate, j)
              /\ g.pending_refresh => j.kind = "refresh"
      BY <1>3 DEF Sends
    <2>2. js = <<>> /\ w = None /\ es = <<>>
      BY <1>3, <2>1 DEF FlowOf
    <2>3. js \o r.send = <<j>>
      BY <2>1, <2>2
    <2>4. FlowOf(r.gate, <<j>>, w, es)
      BY <1>3, <2>1, <2>2 DEF FlowOf, Carried
    <2>5. OwedOf(r.gate, <<j>>, w, since)
      BY <2>1, <2>2 DEF OwedOf
    <2> QED
      BY <1>3, <2>3, <2>4, <2>5 DEF Sends
  <1> QED
    BY <1>1, <1>2, <1>3

-----------------------------------------------------------------------------
(* What the handlers make of the list *)

LEMMA Rebuilt ==
    ASSUME NEW a, IsApp(a), NEW v, NEW f
    PROVE  LET b == RebuildRows(a, v, f) IN IsApp(b) /\ b.view = v /\ b.due = a.due
  <1> DEFINE b(n) == [a EXCEPT !.view = v, !.filter = f, !.rows = Rows(v, f), !.sel = n]
  <1>1. PICK n : RebuildRows(a, v, f) = b(n)
    BY DEF RebuildRows
  <1>2. IsApp(b(n)) /\ b(n).view = v /\ b(n).due = a.due
    BY DEF IsApp
  <1> QED
    BY <1>1, <1>2

LEMMA Marked ==
    ASSUME NEW a, IsApp(a)
    PROVE  Keeps(a, MarkLogsNeeded(a))
  BY DEF MarkLogsNeeded, IsApp, Keeps

LEMMA Moved ==
    ASSUME NEW a, IsApp(a), NEW dir
    PROVE  Keeps(a, MoveSel(a, dir))
  <1> DEFINE b(n) == [a EXCEPT !.sel = n]
  <1>1. MoveSel(a, dir) = a \/ \E n : MoveSel(a, dir) = MarkLogsNeeded(b(n))
    BY DEF MoveSel
  <1>2. \A n : IsApp(b(n)) /\ b(n).view = a.view /\ b(n).due = a.due
    BY DEF IsApp
  <1> HIDE DEF b
  <1>3. \A n : Keeps(b(n), MarkLogsNeeded(b(n)))
    BY <1>2, Marked
  <1> QED
    BY <1>1, <1>2, <1>3 DEF Keeps

LEMMA Toggled ==
    ASSUME NEW a, IsApp(a)
    PROVE  /\ \A p : Keeps(a, ToggleDetail(a, p))
           /\ Keeps(a, ToggleDiagnostics(a))
  <1>1. \A p : Keeps(a, ToggleDetail(a, p))
    BY DEF ToggleDetail, IsApp, Keeps
  <1>2. CASE a.diagnostics_open
    BY <1>1, <1>2 DEF ToggleDiagnostics, IsApp, Keeps
  <1>3. CASE ~a.diagnostics_open
    <2> DEFINE b == [a EXCEPT !.diagnostics_open = TRUE]
    <2>1. IsApp(b) /\ b.view = a.view /\ b.due = a.due
      BY DEF IsApp
    <2> HIDE DEF b
    <2>2. Keeps(b, MarkLogsNeeded(b))
      BY <2>1, Marked
    <2> QED
      BY <1>1, <1>3, <2>1, <2>2 DEF ToggleDiagnostics, Keeps, b
  <1> QED
    BY <1>1, <1>2, <1>3

-----------------------------------------------------------------------------
(* What each step keeps *)

LEMMA AtRest ==
    Flow => Rests(gate)
  BY DEF Flow, FlowOf, Rests

\* Jobs that the gate sends for a request.
LEMMA RequestKeeps ==
    ASSUME IInv, NEW r, Sends(gate, r), gate' = r.gate, Send(r.send),
           UNCHANGED <<events, worker, sinceR>>
    PROVE  GateSound(gate)' /\ Flow' /\ OwedOf(gate, jobs, worker, sinceR)'
  <1> DEFINE sent == IF worker = Dead THEN jobs ELSE jobs \o r.send
  <1>1. jobs' = sent
    BY DEF Send
  <1>2. GateSound(r.gate) /\ FlowOf(r.gate, sent, worker, events)
        /\ OwedOf(r.gate, sent, worker, sinceR)
    BY SendKeeps DEF IInv, Flow
  <1> HIDE DEF sent
  <1>3. GateSound(gate)' /\ FlowOf(gate', jobs', worker', events')
        /\ OwedOf(gate', jobs', worker', sinceR')
    BY <1>1, <1>2 DEF GateSound, Latest
  <1> QED
    BY <1>3 DEF Flow, FlowOf, Carried, Remembers, OwedOf

\* A handler that ends in maybe_request_logs.
LEMMA MaybeKeeps ==
    ASSUME IInv, NEW a, IsApp(a), MaybeRequestLogs(a),
           UNCHANGED <<events, worker, sinceR>>
    PROVE  IInv' /\ Keeps(a, app')
  <1> USE DEF IInv
  <1> DEFINE u == WantedUnit(a)
             r == IF u = None THEN [gate |-> gate, send |-> <<>>] ELSE RequestLogs(gate, u)
  <1>1. gate' = r.gate /\ Send(r.send)
    BY DEF MaybeRequestLogs
  <1>2. u = None \/ u \in Unit
    BY DEF WantedUnit, SelectedIn
  <1>3. Sends(gate, r)
    <2>1. CASE u = None
      BY <2>1 DEF Sends
    <2>2. CASE u # None
      BY <1>2, <2>2, AskLogs, AtRest
    <2> QED
      BY <2>1, <2>2
  <1> HIDE DEF r
  <1>4. GateSound(gate)' /\ Flow' /\ OwedOf(gate, jobs, worker, sinceR)'
    BY <1>1, <1>3, RequestKeeps
  <1>5. PICK l : app' = [a EXCEPT !.want_logs = FALSE, !.logs = l]
    BY DEF MaybeRequestLogs
  <1>6. Keeps(a, app')
    BY <1>5 DEF Keeps, IsApp
  <1> QED
    BY <1>4, <1>6 DEF Keeps, IsApp

LEMMA HandledKeeps ==
    ASSUME IInv, NEW a, Keeps(app, a), Handled(a)
    PROVE  IInv' /\ Postdated
  <1>1. IInv' /\ Keeps(a, app')
    BY MaybeKeeps DEF Handled, Keeps
  <1> QED
    BY <1>1 DEF Keeps, Postdated

LEMMA InputKeeps ==
    ASSUME IInv, Input
    PROVE  IInv' /\ Postdated
  <1> USE DEF IInv
  <1>1. ASSUME NEW f, NEW g \in BOOLEAN
        PROVE  /\ Keeps(app, RebuildRows(app, app.view, f))
               /\ Keeps(app, MarkLogsNeeded([RebuildRows(app, app.view, f) EXCEPT !.filtering = g]))
    <2> DEFINE b == RebuildRows(app, app.view, f)
               c == [b EXCEPT !.filtering = g]
    <2>1. IsApp(b) /\ b.view = app.view /\ b.due = app.due
      BY Rebuilt
    <2> HIDE DEF b
    <2>2. IsApp(c) /\ c.view = app.view /\ c.due = app.due
      BY <2>1 DEF IsApp
    <2> HIDE DEF c
    <2>3. Keeps(c, MarkLogsNeeded(c))
      BY <2>2, Marked
    <2> QED
      BY <2>1, <2>2, <2>3 DEF Keeps, b, c
  <1>2. CASE Ignored \/ Quit
    BY <1>2 DEF Ignored, Quit, Postdated, IsApp, GateSound, Latest, Flow, FlowOf, Carried,
                Remembers, OwedOf
  <1>3. CASE (\E f \in Filter : FilterText(f)) \/ FilterEnter \/ FilterEsc
    BY <1>1, <1>3, HandledKeeps DEF FilterText, FilterEnter, FilterEsc
  <1>4. CASE StartFilter
    <2>1. Keeps(app, [app EXCEPT !.filtering = TRUE])
      BY DEF Keeps, IsApp
    <2> QED
      BY <1>4, <2>1, HandledKeeps DEF StartFilter
  <1>5. CASE \E dir \in {1, -1} : Move(dir) \/ WheelOverList(dir)
    BY <1>5, Moved, HandledKeeps DEF Move, WheelOverList
  <1>6. CASE KeyWiringOrTopology \/ KeyDiagnostics
    BY <1>6, Toggled, HandledKeeps DEF KeyWiringOrTopology, KeyDiagnostics
  <1>7. CASE KeyEsc
    <2>1. Keeps(app, [app EXCEPT !.detail_view = "cockpit"])
      BY DEF Keeps, IsApp
    <2> QED
      BY <1>7, <2>1, Toggled, HandledKeeps DEF KeyEsc
  <1>8. CASE KeyRefresh
    <2> DEFINE r == RequestRefresh(gate)
               sent == IF worker = Dead THEN jobs ELSE jobs \o r.send
    <2>1. /\ gate' = r.gate /\ jobs' = sent /\ sinceR' = FALSE
          /\ UNCHANGED <<app, events, worker>>
      BY <1>8 DEF KeyRefresh, Send
    <2>2. /\ Sends(gate, r)
          /\ r.gate.pending_refresh \/ \E j \in Job : r.send = <<j>> /\ j.kind = "refresh"
      BY AskRefresh, AtRest
    <2> HIDE DEF r
    <2>3. GateSound(r.gate) /\ FlowOf(r.gate, sent, worker, events)
      BY <2>2, SendKeeps DEF Flow
    <2>4. OwedOf(r.gate, sent, worker, FALSE)
      <3>1. CASE worker = Dead \/ r.gate.pending_refresh
        BY <3>1 DEF OwedOf
      <3>2. CASE worker # Dead /\ ~r.gate.pending_refresh
        <4>1. PICK j \in Job : r.send = <<j>> /\ j.kind = "refresh"
          BY <2>2, <3>2
        <4>2. ~gate.busy
          BY <2>2, <4>1 DEF Sends
        <4>3. sent = <<j>>
          BY <3>2, <4>1, <4>2 DEF Flow, FlowOf
        <4> QED
          BY <4>1, <4>3 DEF OwedOf
      <3> QED
        BY <3>1, <3>2
    <2> HIDE DEF sent
    <2>5. GateSound(gate)' /\ Flow' /\ OwedOf(gate, jobs, worker, sinceR)'
      BY <2>1, <2>3, <2>4 DEF GateSound, Latest, Flow, FlowOf, Carried, Remembers, OwedOf
    <2> QED
      BY <2>1, <2>5 DEF IsApp, Postdated
  <1> QED
    BY <1>2, <1>3, <1>4, <1>5, <1>6, <1>7, <1>8 DEF Input

\* An answer is taken from the channel, and whatever waits is sent.
LEMMA AnswerKeeps ==
    ASSUME IInv, ApplyRefreshDone \/ ApplyLogsDone
    PROVE  IInv' /\ Postdated
  <1> USE DEF IInv
  <1> DEFINE e == Head(events)
             r == IF e.kind = "refresh" THEN FinishRefresh(gate, e.gen) ELSE FinishLogs(gate, e.gen)
             sent == IF worker = Dead THEN jobs ELSE jobs \o r.send
  <1>1. /\ events # <<>> /\ events' = Tail(events) /\ UNCHANGED <<worker, sinceR>>
        /\ gate' = r.gate /\ jobs' = sent
    BY DEF ApplyRefreshDone, ApplyLogsDone, Send
  <1>2. /\ worker # Dead /\ jobs = <<>> /\ worker = None /\ Tail(events) = <<>>
    BY <1>1, FinishSends
  <1>3. PICK h : /\ GateSound(h) /\ ~h.busy
                 /\ h.refresh_inflight = None /\ h.logs_inflight = None
                 /\ h.pending_refresh = gate.pending_refresh
                 /\ Sends(h, r)
    BY <1>1, FinishSends
  <1> HIDE DEF r, e
  <1>4. FlowOf(h, jobs, worker, Tail(events)) /\ OwedOf(h, jobs, worker, sinceR)
    BY <1>2, <1>3 DEF FlowOf, OwedOf
  <1>5. /\ GateSound(r.gate) /\ FlowOf(r.gate, sent, worker, Tail(events))
        /\ OwedOf(r.gate, sent, worker, sinceR)
    BY <1>3, <1>4, SendKeeps
  <1> HIDE DEF sent
  <1>6. GateSound(gate)' /\ Flow' /\ OwedOf(gate, jobs, worker, sinceR)'
    BY <1>1, <1>5 DEF GateSound, Latest, Flow, FlowOf, Carried, Remembers, OwedOf
  <1>7. IsApp(app') /\ Postdated
    <2>1. CASE app' = app
      BY <2>1 DEF Postdated
    <2>2. CASE ApplyLogsDone /\ app' # app
      <3>1. PICK l : app' = [app EXCEPT !.logs = l]
        BY <2>2 DEF ApplyLogsDone
      <3> QED
        BY <3>1 DEF IsApp, Postdated
    <2>3. CASE ApplyRefreshDone /\ app' # app
      <3>1. RefreshApplies(gate, e.gen)
        BY <2>3 DEF ApplyRefreshDone, e
      <3>2. gate.refresh_inflight # None
        <4>1. gate.refresh_wanted \in Gen
          BY DEF GateSound, GateType
        <4> QED
          BY <3>1, <4>1, NoneAssumption DEF RefreshApplies
      <3>3. ~gate.pending_refresh
        BY <3>1, <3>2 DEF RefreshApplies, GateSound, Latest
      <3>4. sinceR
        BY <1>2, <3>3 DEF OwedOf
      <3>5. CASE e.result = None
        <4>1. app' = [app EXCEPT !.last_error = "refresh", !.due = FALSE]
          BY <2>3, <3>1, <3>5 DEF ApplyRefreshDone, e
        <4> QED
          BY <3>4, <4>1 DEF IsApp, Postdated
      <3>6. CASE e.result # None
        <4> DEFINE b == RebuildRows(app, e.result, app.filter)
                   c == [b EXCEPT !.last_error = "none", !.due = FALSE]
        <4>1. app' = MarkLogsNeeded(c)
          BY <2>3, <3>1, <3>6 DEF ApplyRefreshDone, ReplaceView, e
        <4>2. IsApp(b)
          BY Rebuilt
        <4> HIDE DEF b
        <4>3. IsApp(c)
          BY <4>2 DEF IsApp
        <4> HIDE DEF c
        <4>4. IsApp(app')
          BY <4>1, <4>3, Marked DEF Keeps
        <4> QED
          BY <3>4, <4>4 DEF Postdated
      <3> QED
        BY <3>5, <3>6
    <2> QED
      BY <2>1, <2>2, <2>3
  <1> QED
    BY <1>1, <1>6, <1>7 DEF IsApp

\* The rest of the UI loop, and the clock.
LEMMA LoopKeeps ==
    ASSUME IInv, EndDrain \/ Idle \/ RefreshDue
    PROVE  IInv' /\ Postdated
  <1> USE DEF IInv
  <1>1. CASE EndDrain
    <2> DEFINE a == IF worker = Dead THEN [app EXCEPT !.last_error = "exited"] ELSE app
    <2>1. Keeps(app, a)
      BY DEF Keeps, IsApp
    <2>2. MaybeRequestLogs(a) /\ UNCHANGED <<events, worker, sinceR>>
      BY <1>1 DEF EndDrain
    <2> HIDE DEF a
    <2>3. IInv' /\ Keeps(a, app')
      BY <2>1, <2>2, MaybeKeeps DEF Keeps
    <2> QED
      BY <2>1, <2>3 DEF Keeps, Postdated
  <1>2. CASE Idle
    <2> DEFINE r == IF gate.refresh_inflight # None \/ gate.pending_refresh \/ gate.busy \/ ~app.due
                    THEN [gate |-> gate, send |-> <<>>]
                    ELSE RequestRefresh(gate)
    <2>1. gate' = r.gate /\ Send(r.send) /\ UNCHANGED <<app, events, worker, sinceR>>
      BY <1>2 DEF Idle
    <2>2. Sends(gate, r)
      <3>1. Sends(gate, [gate |-> gate, send |-> <<>>])
        BY DEF Sends
      <3>2. Sends(gate, RequestRefresh(gate))
        BY AskRefresh, AtRest
      <3> QED
        BY <3>1, <3>2
    <2> HIDE DEF r
    <2>3. GateSound(gate)' /\ Flow' /\ OwedOf(gate, jobs, worker, sinceR)'
      BY <2>1, <2>2, RequestKeeps
    <2> QED
      BY <2>1, <2>3 DEF IsApp, Postdated
  <1>3. CASE RefreshDue
    <2>1. app' = [app EXCEPT !.due = TRUE] /\ UNCHANGED <<gate, jobs, events, worker, sinceR>>
      BY <1>3 DEF RefreshDue
    <2>2. IsApp(app') /\ Postdated
      BY <2>1 DEF IsApp, Postdated
    <2> QED
      BY <2>1, <2>2 DEF IsApp, GateSound, Latest, Flow, FlowOf, Carried, Remembers, OwedOf
  <1> QED
    BY <1>1, <1>2, <1>3

LEMMA JobIsAValue ==
    \A j \in Job : j # None /\ j # Dead
  BY NoneAssumption

\* The worker's steps: the job is taken, answered, or lost with the worker.
LEMMA WorkerKeeps ==
    ASSUME IInv, WorkerStep \/ LogsPanic
    PROVE  IInv' /\ Postdated
  <1> USE DEF IInv
  <1>1. UNCHANGED <<app, gate>>
    BY DEF WorkerStep, TakeJob, RefreshDone, LogsDone, LogsPanic
  <1>2. IsApp(app') /\ GateSound(gate') /\ Postdated
    BY <1>1 DEF GateSound, Latest, Postdated
  <1>3. worker # Dead /\ (jobs # <<>> \/ worker # None)
    BY NoneAssumption DEF WorkerStep, TakeJob, RefreshDone, LogsDone, LogsPanic, WorkerRuns
  <1>4. gate.busy
    BY <1>3 DEF Flow, FlowOf
  <1>5. PICK j \in Job : Carried(j, jobs, worker, events) /\ Remembers(gate, j)
    BY <1>3, <1>4 DEF Flow, FlowOf
  <1>6. CASE TakeJob
    <2>1. jobs = <<j>> /\ worker = None /\ events = <<>>
      BY <1>5, <1>6 DEF TakeJob, Carried
    <2>2. /\ worker' = j /\ jobs' = <<>> /\ events' = <<>>
          /\ sinceR' = (sinceR \/ j.kind = "refresh")
      BY <1>6, <2>1 DEF TakeJob
    <2>3. FlowOf(gate', jobs', worker', events')
      BY <1>1, <1>4, <1>5, <2>2, JobIsAValue DEF FlowOf, Carried
    <2>4. OwedOf(gate', jobs', worker', sinceR')
      <3>1. sinceR \/ gate.pending_refresh \/ j.kind = "refresh"
        BY <1>3, <2>1 DEF OwedOf
      <3>2. sinceR \/ j.kind = "refresh" => sinceR'
        BY <2>2
      <3> QED
        BY <1>1, <3>1, <3>2 DEF OwedOf
    <2> QED
      BY <1>2, <2>2, <2>3, <2>4 DEF IsApp, GateSound, Latest, Flow, FlowOf, Carried, Remembers, OwedOf
  <1>7. CASE RefreshDone \/ LogsDone
    <2>1. jobs = <<>> /\ worker = j /\ events = <<>>
      BY <1>5, <1>7 DEF RefreshDone, LogsDone, WorkerRuns, Carried
    <2>2. PICK e : /\ events' = Append(events, e) /\ Answers(e, j)
                   /\ worker' = None /\ UNCHANGED <<jobs, sinceR>>
      <3>1. CASE RefreshDone
        <4>1. j.kind = "refresh"
          BY <2>1, <3>1 DEF RefreshDone, WorkerRuns
        <4>2. j.unit = None
          BY <4>1 DEF Job
        <4>3. PICK res : events' = Append(events, [kind |-> "refresh", gen |-> worker.gen,
                                                  unit |-> None, result |-> res])
          BY <3>1 DEF RefreshDone
        <4> DEFINE e == [kind |-> "refresh", gen |-> worker.gen, unit |-> None, result |-> res]
        <4>4. Answers(e, j)
          BY <2>1, <4>1, <4>2 DEF Answers
        <4> QED
          BY <3>1, <4>3, <4>4 DEF RefreshDone
      <3>2. CASE LogsDone
        <4> DEFINE e == [kind |-> "logs", gen |-> worker.gen, unit |-> worker.unit, result |-> None]
        <4>1. Answers(e, j)
          BY <2>1, <3>2 DEF LogsDone, WorkerRuns, Answers
        <4> QED
          BY <3>2, <4>1 DEF LogsDone
      <3> QED
        BY <1>7, <3>1, <3>2
    <2>3. events' = <<e>> /\ jobs' = <<>>
      BY <2>1, <2>2
    <2>4. FlowOf(gate', jobs', worker', events')
      <3>1. Carried(j, jobs', worker', events')
        BY <2>2, <2>3 DEF Carried
      <3>2. worker' # Dead
        BY <2>2, NoneAssumption
      <3> QED
        BY <1>1, <1>4, <1>5, <3>1, <3>2 DEF FlowOf
    <2>5. OwedOf(gate', jobs', worker', sinceR')
      BY <1>1, <1>3, <2>1, <2>2 DEF OwedOf
    <2> QED
      BY <1>2, <2>2, <2>4, <2>5 DEF IsApp, GateSound, Latest, Flow, FlowOf, Carried, Remembers, OwedOf
  <1>8. CASE LogsPanic
    <2>1. worker = j /\ events = <<>>
      BY <1>5, <1>8 DEF LogsPanic, WorkerRuns, Carried
    <2>2. worker' = Dead /\ jobs' = <<>> /\ events' = <<>> /\ sinceR' = sinceR
      BY <1>8, <2>1 DEF LogsPanic
    <2> QED
      BY <1>1, <1>2, <1>4, <2>2 DEF IsApp, GateSound, Latest, Flow, FlowOf, OwedOf
  <1> QED
    BY <1>6, <1>7, <1>8 DEF WorkerStep

LEMMA StepKeeps ==
    ASSUME IInv, [Next]_vars
    PROVE  IInv' /\ [Postdated]_vars
  <1>1. CASE UNCHANGED vars
    BY <1>1 DEF vars, IInv, IsApp, GateSound, Latest, Flow, FlowOf, Carried, Remembers, OwedOf
  <1>2. CASE Stopped
    BY <1>1, <1>2 DEF Stopped
  <1> QED
    BY <1>1, <1>2, InputKeeps, AnswerKeeps, LoopKeeps, WorkerKeeps DEF Next, UIStep

-----------------------------------------------------------------------------
(* The theorems *)

LEMMA InitHolds ==
    ASSUME Init
    PROVE  IInv
  <1> DEFINE g == [refresh_wanted |-> 0, refresh_inflight |-> None,
                   logs_wanted |-> 0, logs_inflight |-> None,
                   pending_refresh |-> FALSE, pending_logs |-> None, busy |-> FALSE]
             r == RequestRefresh(g)
  <1>1. /\ gate = r.gate /\ jobs = r.send
        /\ events = <<>> /\ worker = None /\ sinceR = TRUE
    BY DEF Init
  <1>2. IsApp(app)
    BY DEF Init, IsApp
  <1>3. g \in GateType
    BY GensAssumption DEF GateType, Gen, LogGen
  <1>4. GateSound(g) /\ Rests(g) /\ ~g.busy /\ g.refresh_inflight = None /\ g.logs_inflight = None
    BY <1>3 DEF GateSound, Latest, Rests
  <1> HIDE DEF g
  <1>5. Sends(g, r)
    BY <1>4, AskRefresh
  <1>6. FlowOf(g, <<>>, None, <<>>) /\ OwedOf(g, <<>>, None, TRUE) /\ None # Dead
    BY <1>4, NoneAssumption DEF FlowOf, OwedOf
  <1> HIDE DEF r
  <1>7. GateSound(r.gate) /\ FlowOf(r.gate, <<>> \o r.send, None, <<>>)
    BY <1>5, <1>6, SendKeeps
  <1>8. <<>> \o r.send = r.send
    BY <1>5 DEF Sends
  <1> QED
    BY <1>1, <1>2, <1>7, <1>8 DEF IInv, Flow, OwedOf

LEMMA Invariant == Spec => []IInv
  BY InitHolds, StepKeeps, PTL DEF Spec

\* What is outstanding is the one job the two channels and the worker carry.
LEMMA CarriedIsOutstanding ==
    ASSUME NEW j \in Job, Carried(j, jobs, worker, events)
    PROVE  Outstanding = <<j>>
  <1> DEFINE At(i) == [kind |-> events[i].kind, gen |-> events[i].gen, unit |-> events[i].unit]
             ws == IF worker \in {None, Dead} THEN <<>> ELSE <<worker>>
             es == [i \in DOMAIN events |-> At(i)]
  <1>1. Outstanding = jobs \o ws \o es
    BY DEF Outstanding
  <1>2. events = <<>> => es = <<>>
    OBVIOUS
  <1>3. CASE jobs = <<j>> /\ worker = None /\ events = <<>>
    BY <1>1, <1>2, <1>3
  <1>4. CASE jobs = <<>> /\ worker = j /\ events = <<>>
    BY <1>1, <1>2, <1>4, JobIsAValue
  <1>5. CASE jobs = <<>> /\ worker = None /\ \E e : events = <<e>> /\ Answers(e, j)
    <2>1. PICK e : events = <<e>> /\ Answers(e, j)
      BY <1>5
    <2>2. [kind |-> e.kind, gen |-> e.gen, unit |-> e.unit] = j
      BY <2>1 DEF Answers, Job
    <2>3. es = <<j>>
      BY <2>1, <2>2
    <2> QED
      BY <1>1, <1>5, <2>3
  <1> QED
    BY <1>3, <1>4, <1>5 DEF Carried

\* The gate is busy exactly while one job is on its way through the two channels and
\* the worker, and it is the job the gate remembers (BackendCtl, tui.rs:1016-1101).
THEOREM OneJob == Spec => []OneJobOnItsWay
  <1>1. IInv => OneJobOnItsWay
    <2> SUFFICES ASSUME Flow, worker # Dead
                 PROVE  /\ Len(Outstanding) = IF gate.busy THEN 1 ELSE 0
                        /\ \A i \in DOMAIN Outstanding :
                               LET j == Outstanding[i]
                               IN  /\ gate.refresh_inflight = IF j.kind = "refresh" THEN j.gen ELSE None
                                   /\ gate.logs_inflight = IF j.kind = "logs" THEN j.gen ELSE None
      BY DEF IInv, OneJobOnItsWay
    <2>1. CASE gate.busy
      <3>1. PICK j \in Job : Carried(j, jobs, worker, events) /\ Remembers(gate, j)
        BY <2>1 DEF Flow, FlowOf
      <3>2. Outstanding = <<j>>
        BY <3>1, CarriedIsOutstanding
      <3> QED
        BY <2>1, <3>1, <3>2 DEF Remembers
    <2>2. CASE ~gate.busy
      <3>1. jobs = <<>> /\ worker = None /\ events = <<>>
        BY <2>2 DEF Flow, FlowOf
      <3>2. Outstanding = <<>>
        BY <3>1 DEF Outstanding
      <3> QED
        BY <2>2, <3>2
    <2> QED
      BY <2>1, <2>2
  <1> QED
    BY <1>1, Invariant, PTL

\* A snapshot, or the note that none could be taken, replaces what is shown only if
\* the worker started on it after the last key r (the generations of BackendCtl).
THEOREM SnapshotsAnswerTheKey == Spec => SnapshotsPostdateTheKey
  <1>1. IInv /\ [Next]_vars => [Postdated]_vars
    BY StepKeeps
  <1>2. Spec => [][Next]_vars
    BY DEF Spec
  <1> QED
    BY <1>1, <1>2, Invariant, PTL DEF SnapshotsPostdateTheKey, Postdated

-----------------------------------------------------------------------------
(* The drawer: what is shown is the selected operation's, or it will be asked for, *)
(* waits to be asked for or is asked for.                                          *)

\* The request for u's lines that will be accepted is in one of the three places.
OnItsWay(u, g, js, w, es) ==
    g.busy /\ LogsJob(g.logs_wanted, u) \in Job /\ Carried(LogsJob(g.logs_wanted, u), js, w, es)

AsksFor(a, g, js, w, es) ==
    \/ a.logs = SelectedIn(a)
    \/ SelectedIn(a) # None /\ g.pending_logs = SelectedIn(a)
    \/ SelectedIn(a) # None /\ OnItsWay(SelectedIn(a), g, js, w, es)

DrawerOf(a, g, js, w, es) ==
    (a.diagnostics_open /\ ~a.filtering /\ w # Dead) => a.want_logs \/ AsksFor(a, g, js, w, es)

Drawn == phase = "poll" => ~app.want_logs

DInv == IInv /\ DrawerOf(app, gate, jobs, worker, events) /\ Drawn

LEMMA AUnitOrNone ==
    \A a : SelectedIn(a) = None \/ SelectedIn(a) \in Unit
  BY DEF SelectedIn

\* A log request that waits still waits in r, or is what r sends.
Pursues(g, r, u) ==
    /\ r.gate.logs_wanted = g.logs_wanted
    /\ \/ r.send = <<>> /\ r.gate.pending_logs = u
       \/ r.send = <<LogsJob(g.logs_wanted, u)>> /\ r.gate.busy
       \/ r.gate.pending_logs = u

LEMMA TryLogsPursues ==
    ASSUME NEW g, GateSound(g), g.pending_logs # None
    PROVE  Pursues(g, TryDispatchLogs(g), g.pending_logs)
  BY DEF TryDispatchLogs, Pursues, GateSound, GateType

LEMMA TryRefreshPursues ==
    ASSUME NEW g, GateSound(g)
    PROVE  LET h == TryDispatchRefresh(g).gate
           IN  h.pending_logs = g.pending_logs /\ h.logs_wanted = g.logs_wanted
  BY DEF TryDispatchRefresh, GateSound, GateType

LEMMA TryAnyPursues ==
    ASSUME NEW g, GateSound(g), g.pending_logs # None
    PROVE  Pursues(g, TryDispatchAny(g), g.pending_logs)
  BY TryLogsPursues, TryRefreshPursues DEF TryDispatchAny, Pursues

LEMMA AskRefreshKeeps ==
    ASSUME NEW g, GateSound(g)
    PROVE  LET h == RequestRefresh(g).gate
           IN  h.pending_logs = g.pending_logs /\ h.logs_wanted = g.logs_wanted
  <1>1. CASE g.pending_refresh
    BY <1>1 DEF RequestRefresh
  <1>2. CASE ~g.pending_refresh
    <2> DEFINE h == [g EXCEPT !.refresh_wanted = Succ(@, Gens), !.pending_refresh = TRUE]
    <2>1. /\ h \in GateType /\ h.pending_logs = g.pending_logs /\ h.logs_wanted = g.logs_wanted
          /\ h.pending_refresh /\ h.refresh_wanted = Succ(g.refresh_wanted, Gens)
          /\ h.refresh_inflight = g.refresh_inflight
      BY NextGeneration DEF GateSound, GateType
    <2>2. Latest(h)
      BY <1>2, <2>1, NextGeneration DEF GateSound, GateType, Latest
    <2>3. RequestRefresh(g) = TryDispatchRefresh(h)
      BY <1>2 DEF RequestRefresh
    <2> HIDE DEF h
    <2> QED
      BY <2>1, <2>2, <2>3, TryRefreshPursues DEF GateSound
  <1> QED
    BY <1>1, <1>2

LEMMA AskLogsPursues ==
    ASSUME NEW g, GateSound(g), NEW u \in Unit
    PROVE  LET r == RequestLogs(g, u)
           IN  \/ r.gate.pending_logs = u
               \/ r.send = <<LogsJob(r.gate.logs_wanted, u)>> /\ r.gate.busy
  <1> DEFINE h == [g EXCEPT !.logs_wanted = Succ(@, LogGens), !.pending_logs = u]
  <1>1. /\ h \in GateType /\ h.pending_refresh = g.pending_refresh
        /\ h.refresh_inflight = g.refresh_inflight /\ h.refresh_wanted = g.refresh_wanted
        /\ h.pending_logs = u
    BY NextGeneration DEF GateSound, GateType
  <1>2. RequestLogs(g, u) = TryDispatchLogs(h) /\ u # None
    BY NoneAssumption DEF RequestLogs
  <1> HIDE DEF h
  <1>3. Pursues(h, TryDispatchLogs(h), u)
    BY <1>1, <1>2, TryLogsPursues DEF GateSound, Latest
  <1> QED
    BY <1>2, <1>3 DEF Pursues

\* What is sent at rest is on its way.
LEMMA SentIsOnItsWay ==
    ASSUME NEW g, g \in GateType, NEW u \in Unit, NEW js, g.busy,
           js = <<LogsJob(g.logs_wanted, u)>>
    PROVE  OnItsWay(u, g, js, None, <<>>)
  BY DEF OnItsWay, Carried, LogsJob, Job, GateType

-----------------------------------------------------------------------------
(* What each step does to the drawer *)

\* maybe_request_logs asks for what a wants.
LEMMA MaybeAsks ==
    ASSUME DInv, NEW a, IsApp(a), DrawerOf(a, gate, jobs, worker, events), MaybeRequestLogs(a),
           UNCHANGED <<events, worker, sinceR>>
    PROVE  DrawerOf(app', gate', jobs', worker', events') /\ ~app'.want_logs
  <1> USE DEF DInv, IInv
  <1> DEFINE u == SelectedIn(a)
             clear == a.want_logs /\ a.diagnostics_open /\ u = None
             b == [a EXCEPT !.want_logs = FALSE,
                            !.logs = IF a.want_logs /\ a.diagnostics_open /\ WantedUnit(a) = None
                                     THEN None ELSE @]
  <1>1. app' = b
    BY DEF MaybeRequestLogs
  <1>2. /\ ~b.want_logs /\ b.diagnostics_open = a.diagnostics_open /\ b.filtering = a.filtering
        /\ SelectedIn(b) = u
        /\ b.logs = IF clear THEN None ELSE a.logs
    BY DEF IsApp, SelectedIn, WantedUnit
  <1> HIDE DEF b
  <1> SUFFICES ASSUME a.diagnostics_open, ~a.filtering, worker # Dead
               PROVE  AsksFor(b, gate', jobs', worker', events')
    BY <1>1, <1>2 DEF DrawerOf
  <1>3. CASE ~a.want_logs
    <2>1. WantedUnit(a) = None
      BY <1>3 DEF WantedUnit
    <2>2. gate' = gate /\ jobs' = jobs \o <<>>
      BY <2>1 DEF MaybeRequestLogs, Send
    <2>3. jobs \o <<>> = jobs
      BY DEF Flow, FlowOf, Carried
    <2>4. AsksFor(a, gate, jobs, worker, events)
      BY <1>3 DEF DrawerOf
    <2>5. AsksFor(b, gate, jobs, worker, events)
      BY <1>2, <1>3, <2>4 DEF AsksFor
    <2> QED
      BY <2>2, <2>3, <2>5
  <1>4. CASE a.want_logs /\ u = None
    BY <1>2, <1>4 DEF AsksFor
  <1>5. CASE a.want_logs /\ u # None
    <2> DEFINE r == RequestLogs(gate, u)
    <2>1. WantedUnit(a) = u /\ u \in Unit
      BY <1>5, AUnitOrNone DEF WantedUnit
    <2>2. gate' = r.gate /\ jobs' = jobs \o r.send
      BY <1>5, <2>1 DEF MaybeRequestLogs, Send
    <2>3. Sends(gate, r)
      BY <2>1, AskLogs, AtRest
    <2>4. \/ r.gate.pending_logs = u
          \/ r.send = <<LogsJob(r.gate.logs_wanted, u)>> /\ r.gate.busy
      BY <2>1, AskLogsPursues
    <2> HIDE DEF r, u
    <2>5. CASE r.gate.pending_logs = u
      BY <1>2, <1>5, <2>2, <2>5 DEF AsksFor
    <2>6. CASE r.send = <<LogsJob(r.gate.logs_wanted, u)>> /\ r.gate.busy
      <3>1. ~gate.busy /\ r.gate \in GateType
        BY <2>3, <2>6 DEF Sends, GateSound
      <3>2. jobs = <<>> /\ worker = None /\ events = <<>>
        BY <3>1 DEF Flow, FlowOf
      <3>3. jobs' = <<LogsJob(r.gate.logs_wanted, u)>>
        BY <2>2, <2>6, <3>2
      <3>4. OnItsWay(u, gate', jobs', None, <<>>)
        BY <2>1, <2>2, <2>6, <3>1, <3>3, SentIsOnItsWay
      <3> QED
        BY <1>2, <1>5, <3>2, <3>4 DEF AsksFor
    <2> QED
      BY <2>4, <2>5, <2>6
  <1> QED
    BY <1>3, <1>4, <1>5

\* A refresh is asked for and nothing of the drawer changes.
LEMMA StillAsks ==
    ASSUME DInv, NEW r, Sends(gate, r), r.gate.pending_logs = gate.pending_logs,
           r.gate.logs_wanted = gate.logs_wanted, gate' = r.gate, Send(r.send),
           UNCHANGED <<app, events, worker>>
    PROVE  DrawerOf(app', gate', jobs', worker', events')
  <1> USE DEF DInv, IInv
  <1> SUFFICES ASSUME app.diagnostics_open, ~app.filtering, worker # Dead, ~app.want_logs
               PROVE  AsksFor(app, gate', jobs', worker, events)
    BY DEF DrawerOf
  <1>1. AsksFor(app, gate, jobs, worker, events)
    BY DEF DrawerOf
  <1> DEFINE u == SelectedIn(app)
  <1>2. CASE OnItsWay(u, gate, jobs, worker, events)
    <2>1. r.send = <<>> /\ r.gate.busy
      BY <1>2 DEF OnItsWay, Sends
    <2>2. jobs' = jobs
      BY <1>2, <2>1 DEF OnItsWay, Carried, Send
    <2>3. OnItsWay(u, gate', jobs', worker, events)
      BY <1>2, <2>1, <2>2 DEF OnItsWay
    <2> HIDE DEF u
    <2> QED
      BY <1>1, <1>2, <2>3 DEF AsksFor, u
  <1>3. CASE ~OnItsWay(u, gate, jobs, worker, events)
    BY <1>1, <1>3 DEF AsksFor
  <1> QED
    BY <1>2, <1>3

LEMMA MarkedWants ==
    ASSUME NEW a, IsApp(a)
    PROVE  \A g, js, w, es : DrawerOf(MarkLogsNeeded(a), g, js, w, es)
  BY DEF MarkLogsNeeded, IsApp, DrawerOf

\* Only another pane, error or time.
LEMMA SameDrawer ==
    ASSUME NEW a, NEW b, DrawerOf(a, gate, jobs, worker, events),
           b.rows = a.rows, b.sel = a.sel, b.logs = a.logs, b.want_logs = a.want_logs,
           b.diagnostics_open = a.diagnostics_open, b.filtering = a.filtering
    PROVE  DrawerOf(b, gate, jobs, worker, events)
  BY DEF DrawerOf, AsksFor, SelectedIn

\* The inputs.
LEMMA HandledDraws ==
    ASSUME DInv, NEW a, IsApp(a), DrawerOf(a, gate, jobs, worker, events), Handled(a)
    PROVE  DrawerOf(app', gate', jobs', worker', events') /\ Drawn'
  BY MaybeAsks DEF Handled, Drawn

LEMMA MovedWants ==
    ASSUME NEW a, IsApp(a), NEW dir, DrawerOf(a, gate, jobs, worker, events)
    PROVE  DrawerOf(MoveSel(a, dir), gate, jobs, worker, events)
  <1> DEFINE b(n) == [a EXCEPT !.sel = n]
  <1>1. MoveSel(a, dir) = a \/ \E n : MoveSel(a, dir) = MarkLogsNeeded(b(n))
    BY DEF MoveSel
  <1>2. \A n : IsApp(b(n))
    BY DEF IsApp
  <1> HIDE DEF b
  <1> QED
    BY <1>1, <1>2, MarkedWants

LEMMA RebuiltRest ==
    ASSUME NEW a, IsApp(a), NEW v, NEW f
    PROVE  LET b == RebuildRows(a, v, f)
           IN  b.filtering = a.filtering /\ b.diagnostics_open = a.diagnostics_open
  <1> DEFINE b(n) == [a EXCEPT !.view = v, !.filter = f, !.rows = Rows(v, f), !.sel = n]
  <1>1. PICK n : RebuildRows(a, v, f) = b(n)
    BY DEF RebuildRows
  <1>2. b(n).filtering = a.filtering /\ b(n).diagnostics_open = a.diagnostics_open
    BY DEF IsApp
  <1> QED
    BY <1>1, <1>2

LEMMA InputDraws ==
    ASSUME DInv, Input
    PROVE  DrawerOf(app', gate', jobs', worker', events') /\ Drawn'
  <1> USE DEF DInv, IInv
  <1>1. CASE Ignored \/ Quit
    BY <1>1 DEF Ignored, Quit, Drawn
  <1>2. CASE \E f \in Filter : FilterText(f)
    <2>1. PICK f : app.filtering /\ Handled(RebuildRows(app, app.view, f))
      BY <1>2 DEF FilterText
    <2> DEFINE a == RebuildRows(app, app.view, f)
    <2>2. IsApp(a) /\ a.filtering = app.filtering
      BY Rebuilt, RebuiltRest
    <2> HIDE DEF a
    <2>3. DrawerOf(a, gate, jobs, worker, events)
      BY <2>1, <2>2 DEF DrawerOf
    <2> QED
      BY <2>1, <2>2, <2>3, HandledDraws DEF a
  <1>3. CASE FilterEnter \/ FilterEsc
    <2>1. PICK f : Handled(MarkLogsNeeded([RebuildRows(app, app.view, f) EXCEPT !.filtering = FALSE]))
      BY <1>3 DEF FilterEnter, FilterEsc
    <2> DEFINE b == RebuildRows(app, app.view, f)
               c == [b EXCEPT !.filtering = FALSE]
    <2>2. IsApp(b)
      BY Rebuilt
    <2> HIDE DEF b
    <2>3. IsApp(c)
      BY <2>2 DEF IsApp
    <2> HIDE DEF c
    <2>4. IsApp(MarkLogsNeeded(c))
      BY <2>3, Marked DEF Keeps
    <2> QED
      BY <2>1, <2>3, <2>4, MarkedWants, HandledDraws DEF b, c
  <1>4. CASE StartFilter
    <2> DEFINE a == [app EXCEPT !.filtering = TRUE]
    <2>1. IsApp(a) /\ a.filtering
      BY DEF IsApp
    <2>2. Handled(a)
      BY <1>4 DEF StartFilter
    <2> HIDE DEF a
    <2>3. DrawerOf(a, gate, jobs, worker, events)
      BY <2>1 DEF DrawerOf
    <2> QED
      BY <2>1, <2>2, <2>3, HandledDraws
  <1>5. CASE \E dir \in {1, -1} : Move(dir) \/ WheelOverList(dir)
    <2>1. PICK dir : Handled(MoveSel(app, dir))
      BY <1>5 DEF Move, WheelOverList
    <2>2. IsApp(MoveSel(app, dir))
      BY Moved DEF Keeps
    <2> QED
      BY <2>1, <2>2, MovedWants, HandledDraws
  <1>6. ASSUME NEW p, Handled(ToggleDetail(app, p))
        PROVE  DrawerOf(app', gate', jobs', worker', events') /\ Drawn'
    <2> DEFINE b == ToggleDetail(app, p)
    <2>1. /\ IsApp(b) /\ b.rows = app.rows /\ b.sel = app.sel /\ b.logs = app.logs
          /\ b.want_logs = app.want_logs /\ b.diagnostics_open = app.diagnostics_open
          /\ b.filtering = app.filtering
      BY DEF ToggleDetail, IsApp
    <2> HIDE DEF b
    <2>2. DrawerOf(b, gate, jobs, worker, events)
      BY <2>1, SameDrawer
    <2> QED
      BY <1>6, <2>1, <2>2, HandledDraws DEF b
  <1>7. ASSUME Handled(ToggleDiagnostics(app))
        PROVE  DrawerOf(app', gate', jobs', worker', events') /\ Drawn'
    <2>1. IsApp(ToggleDiagnostics(app))
      BY Toggled DEF Keeps
    <2>2. DrawerOf(ToggleDiagnostics(app), gate, jobs, worker, events)
      <3>1. CASE app.diagnostics_open
        BY <3>1 DEF ToggleDiagnostics, IsApp, DrawerOf
      <3>2. CASE ~app.diagnostics_open
        <4> DEFINE b == [app EXCEPT !.diagnostics_open = TRUE]
        <4>1. IsApp(b)
          BY DEF IsApp
        <4> HIDE DEF b
        <4> QED
          BY <3>2, <4>1, MarkedWants DEF ToggleDiagnostics, b
      <3> QED
        BY <3>1, <3>2
    <2> QED
      BY <1>7, <2>1, <2>2, HandledDraws
  <1>8. CASE KeyEsc
    <2>1. CASE Handled([app EXCEPT !.detail_view = "cockpit"])
      <3> DEFINE b == [app EXCEPT !.detail_view = "cockpit"]
      <3>1. /\ IsApp(b) /\ b.rows = app.rows /\ b.sel = app.sel /\ b.logs = app.logs
            /\ b.want_logs = app.want_logs /\ b.diagnostics_open = app.diagnostics_open
            /\ b.filtering = app.filtering
        BY DEF IsApp
      <3>2. Handled(b)
        BY <2>1
      <3> HIDE DEF b
      <3>3. DrawerOf(b, gate, jobs, worker, events)
        BY <3>1, SameDrawer
      <3> QED
        BY <3>1, <3>2, <3>3, HandledDraws
    <2> QED
      BY <1>7, <1>8, <2>1 DEF KeyEsc
  <1>9. CASE KeyRefresh
    <2> DEFINE r == RequestRefresh(gate)
    <2>1. /\ gate' = r.gate /\ Send(r.send) /\ UNCHANGED <<app, events, worker>> /\ phase' = "drain"
      BY <1>9 DEF KeyRefresh
    <2>2. Sends(gate, r) /\ r.gate.pending_logs = gate.pending_logs
          /\ r.gate.logs_wanted = gate.logs_wanted
      BY AskRefresh, AskRefreshKeeps, AtRest
    <2> HIDE DEF r
    <2> QED
      BY <2>1, <2>2, StillAsks DEF Drawn
  <1> QED
    BY <1>1, <1>2, <1>3, <1>4, <1>5, <1>6, <1>7, <1>8, <1>9
    DEF Input, KeyWiringOrTopology, KeyDiagnostics

\* An answer is shown if it is the selected unit's; what waits is sent.
LEMMA AnswerDraws ==
    ASSUME DInv, ApplyRefreshDone \/ ApplyLogsDone
    PROVE  DrawerOf(app', gate', jobs', worker', events') /\ Drawn'
  <1> USE DEF DInv, IInv
  <1> DEFINE e == Head(events)
             r == IF e.kind = "refresh" THEN FinishRefresh(gate, e.gen) ELSE FinishLogs(gate, e.gen)
  <1>1. /\ events # <<>> /\ events' = Tail(events) /\ UNCHANGED <<worker, phase>>
        /\ gate' = r.gate /\ Send(r.send) /\ phase = "drain"
    BY DEF ApplyRefreshDone, ApplyLogsDone
  <1>2. Drawn'
    BY <1>1 DEF Drawn
  <1>3. worker # Dead /\ jobs = <<>> /\ worker = None /\ events' = <<>> /\ gate.busy
    BY <1>1, FinishSends DEF Flow, FlowOf
  <1>4. PICK j \in Job : Carried(j, jobs, worker, events) /\ Remembers(gate, j)
    BY <1>3 DEF Flow, FlowOf
  <1>5. Answers(e, j)
    BY <1>1, <1>4 DEF Carried
  <1>6. jobs' = r.send
    <2>1. \E h : Sends(h, r)
      BY <1>1, FinishSends
    <2> HIDE DEF r
    <2>2. <<>> \o r.send = r.send
      BY <2>1 DEF Sends
    <2> QED
      BY <1>1, <1>3, <2>2 DEF Send
  <1>7. ASSUME gate.pending_logs # None
        PROVE  Pursues(gate, r, gate.pending_logs)
    <2>1. CASE e.kind = "refresh"
      <3> DEFINE h == [gate EXCEPT !.refresh_inflight = None, !.busy = FALSE]
      <3>1. gate.refresh_inflight = e.gen
        BY <1>4, <1>5, <2>1 DEF Remembers, Answers
      <3>2. r = TryDispatchAny(h)
        BY <2>1, <3>1 DEF FinishRefresh
      <3>3. h \in GateType /\ h.pending_logs = gate.pending_logs /\ h.logs_wanted = gate.logs_wanted
            /\ h.refresh_inflight = None
        BY DEF GateSound, GateType
      <3> HIDE DEF h, r
      <3>4. Pursues(h, TryDispatchAny(h), gate.pending_logs)
        BY <1>7, <3>3, TryAnyPursues DEF GateSound, Latest
      <3> QED
        BY <3>2, <3>3, <3>4 DEF Pursues
    <2>2. CASE e.kind # "refresh"
      <3> DEFINE h == [gate EXCEPT !.logs_inflight = None, !.busy = FALSE]
      <3>1. gate.logs_inflight = e.gen
        BY <1>4, <1>5, <2>2 DEF Remembers, Answers, Job
      <3>2. r = TryDispatchAny(h)
        BY <2>2, <3>1 DEF FinishLogs
      <3>3. h \in GateType /\ h.pending_logs = gate.pending_logs /\ h.logs_wanted = gate.logs_wanted
            /\ h.refresh_inflight = gate.refresh_inflight
            /\ h.refresh_wanted = gate.refresh_wanted /\ h.pending_refresh = gate.pending_refresh
        BY DEF GateSound, GateType
      <3> HIDE DEF h, r
      <3>4. Pursues(h, TryDispatchAny(h), gate.pending_logs)
        BY <1>7, <3>3, TryAnyPursues DEF GateSound, Latest
      <3> QED
        BY <3>2, <3>3, <3>4 DEF Pursues
    <2> QED
      BY <2>1, <2>2
  <1>8. GateSound(r.gate)
    <2>1. \E h : Sends(h, r)
      BY <1>1, FinishSends
    <2> HIDE DEF r
    <2> QED
      BY <2>1 DEF Sends
  <1> HIDE DEF r
  <1>9. ASSUME gate.pending_logs # None
        PROVE  \/ gate'.pending_logs = gate.pending_logs
               \/ OnItsWay(gate.pending_logs, gate', jobs', worker', events')
    <2>1. gate.pending_logs \in Unit
      BY <1>9 DEF GateSound, GateType
    <2>2. r.gate \in GateType
      BY <1>8 DEF GateSound
    <2>3. CASE r.send = <<LogsJob(gate.logs_wanted, gate.pending_logs)>> /\ r.gate.busy
      <3>1. r.gate.logs_wanted = gate.logs_wanted
        BY <1>7, <1>9 DEF Pursues
      <3>2. OnItsWay(gate.pending_logs, r.gate, r.send, None, <<>>)
        BY <2>1, <2>2, <2>3, <3>1, SentIsOnItsWay
      <3> QED
        BY <1>1, <1>3, <1>6, <3>2
    <2> QED
      BY <1>1, <1>7, <1>9, <2>3 DEF Pursues
  <1>10. CASE ApplyRefreshDone
    <2>1. e.kind = "refresh" /\ (app' # app => RefreshApplies(gate, e.gen))
      BY <1>10 DEF ApplyRefreshDone
    <2>2. CASE RefreshApplies(gate, e.gen) /\ e.result # None
      <3> DEFINE b == RebuildRows(app, e.result, app.filter)
                 c == [b EXCEPT !.last_error = "none", !.due = FALSE]
      <3>1. app' = MarkLogsNeeded(c)
        BY <1>10, <2>2 DEF ApplyRefreshDone, ReplaceView
      <3>2. IsApp(b)
        BY Rebuilt
      <3> HIDE DEF b
      <3>3. IsApp(c)
        BY <3>2 DEF IsApp
      <3> HIDE DEF c
      <3> QED
        BY <1>2, <3>1, <3>3, MarkedWants
    <2>3. CASE ~(RefreshApplies(gate, e.gen) /\ e.result # None)
      <3>1. app' = app \/ app' = [app EXCEPT !.last_error = "refresh", !.due = FALSE]
        BY <1>10, <2>1, <2>3 DEF ApplyRefreshDone
      <3>2. /\ app'.rows = app.rows /\ app'.sel = app.sel /\ app'.logs = app.logs
            /\ app'.want_logs = app.want_logs /\ app'.diagnostics_open = app.diagnostics_open
            /\ app'.filtering = app.filtering
        BY <3>1 DEF IsApp
      <3>3. ~OnItsWay(SelectedIn(app), gate, jobs, worker, events)
        BY <1>1, <1>3, <1>5, <2>1 DEF OnItsWay, Carried, LogsJob, Answers
      <3>4. SelectedIn(app') = SelectedIn(app)
        BY <3>2 DEF SelectedIn
      <3> QED
        BY <1>2, <1>3, <1>9, <3>2, <3>3, <3>4 DEF DrawerOf, AsksFor
    <2> QED
      BY <2>2, <2>3
  <1>11. CASE ApplyLogsDone
    <2>1. /\ e.kind = "logs"
          /\ app' = IF LogsApply(gate, e.gen) /\ Selected = e.unit
                    THEN [app EXCEPT !.logs = e.unit] ELSE app
      BY <1>11 DEF ApplyLogsDone
    <2>2. /\ app'.rows = app.rows /\ app'.sel = app.sel
          /\ app'.want_logs = app.want_logs /\ app'.diagnostics_open = app.diagnostics_open
          /\ app'.filtering = app.filtering
          /\ app'.logs = IF LogsApply(gate, e.gen) /\ Selected = e.unit THEN e.unit ELSE app.logs
      BY <2>1 DEF IsApp
    <2>3. SelectedIn(app') = SelectedIn(app) /\ Selected = SelectedIn(app)
      BY <2>2 DEF SelectedIn, Selected
    <2>4. ASSUME OnItsWay(SelectedIn(app), gate, jobs, worker, events)
          PROVE  app'.logs = SelectedIn(app)
      <3>1. e.gen = gate.logs_wanted /\ e.unit = SelectedIn(app)
        BY <1>1, <1>3, <2>4 DEF OnItsWay, Carried, LogsJob, Answers
      <3>2. gate.logs_inflight = e.gen
        BY <1>4, <1>5, <2>1 DEF Remembers, Answers
      <3> QED
        BY <2>2, <2>3, <3>1, <3>2 DEF LogsApply
    <2>5. app.logs = SelectedIn(app) => app'.logs = SelectedIn(app)
      BY <2>2, <2>3
    <2> QED
      BY <1>2, <1>3, <1>9, <2>2, <2>3, <2>4, <2>5 DEF DrawerOf, AsksFor
  <1> QED
    BY <1>10, <1>11

LEMMA LoopDraws ==
    ASSUME DInv, EndDrain \/ Idle \/ RefreshDue
    PROVE  DrawerOf(app', gate', jobs', worker', events') /\ Drawn'
  <1> USE DEF DInv, IInv
  <1>1. CASE EndDrain
    <2> DEFINE a == IF worker = Dead THEN [app EXCEPT !.last_error = "exited"] ELSE app
    <2>1. /\ IsApp(a) /\ a.rows = app.rows /\ a.sel = app.sel /\ a.logs = app.logs
          /\ a.want_logs = app.want_logs /\ a.diagnostics_open = app.diagnostics_open
          /\ a.filtering = app.filtering
      BY DEF IsApp
    <2>2. MaybeRequestLogs(a) /\ UNCHANGED <<events, worker, sinceR>>
      BY <1>1 DEF EndDrain
    <2> HIDE DEF a
    <2>3. DrawerOf(a, gate, jobs, worker, events)
      BY <2>1, SameDrawer
    <2> QED
      BY <2>1, <2>2, <2>3, MaybeAsks DEF Drawn
  <1>2. CASE Idle
    <2> DEFINE r == IF gate.refresh_inflight # None \/ gate.pending_refresh \/ gate.busy \/ ~app.due
                    THEN [gate |-> gate, send |-> <<>>]
                    ELSE RequestRefresh(gate)
    <2>1. gate' = r.gate /\ Send(r.send) /\ UNCHANGED <<app, events, worker>> /\ phase' = "drain"
      BY <1>2 DEF Idle
    <2>2. Sends(gate, r) /\ r.gate.pending_logs = gate.pending_logs
          /\ r.gate.logs_wanted = gate.logs_wanted
      <3>1. Sends(gate, [gate |-> gate, send |-> <<>>])
        BY DEF Sends
      <3> QED
        BY <3>1, AskRefresh, AskRefreshKeeps, AtRest
    <2> HIDE DEF r
    <2> QED
      BY <2>1, <2>2, StillAsks DEF Drawn
  <1>3. CASE RefreshDue
    <2> DEFINE b == [app EXCEPT !.due = TRUE]
    <2>1. app' = b /\ UNCHANGED <<gate, jobs, events, worker, phase>>
      BY <1>3 DEF RefreshDue
    <2>2. /\ b.rows = app.rows /\ b.sel = app.sel /\ b.logs = app.logs
          /\ b.want_logs = app.want_logs /\ b.diagnostics_open = app.diagnostics_open
          /\ b.filtering = app.filtering
      BY DEF IsApp
    <2> HIDE DEF b
    <2>3. DrawerOf(b, gate, jobs, worker, events)
      BY <2>2, SameDrawer
    <2> QED
      BY <2>1, <2>2, <2>3 DEF Drawn
  <1> QED
    BY <1>1, <1>2, <1>3

LEMMA WorkerDraws ==
    ASSUME DInv, WorkerStep \/ LogsPanic
    PROVE  DrawerOf(app', gate', jobs', worker', events') /\ Drawn'
  <1> USE DEF DInv, IInv
  <1>1. UNCHANGED <<app, gate, phase>>
    BY DEF WorkerStep, TakeJob, RefreshDone, LogsDone, LogsPanic
  <1>2. CASE LogsPanic
    BY <1>1, <1>2 DEF LogsPanic, DrawerOf, Drawn
  <1>3. CASE WorkerStep
    <2>1. worker # Dead
      BY <1>3, NoneAssumption DEF WorkerStep, TakeJob, RefreshDone, LogsDone, WorkerRuns
    <2>2. ASSUME NEW u, OnItsWay(u, gate, jobs, worker, events)
          PROVE  OnItsWay(u, gate', jobs', worker', events')
      <3> DEFINE j == LogsJob(gate.logs_wanted, u)
      <3>1. j \in Job /\ j.kind = "logs" /\ Carried(j, jobs, worker, events)
        BY <2>2 DEF OnItsWay, LogsJob
      <3>2. CASE TakeJob
        <4>1. jobs = <<j>> /\ worker = None /\ events = <<>>
          BY <3>1, <3>2 DEF TakeJob, Carried
        <4> HIDE DEF j
        <4>2. worker' = j /\ jobs' = <<>> /\ events' = <<>>
          BY <3>2, <4>1 DEF TakeJob
        <4> QED
          BY <1>1, <2>2, <4>2 DEF OnItsWay, Carried, j
      <3>3. CASE RefreshDone \/ LogsDone
        <4>1. jobs = <<>> /\ worker = j /\ events = <<>>
          BY <3>1, <3>3 DEF RefreshDone, LogsDone, WorkerRuns, Carried
        <4>2. LogsDone
          BY <3>1, <3>3, <4>1 DEF RefreshDone, WorkerRuns
        <4> DEFINE e == [kind |-> "logs", gen |-> worker.gen, unit |-> worker.unit, result |-> None]
        <4>3. Answers(e, j)
          BY <3>1, <4>1 DEF Answers
        <4> HIDE DEF j
        <4>4. events' = <<e>> /\ jobs' = <<>> /\ worker' = None
          BY <4>1, <4>2 DEF LogsDone
        <4> HIDE DEF e
        <4>5. Carried(j, jobs', worker', events')
          BY <4>3, <4>4 DEF Carried
        <4> QED
          BY <1>1, <2>2, <4>5 DEF OnItsWay, j
      <3> QED
        BY <1>3, <3>2, <3>3 DEF WorkerStep
    <2> QED
      BY <1>1, <2>1, <2>2 DEF DrawerOf, AsksFor, Drawn
  <1> QED
    BY <1>2, <1>3

LEMMA StepDraws ==
    ASSUME DInv, [Next]_vars
    PROVE  DInv'
  <1>1. IInv'
    BY StepKeeps DEF DInv
  <1>2. DrawerOf(app', gate', jobs', worker', events') /\ Drawn'
    <2>1. CASE UNCHANGED vars
      BY <2>1 DEF vars, DInv, Drawn
    <2>2. CASE Stopped
      BY <2>1, <2>2 DEF Stopped
    <2> QED
      BY <2>1, <2>2, InputDraws, AnswerDraws, LoopDraws, WorkerDraws DEF Next, UIStep
  <1> QED
    BY <1>1, <1>2 DEF DInv, DrawerOf, AsksFor, OnItsWay, Carried

\* With the drawer open and no filter being typed, a frame shows the selected
\* operation's lines, or the request for them is on its way or waits under the
\* generation that will be accepted; only a dead worker leaves another unit's lines
\* standing (maybe_request_logs, apply_event, tui.rs:1226-1322).
THEOREM DrawerKeepsUp == Spec => []DrawerShowsOrAsks
  <1>1. Init => DInv
    <2> SUFFICES ASSUME Init PROVE DInv
      OBVIOUS
    <2>1. app.diagnostics_open = FALSE /\ phase = "drain"
      BY DEF Init
    <2> QED
      BY <2>1, InitHolds DEF DInv, DrawerOf, Drawn
  <1>2. DInv => DrawerShowsOrAsks
    <2> SUFFICES ASSUME DInv, phase = "poll", app.diagnostics_open, ~app.filtering, worker # Dead
                 PROVE  \/ app.logs = Selected
                        \/ Selected # None /\ gate.pending_logs = Selected
                        \/ \E i \in DOMAIN Outstanding :
                               Outstanding[i] = LogsJob(gate.logs_wanted, Selected)
      BY DEF DrawerShowsOrAsks
    <2>1. AsksFor(app, gate, jobs, worker, events)
      BY DEF DInv, DrawerOf, Drawn
    <2>2. CASE OnItsWay(Selected, gate, jobs, worker, events)
      <3> DEFINE j == LogsJob(gate.logs_wanted, Selected)
      <3>1. j \in Job /\ Carried(j, jobs, worker, events)
        BY <2>2 DEF OnItsWay
      <3> HIDE DEF j
      <3>2. Outstanding = <<j>>
        BY <3>1, CarriedIsOutstanding
      <3> QED
        BY <3>2 DEF j
    <2> QED
      BY <2>1, <2>2 DEF AsksFor, Selected
  <1> QED
    BY <1>1, <1>2, StepDraws, PTL DEF Spec

-----------------------------------------------------------------------------
(* Functions by recursion over the numbers up to N: the units in an order, and  *)
(* the depth of a tree.                                                         *)

\* A set of numbers that is not empty has a least one.
LEMMA Least ==
    ASSUME NEW S \in SUBSET Nat, S # {}
    PROVE  \E m \in S : \A n \in S : m <= n
  <1>1. PICK m \in S : \A n \in S : ~(<<n, m>> \in OpToRel(<, Nat))
    BY NatLessThanWellFounded, WFMin
  <1>2. \A n \in S : ~(n < m)
    BY <1>1 DEF OpToRel
  <1> QED
    BY <1>2

\* 0 is good, and up to N what follows a good number.
GoesUp(N, Good) == 0 \in Good /\ \A k \in 1..N : k - 1 \in Good => k \in Good

LEMMA ByCounting ==
    ASSUME NEW N \in Nat, NEW Good, GoesUp(N, Good)
    PROVE  N \in Good
  <1> DEFINE Bad == {k \in 0..N : k \notin Good}
  <1>1. SUFFICES ASSUME Bad # {} PROVE FALSE
    <2>1. N \in 0..N
      OBVIOUS
    <2> QED
      BY <2>1
  <1>2. Bad \in SUBSET Nat
    OBVIOUS
  <1>3. PICK k \in Bad : \A j \in Bad : k <= j
    <2> HIDE DEF Bad
    <2> QED
      BY <1>1, <1>2, Least
  <1>4. k # 0
    BY <1>3 DEF GoesUp
  <1>5. k \in 1..N /\ k - 1 \in 0..N /\ ~(k <= k - 1)
    BY <1>3, <1>4
  <1>6. k - 1 \in Good
    BY <1>3, <1>5
  <1> QED
    BY <1>3, <1>5, <1>6 DEF GoesUp

\* f starts from base and goes from k - 1 to k by step[k].
Recurs(f, N, base, step) ==
    \A k \in 0..N : f[k] = IF k = 0 THEN base ELSE step[k][f[k - 1]]

\* There is a function that does so: the definitions by recursion mean something.
LEMMA RecursionExists ==
    ASSUME NEW N \in Nat, NEW T, NEW base \in T, NEW step \in [1..N -> [T -> T]]
    PROVE  \E f \in [0..N -> T] : Recurs(f, N, base, step)
  <1> USE DEF Recurs
  <1> DEFINE Solves(f, m) ==
                /\ f \in [0..m -> T]
                /\ \A k \in 0..m : f[k] = IF k = 0 THEN base ELSE step[k][f[k - 1]]
             Good == {m \in 0..N : \E f : Solves(f, m)}
  <1>1. 0 \in Good
    <2> DEFINE f == [k \in 0..0 |-> base]
    <2>1. f \in [0..0 -> T] /\ \A k \in 0..0 : k = 0 /\ f[k] = base
      OBVIOUS
    <2> HIDE DEF f
    <2>2. Solves(f, 0)
      BY <2>1
    <2> QED
      BY <2>2
  <1>2. ASSUME NEW m \in 1..N, m - 1 \in Good
        PROVE  m \in Good
    <2>1. m - 1 \in 0..m
      OBVIOUS
    <2>2. PICK g : Solves(g, m - 1)
      BY <1>2
    <2> DEFINE f == [k \in 0..m |-> IF k = m THEN step[m][g[m - 1]] ELSE g[k]]
    <2>3. \A k \in 0..m : f[k] \in T
      BY <2>1, <2>2
    <2>4. \A k \in 0..m : f[k] = IF k = 0 THEN base ELSE step[k][f[k - 1]]
      <3> SUFFICES ASSUME NEW k \in 0..m
                   PROVE  f[k] = IF k = 0 THEN base ELSE step[k][f[k - 1]]
        OBVIOUS
      <3>1. \A j \in 0..m : f[j] = IF j = m THEN step[m][g[m - 1]] ELSE g[j]
        OBVIOUS
      <3> HIDE DEF f
      <3>2. CASE k = m
        <4>1. m - 1 \in 0..m /\ m - 1 # m
          BY <2>1
        <4>2. f[m - 1] = g[m - 1]
          BY <3>1, <4>1
        <4>3. f[m] = step[m][g[m - 1]]
          BY <3>1
        <4> QED
          BY <2>1, <3>2, <4>2, <4>3
      <3>3. CASE k # m
        <4>1. k \in 0..m - 1 /\ f[k] = g[k]
          BY <2>1, <3>1, <3>3
        <4>2. k # 0 => k - 1 \in 0..m /\ k - 1 # m
          BY <2>1, <3>3
        <4>3. k # 0 => f[k - 1] = g[k - 1]
          BY <3>1, <4>2
        <4>4. g[k] = IF k = 0 THEN base ELSE step[k][g[k - 1]]
          BY <2>2, <4>1
        <4> QED
          BY <4>1, <4>3, <4>4
      <3> QED
        BY <3>2, <3>3
    <2>5. Solves(f, m)
      <3>1. f = [k \in 0..m |-> f[k]]
        OBVIOUS
      <3> HIDE DEF f
      <3>2. f \in [0..m -> T]
        BY <2>3, <3>1
      <3> QED
        BY <2>4, <3>2
    <2> HIDE DEF Solves, f
    <2> QED
      BY <2>5
  <1>3. N \in Good
    <2>1. GoesUp(N, Good)
      BY <1>1, <1>2 DEF GoesUp
    <2> HIDE DEF Good
    <2> QED
      BY <2>1, ByCounting
  <1> QED
    BY <1>3

-----------------------------------------------------------------------------
(* Lists of operations, each at most once *)

Distinct(s) == \A i, j \in 1..Len(s) : s[i] = s[j] => i = j
Once(s) == s \in Seq(Unit) /\ Distinct(s)

LEMMA Concat ==
    ASSUME NEW s, NEW t, Once(s), Once(t), ToSet(s) \cap ToSet(t) = {}
    PROVE  Once(s \o t) /\ ToSet(s \o t) = ToSet(s) \cup ToSet(t)
  <1> USE DEF Once
  <1> DEFINE m == Len(s)
             n == Len(t)
             c == s \o t
  <1>1. m \in Nat /\ n \in Nat /\ c \in Seq(Unit) /\ Len(c) = m + n
    OBVIOUS
  <1>2. \A i \in 1..m : c[i] = s[i]
    OBVIOUS
  <1>3. \A i \in 1..n : c[m + i] = t[i]
    OBVIOUS
  <1>4. ToSet(s) = {s[i] : i \in 1..m} /\ ToSet(t) = {t[i] : i \in 1..n}
        /\ ToSet(c) = {c[i] : i \in 1..m + n}
    BY <1>1 DEF ToSet
  <1>5. ASSUME NEW k \in 1..m + n
        PROVE  k \in 1..m \/ \E i \in 1..n : k = m + i
    <2>1. CASE k > m
      <3>1. k - m \in 1..n /\ k = m + (k - m)
        BY <1>1, <2>1
      <3> QED
        BY <3>1
    <2>2. CASE ~(k > m)
      BY <1>1, <2>2
    <2> QED
      BY <2>1, <2>2
  <1>6. \A i \in 1..m : i \in 1..m + n
    BY <1>1
  <1>7. \A i \in 1..n : m + i \in 1..m + n
    BY <1>1
  <1> HIDE DEF m, n, c
  <1>8. Distinct(c)
    <2> SUFFICES ASSUME NEW i \in 1..m + n, NEW j \in 1..m + n, c[i] = c[j]
                 PROVE  i = j
      BY <1>1 DEF Distinct
    <2>1. CASE i \in 1..m /\ j \in 1..m
      BY <1>2, <2>1 DEF Distinct, m
    <2>2. CASE i \in 1..m /\ j \notin 1..m
      <3>1. c[i] \in ToSet(s) /\ c[j] \in ToSet(t)
        BY <1>2, <1>3, <1>4, <1>5, <2>2
      <3> QED
        BY <3>1
    <2>3. CASE i \notin 1..m /\ j \in 1..m
      <3>1. c[i] \in ToSet(t) /\ c[j] \in ToSet(s)
        BY <1>2, <1>3, <1>4, <1>5, <2>3
      <3> QED
        BY <3>1
    <2>4. CASE i \notin 1..m /\ j \notin 1..m
      <3>1. PICK p \in 1..n : i = m + p
        BY <1>5, <2>4
      <3>2. PICK q \in 1..n : j = m + q
        BY <1>5, <2>4
      <3>3. t[p] = t[q]
        BY <1>3, <3>1, <3>2
      <3> QED
        BY <3>1, <3>2, <3>3 DEF Distinct, n
    <2> QED
      BY <2>1, <2>2, <2>3, <2>4
  <1>9. ToSet(c) = ToSet(s) \cup ToSet(t)
    <2>1. ToSet(c) \subseteq ToSet(s) \cup ToSet(t)
      BY <1>2, <1>3, <1>4, <1>5
    <2>2. ToSet(s) \subseteq ToSet(c)
      BY <1>2, <1>4, <1>6
    <2>3. ToSet(t) \subseteq ToSet(c)
      BY <1>3, <1>4, <1>7
    <2> QED
      BY <2>1, <2>2, <2>3
  <1> QED
    BY <1>1, <1>8, <1>9 DEF c

LEMMA Single ==
    ASSUME NEW u \in Unit
    PROVE  Once(<<u>>) /\ ToSet(<<u>>) = {u}
  BY DEF Once, Distinct, ToSet

LEMMA Nothing ==
    Once(<<>>) /\ ToSet(<<>>) = {}
  BY DEF Once, Distinct, ToSet

-----------------------------------------------------------------------------
(* The pieces of some units one after the other *)

Lists(S, piece) == \A u \in S : piece[u] \in Seq(Unit)

\* No unit is in two pieces or twice in one.
Apart(S, piece) ==
    /\ \A u \in S : Once(piece[u])
    /\ \A u, w \in S : u # w => ToSet(piece[u]) \cap ToSet(piece[w]) = {}

Gathers(f, order, S, piece) ==
    /\ f[0] = <<>>
    /\ \A k \in 1..Len(order) : f[k] = Appended(order, S, piece, k, f[k - 1])

LEMMA AppendedTyped ==
    ASSUME NEW order, NEW S, NEW piece, Lists(S, piece), NEW k, NEW out \in Seq(Unit)
    PROVE  Appended(order, S, piece, k, out) \in Seq(Unit)
  <1>1. CASE order[k] \notin S
    BY <1>1 DEF Appended
  <1>2. CASE order[k] \in S
    <2> DEFINE p == piece[order[k]]
    <2>1. p \in Seq(Unit)
      BY <1>2 DEF Lists
    <2> HIDE DEF p
    <2>2. out \o p \in Seq(Unit)
      BY <2>1
    <2> QED
      BY <1>2, <2>2 DEF Appended, p
  <1> QED
    BY <1>1, <1>2

LEMMA JoinedFrom ==
    ASSUME NEW order \in Seq(Unit), NEW S, NEW piece, Lists(S, piece)
    PROVE  \E f : Gathers(f, order, S, piece) /\ Joined(order, S, piece) = f[Len(order)]
  <1> DEFINE N == Len(order)
             T == Seq(Unit)
             after == CHOOSE f : f = [k \in 0..N |->
                          IF k = 0 THEN <<>> ELSE Appended(order, S, piece, k, f[k - 1])]
             step == [k \in 1..N |-> [out \in T |-> Appended(order, S, piece, k, out)]]
  <1>1. N \in Nat
    OBVIOUS
  <1>2. <<>> \in T
    OBVIOUS
  <1>3. step \in [1..N -> [T -> T]]
    <2> SUFFICES ASSUME NEW k \in 1..N, NEW out \in T
                 PROVE  Appended(order, S, piece, k, out) \in T
      OBVIOUS
    <2> QED
      BY AppendedTyped
  <1>4. PICK f \in [0..N -> T] : Recurs(f, N, <<>>, step)
    <2> HIDE DEF step, T, N, after
    <2> QED
      BY <1>1, <1>2, <1>3, RecursionExists
  <1>5. \A k \in 0..N : f[k] = IF k = 0 THEN <<>> ELSE Appended(order, S, piece, k, f[k - 1])
    <2> SUFFICES ASSUME NEW k \in 0..N, k # 0
                 PROVE  f[k] = Appended(order, S, piece, k, f[k - 1])
      BY <1>4 DEF Recurs
    <2>1. k \in 1..N /\ f[k - 1] \in T
      <3> HIDE DEF step, T, after
      <3> QED
        BY <1>1, <1>4
    <2>2. f[k] = step[k][f[k - 1]]
      BY <1>4 DEF Recurs
    <2> DEFINE out == f[k - 1]
    <2> HIDE DEF T, out
    <2>3. step[k][out] = Appended(order, S, piece, k, out)
      BY <2>1 DEF out
    <2> QED
      BY <2>2, <2>3 DEF out
  <1>6. f = [k \in 0..N |-> IF k = 0 THEN <<>> ELSE Appended(order, S, piece, k, f[k - 1])]
    <2>1. f = [k \in 0..N |-> f[k]]
      <3> HIDE DEF T
      <3> QED
        BY <1>4
    <2> QED
      BY <1>5, <2>1
  <1>7. after = [k \in 0..N |->
                    IF k = 0 THEN <<>> ELSE Appended(order, S, piece, k, after[k - 1])]
    BY <1>6, Zenon
  <1>8. Joined(order, S, piece) = after[N]
    BY Zenon DEF Joined
  <1> HIDE DEF after
  <1>9. Gathers(after, order, S, piece)
    <2>1. \A k \in 0..N : after[k] = IF k = 0 THEN <<>>
                                    ELSE Appended(order, S, piece, k, after[k - 1])
      BY <1>7
    <2>2. after[0] = <<>>
      <3>1. 0 \in 0..N
        BY <1>1
      <3> HIDE DEF N
      <3> QED
        BY <2>1, <3>1
    <2>3. ASSUME NEW k \in 1..N
          PROVE  after[k] = Appended(order, S, piece, k, after[k - 1])
      <3>1. k \in 0..N /\ k # 0
        BY <1>1
      <3> QED
        BY <2>1, <3>1
    <2> QED
      BY <2>2, <2>3 DEF Gathers
  <1> QED
    BY <1>8, <1>9

LEMMA JoinedTyped ==
    ASSUME NEW order \in Seq(Unit), NEW S, NEW piece, Lists(S, piece)
    PROVE  Joined(order, S, piece) \in Seq(Unit)
  <1> DEFINE N == Len(order)
  <1>1. N \in Nat
    OBVIOUS
  <1>2. PICK f : Gathers(f, order, S, piece) /\ Joined(order, S, piece) = f[N]
    BY JoinedFrom
  <1> DEFINE Good == {k \in 0..N : f[k] \in Seq(Unit)}
  <1>3. 0 \in Good
    <2>1. f[0] \in Seq(Unit)
      BY <1>2 DEF Gathers
    <2> HIDE DEF N
    <2> QED
      BY <1>1, <2>1
  <1>4. ASSUME NEW k \in 1..N, k - 1 \in Good
        PROVE  k \in Good
    <2> DEFINE out == f[k - 1]
    <2>1. out \in Seq(Unit) /\ f[k] = Appended(order, S, piece, k, out)
      BY <1>2, <1>4 DEF Gathers
    <2> HIDE DEF out
    <2> QED
      BY <2>1, AppendedTyped
  <1>5. N \in Good
    <2>1. GoesUp(N, Good)
      BY <1>3, <1>4 DEF GoesUp
    <2> HIDE DEF Good, N
    <2> QED
      BY <1>1, <2>1, ByCounting
  <1> QED
    BY <1>2, <1>5

\* x is in the piece of one of the first k units.
Within(order, S, piece, k, x) == \E i \in 1..k : order[i] \in S /\ x \in ToSet(piece[order[i]])

\* Every unit of the pieces once.
LEMMA JoinedIs ==
    ASSUME NEW order, IsOrder(order), NEW S \in SUBSET Unit, NEW piece, Apart(S, piece)
    PROVE  /\ Once(Joined(order, S, piece))
           /\ \A x : x \in ToSet(Joined(order, S, piece)) <=> \E u \in S : x \in ToSet(piece[u])
  <1> DEFINE N == Len(order)
  <1>1. N \in Nat /\ order \in Seq(Unit)
    BY DEF IsOrder
  <1>2. PICK f : Gathers(f, order, S, piece) /\ Joined(order, S, piece) = f[N]
    BY <1>1, JoinedFrom DEF Lists, Apart, Once
  <1> DEFINE Right(k) == /\ Once(f[k])
                         /\ \A x : x \in ToSet(f[k]) <=> Within(order, S, piece, k, x)
             Good == {k \in 0..N : Right(k)}
  <1>3. 0 \in Good
    <2>1. f[0] = <<>>
      BY <1>2 DEF Gathers
    <2>2. \A x : ~Within(order, S, piece, 0, x)
      BY DEF Within
    <2>3. Right(0)
      BY <2>1, <2>2, Nothing
    <2> QED
      BY <1>1, <2>3
  <1>4. ASSUME NEW k \in 1..N, k - 1 \in Good
        PROVE  k \in Good
    <2> DEFINE out == f[k - 1]
               p == piece[order[k]]
    <2>1. Once(out) /\ \A x : x \in ToSet(out) <=> Within(order, S, piece, k - 1, x)
      BY <1>4
    <2>2. f[k] = Appended(order, S, piece, k, out)
      BY <1>2 DEF Gathers
    <2> HIDE DEF out, p
    <2>3. k - 1 \in Nat /\ \A i : i \in 1..k <=> i \in 1..k - 1 \/ i = k
      BY <1>1
    <2>4. \A x : Within(order, S, piece, k, x) <=>
                    Within(order, S, piece, k - 1, x) \/ (order[k] \in S /\ x \in ToSet(p))
      BY <2>3 DEF Within, p
    <2>5. CASE order[k] \notin S
      <3>1. f[k] = out
        BY <2>2, <2>5 DEF Appended
      <3>2. Right(k)
        BY <2>1, <2>4, <2>5, <3>1
      <3> QED
        BY <1>1, <3>2
    <2>6. CASE order[k] \in S
      <3>1. f[k] = out \o p /\ Once(p)
        BY <2>2, <2>6 DEF Appended, p, Apart
      <3>2. ToSet(out) \cap ToSet(p) = {}
        <4> SUFFICES ASSUME NEW x \in ToSet(out), x \in ToSet(p) PROVE FALSE
          OBVIOUS
        <4>1. PICK i \in 1..k - 1 : order[i] \in S /\ x \in ToSet(piece[order[i]])
          BY <2>1 DEF Within
        <4>2. i \in 1..N /\ i # k
          BY <1>1
        <4>3. order[i] # order[k]
          BY <4>2 DEF IsOrder
        <4> QED
          BY <2>6, <4>1, <4>3 DEF Apart, p
      <3>3. Once(out \o p) /\ ToSet(out \o p) = ToSet(out) \cup ToSet(p)
        BY <2>1, <3>1, <3>2, Concat
      <3>4. Right(k)
        BY <2>1, <2>4, <2>6, <3>1, <3>3
      <3> QED
        BY <1>1, <3>4
    <2> QED
      BY <2>5, <2>6
  <1>5. N \in Good
    <2>1. GoesUp(N, Good)
      BY <1>3, <1>4 DEF GoesUp
    <2> HIDE DEF Good, N
    <2> QED
      BY <1>1, <2>1, ByCounting
  <1>6. \A x : Within(order, S, piece, N, x) <=> \E u \in S : x \in ToSet(piece[u])
    <2>1. \A u \in S : \E i \in 1..N : order[i] = u
      BY <1>1 DEF IsOrder, ToSet
    <2> QED
      BY <2>1 DEF Within
  <1> QED
    BY <1>2, <1>5, <1>6

LEMMA SortedIs ==
    ASSUME NEW order, IsOrder(order), NEW S \in SUBSET Unit
    PROVE  Once(Sorted(order, S)) /\ ToSet(Sorted(order, S)) = S
  <1> DEFINE piece == [u \in S |-> <<u>>]
  <1>1. \A u \in S : piece[u] = <<u>>
    OBVIOUS
  <1>2. Sorted(order, S) = Joined(order, S, piece)
    BY DEF Sorted
  <1> HIDE DEF piece
  <1>3. \A u \in S : Once(piece[u]) /\ ToSet(piece[u]) = {u}
    BY <1>1, Single
  <1>4. Apart(S, piece)
    BY <1>3 DEF Apart
  <1>5. /\ Once(Sorted(order, S))
        /\ \A x : x \in ToSet(Sorted(order, S)) <=> \E u \in S : x \in ToSet(piece[u])
    BY <1>2, <1>4, JoinedIs
  <1>6. \A x : x \in ToSet(Sorted(order, S)) <=> x \in S
    BY <1>3, <1>5
  <1> QED
    BY <1>5, <1>6

-----------------------------------------------------------------------------
(* The tree of parents *)

\* X has the children of its units.
Closed(S, parent, X) == \A c \in S : parent[c] \in X => c \in X

\* The units under u, and u: the least such set that has u.
Below(S, parent, u) ==
    {x \in S : \A X \in SUBSET S : u \in X /\ Closed(S, parent, X) => x \in X}

\* The units under a root.
Reached(S, parent) ==
    {x \in S : \A X \in SUBSET S : Roots(S, parent) \subseteq X /\ Closed(S, parent, X) => x \in X}

LEMMA BelowIs ==
    ASSUME NEW S, NEW parent, NEW u \in S
    PROVE  /\ u \in Below(S, parent, u)
           /\ Below(S, parent, u) \in SUBSET S
           /\ Closed(S, parent, Below(S, parent, u))
           /\ \A X \in SUBSET S :
                  u \in X /\ Closed(S, parent, X) => Below(S, parent, u) \subseteq X
  BY DEF Below, Closed

\* What is under u is u or its parent is under u.
LEMMA ParentsBelow ==
    ASSUME NEW S, NEW parent, NEW u \in S, NEW x \in Below(S, parent, u), x # u
    PROVE  parent[x] \in Below(S, parent, u)
  <1> DEFINE X == {y \in Below(S, parent, u) : y = u \/ parent[y] \in Below(S, parent, u)}
  <1>1. X \in SUBSET S /\ u \in X
    BY BelowIs
  <1>2. Closed(S, parent, X)
    BY BelowIs DEF Closed
  <1> HIDE DEF X
  <1>3. Below(S, parent, u) \subseteq X
    BY <1>1, <1>2, BelowIs
  <1> QED
    BY <1>3 DEF X

LEMMA ReachedIs ==
    ASSUME NEW S, NEW parent
    PROVE  /\ Roots(S, parent) \subseteq Reached(S, parent)
           /\ Reached(S, parent) \in SUBSET S
           /\ Closed(S, parent, Reached(S, parent))
           /\ \A X \in SUBSET S :
                  Roots(S, parent) \subseteq X /\ Closed(S, parent, X) => Reached(S, parent) \subseteq X
  BY DEF Reached, Closed, Roots

\* Two units neither of which is under the other or under its parent share nothing.
LEMMA SharesNothing ==
    ASSUME NEW S, NEW parent, NEW u \in S, NEW w \in S,
           u \notin Below(S, parent, w), parent[w] \notin Below(S, parent, u)
    PROVE  Below(S, parent, u) \cap Below(S, parent, w) = {}
  <1> DEFINE X == Below(S, parent, u) \ Below(S, parent, w)
  <1>1. X \in SUBSET S /\ u \in X
    BY BelowIs
  <1>2. ASSUME NEW c \in S, parent[c] \in X
        PROVE  c \in X
    <2>1. c \in Below(S, parent, u)
      BY <1>2, BelowIs DEF Closed
    <2>2. c \notin Below(S, parent, w)
      <3>1. c # w
        BY <1>2
      <3> QED
        BY <1>2, <3>1, ParentsBelow
    <2> QED
      BY <2>1, <2>2
  <1>3. Closed(S, parent, X)
    BY <1>2 DEF Closed
  <1> HIDE DEF X
  <1>4. Below(S, parent, u) \subseteq X
    BY <1>1, <1>3, BelowIs
  <1> QED
    BY <1>4 DEF X

\* No unit under a root is under one of its own children.
LEMMA NoCircleReached ==
    ASSUME NEW S, NEW parent, NEW u \in Reached(S, parent), NEW c \in Children(S, parent, u)
    PROVE  u \notin Below(S, parent, c)
  <1> DEFINE X == {w \in S : \A d \in Children(S, parent, w) : w \notin Below(S, parent, d)}
  <1>1. X \in SUBSET S
    OBVIOUS
  <1>2. Roots(S, parent) \subseteq X
    <2> SUFFICES ASSUME NEW w \in Roots(S, parent), NEW d \in Children(S, parent, w),
                        w \in Below(S, parent, d)
                 PROVE  FALSE
      BY DEF Roots
    <2>1. w \in S /\ parent[w] \notin S /\ d \in S /\ parent[d] = w
      BY DEF Roots, Children
    <2>2. w # d
      BY <2>1
    <2>3. parent[w] \in S
      BY <2>1, <2>2, ParentsBelow, BelowIs
    <2> QED
      BY <2>1, <2>3
  <1>3. ASSUME NEW w \in S, parent[w] \in X
        PROVE  w \in X
    <2> SUFFICES ASSUME NEW d \in Children(S, parent, w), w \in Below(S, parent, d)
                 PROVE  FALSE
      BY <1>3
    <2> DEFINE v == parent[w]
    <2>1. v \in S /\ w \in Children(S, parent, v) /\ d \in S /\ parent[d] = w
      BY <1>3 DEF Children
    <2>2. v \notin Below(S, parent, w)
      BY <1>3, <2>1
    <2>3. d \in Below(S, parent, w)
      BY <2>1, BelowIs DEF Closed
    <2>4. Below(S, parent, d) \subseteq Below(S, parent, w)
      BY <2>1, <2>3, BelowIs
    <2>5. w # d
      BY <2>1, <2>2, BelowIs
    <2>6. v \in Below(S, parent, d)
      BY <2>1, <2>5, ParentsBelow
    <2> QED
      BY <2>2, <2>4, <2>6
  <1>4. Closed(S, parent, X)
    BY <1>3 DEF Closed
  <1> HIDE DEF X
  <1>5. Reached(S, parent) \subseteq X
    BY <1>1, <1>2, <1>4, ReachedIs
  <1> QED
    BY <1>5 DEF X

LEMMA SiblingsApart ==
    ASSUME NEW S, NEW parent, NEW u \in Reached(S, parent),
           NEW c \in Children(S, parent, u), NEW d \in Children(S, parent, u), c # d
    PROVE  Below(S, parent, c) \cap Below(S, parent, d) = {}
  <1>1. c \in S /\ d \in S /\ parent[c] = u /\ parent[d] = u
    BY DEF Children
  <1>2. u \notin Below(S, parent, c) /\ u \notin Below(S, parent, d)
    BY NoCircleReached
  <1>3. c \notin Below(S, parent, d)
    BY <1>1, <1>2, ParentsBelow
  <1> QED
    BY <1>1, <1>2, <1>3, SharesNothing

LEMMA RootsApart ==
    ASSUME NEW S, NEW parent, NEW c \in Roots(S, parent), NEW d \in Roots(S, parent), c # d
    PROVE  Below(S, parent, c) \cap Below(S, parent, d) = {}
  <1>1. c \in S /\ d \in S /\ parent[c] \notin S /\ parent[d] \notin S
    BY DEF Roots
  <1>2. Below(S, parent, c) \subseteq S /\ Below(S, parent, d) \subseteq S
    BY <1>1, BelowIs
  <1>3. c \notin Below(S, parent, d)
    BY <1>1, <1>2, ParentsBelow
  <1> QED
    BY <1>1, <1>2, <1>3, SharesNothing

\* Of every unit under a root, units under it, each at most once.
Fine(S, parent, tree) ==
    /\ tree \in [S -> Seq(Unit)]
    /\ \A u \in Reached(S, parent) :
           Once(tree[u]) /\ ToSet(tree[u]) \subseteq Below(S, parent, u)

LEMMA VisitTyped ==
    ASSUME NEW S \in SUBSET Unit, NEW parent, NEW tree \in [S -> Seq(Unit)]
    PROVE  Visit(S, parent, tree) \in [S -> Seq(Unit)]
  <1> SUFFICES ASSUME NEW u \in S
               PROVE  <<u>> \o Joined(TitleOrder, Children(S, parent, u), tree) \in Seq(Unit)
    BY DEF Visit
  <1> DEFINE under == Joined(TitleOrder, Children(S, parent, u), tree)
  <1>1. Lists(Children(S, parent, u), tree)
    BY DEF Lists, Children
  <1>2. under \in Seq(Unit)
    BY <1>1, JoinedTyped, OrderAssumption DEF IsOrder
  <1> HIDE DEF under
  <1>3. <<u>> \o under \in Seq(Unit)
    BY <1>2
  <1> QED
    BY <1>3 DEF under

LEMMA VisitFine ==
    ASSUME NEW S \in SUBSET Unit, NEW parent, NEW tree, Fine(S, parent, tree)
    PROVE  Fine(S, parent, Visit(S, parent, tree))
  <1>1. Visit(S, parent, tree) \in [S -> Seq(Unit)]
    BY VisitTyped DEF Fine
  <1>2. ASSUME NEW u \in Reached(S, parent)
        PROVE  LET p == Visit(S, parent, tree)[u]
               IN  Once(p) /\ ToSet(p) \subseteq Below(S, parent, u)
    <2> DEFINE kids == Children(S, parent, u)
               under == Joined(TitleOrder, kids, tree)
    <2>1. u \in S /\ u \in Unit /\ kids \in SUBSET S /\ kids \in SUBSET Unit
      BY ReachedIs DEF Children
    <2>2. Visit(S, parent, tree)[u] = <<u>> \o under
      BY <2>1 DEF Visit
    <2>3. \A c \in kids : c \in Reached(S, parent)
      BY ReachedIs DEF Children, Closed
    <2>4. \A c \in kids : Once(tree[c]) /\ ToSet(tree[c]) \subseteq Below(S, parent, c)
      BY <2>3 DEF Fine
    <2>5. Apart(kids, tree)
      <3>1. ASSUME NEW c \in kids, NEW d \in kids, c # d
            PROVE  ToSet(tree[c]) \cap ToSet(tree[d]) = {}
        BY <2>4, <3>1, SiblingsApart
      <3> HIDE DEF kids
      <3> QED
        BY <2>4, <3>1 DEF Apart
    <2>6. \A c \in kids : Below(S, parent, c) \subseteq Below(S, parent, u) /\ u \notin Below(S, parent, c)
      <3> SUFFICES ASSUME NEW c \in kids
                   PROVE  Below(S, parent, c) \subseteq Below(S, parent, u) /\ u \notin Below(S, parent, c)
        OBVIOUS
      <3>1. c \in Below(S, parent, u)
        BY <2>1, BelowIs DEF Children, Closed
      <3>2. Below(S, parent, c) \subseteq Below(S, parent, u)
        BY <2>1, <3>1, BelowIs
      <3> QED
        BY <3>2, NoCircleReached
    <2> HIDE DEF kids
    <2>7. /\ Once(under)
          /\ \A x : x \in ToSet(under) <=> \E c \in kids : x \in ToSet(tree[c])
      BY <2>1, <2>5, JoinedIs, OrderAssumption
    <2> HIDE DEF under
    <2>8. ToSet(under) \subseteq Below(S, parent, u) /\ u \notin ToSet(under)
      BY <2>4, <2>6, <2>7
    <2>9. Once(<<u>>) /\ ToSet(<<u>>) = {u}
      BY <2>1, Single
    <2>10. Once(<<u>> \o under) /\ ToSet(<<u>> \o under) = {u} \cup ToSet(under)
      BY <2>7, <2>8, <2>9, Concat
    <2> QED
      BY <2>1, <2>2, <2>8, <2>10, BelowIs
  <1> QED
    BY <1>1, <1>2 DEF Fine

LEMMA StartFine ==
    ASSUME NEW S \in SUBSET Unit, NEW parent
    PROVE  Fine(S, parent, [u \in S |-> <<u>>])
  <1> DEFINE tree == [u \in S |-> <<u>>]
  <1>1. tree \in [S -> Seq(Unit)]
    OBVIOUS
  <1>2. \A u \in S : tree[u] = <<u>>
    OBVIOUS
  <1> HIDE DEF tree
  <1>3. ASSUME NEW u \in Reached(S, parent)
        PROVE  Once(tree[u]) /\ ToSet(tree[u]) \subseteq Below(S, parent, u)
    <2>1. u \in S
      BY ReachedIs
    <2>2. Once(<<u>>) /\ ToSet(<<u>>) = {u}
      BY <2>1, Single
    <2> QED
      BY <1>2, <2>1, <2>2, BelowIs
  <1>4. Fine(S, parent, tree)
    BY <1>1, <1>3 DEF Fine
  <1> QED
    BY <1>4 DEF tree

LEMMA SubtreesFine ==
    ASSUME NEW S \in SUBSET Unit, NEW parent
    PROVE  Fine(S, parent, Subtrees(S, parent))
  <1> DEFINE N == Len(TitleOrder)
             T == [S -> Seq(Unit)]
             start == [u \in S |-> <<u>>]
             tree == CHOOSE f : f = [d \in 0..N |->
                         IF d = 0 THEN [u \in S |-> <<u>>] ELSE Visit(S, parent, f[d - 1])]
             step == [d \in 1..N |-> [t \in T |-> Visit(S, parent, t)]]
  <1>1. N \in Nat
    BY OrderAssumption DEF IsOrder
  <1>2. start \in T
    OBVIOUS
  <1>3. step \in [1..N -> [T -> T]]
    BY VisitTyped
  <1>4. PICK f \in [0..N -> T] : Recurs(f, N, start, step)
    <2> HIDE DEF step, T, start, N, tree
    <2> QED
      BY <1>1, <1>2, <1>3, RecursionExists
  <1>5. \A d \in 0..N : f[d] = IF d = 0 THEN start ELSE Visit(S, parent, f[d - 1])
    <2> SUFFICES ASSUME NEW d \in 0..N, d # 0
                 PROVE  f[d] = Visit(S, parent, f[d - 1])
      BY <1>4 DEF Recurs
    <2>1. d \in 1..N /\ f[d - 1] \in T
      <3> HIDE DEF step, T, start, tree
      <3> QED
        BY <1>1, <1>4
    <2>2. f[d] = step[d][f[d - 1]]
      BY <1>4 DEF Recurs
    <2> DEFINE t == f[d - 1]
    <2> HIDE DEF T, t
    <2>3. step[d][t] = Visit(S, parent, t)
      BY <2>1 DEF t
    <2> QED
      BY <2>2, <2>3 DEF t
  <1>6. f = [d \in 0..N |->
                IF d = 0 THEN [u \in S |-> <<u>>] ELSE Visit(S, parent, f[d - 1])]
    <2>1. f = [d \in 0..N |-> f[d]]
      <3> HIDE DEF T
      <3> QED
        BY <1>4
    <2> QED
      BY <1>5, <2>1
  <1>7. tree = [d \in 0..N |->
                   IF d = 0 THEN [u \in S |-> <<u>>] ELSE Visit(S, parent, tree[d - 1])]
    BY <1>6, Zenon
  <1>8. Subtrees(S, parent) = tree[N]
    BY Zenon DEF Subtrees
  <1> HIDE DEF tree
  <1>9. \A d \in 0..N : tree[d] = IF d = 0 THEN start ELSE Visit(S, parent, tree[d - 1])
    BY <1>7
  <1> DEFINE Good == {d \in 0..N : Fine(S, parent, tree[d])}
  <1>10. 0 \in Good
    <2>1. 0 \in 0..N
      BY <1>1
    <2>2. tree[0] = start
      <3> HIDE DEF start, N
      <3> QED
        BY <1>9, <2>1
    <2> QED
      BY <2>1, <2>2, StartFine
  <1>11. ASSUME NEW d \in 1..N, d - 1 \in Good
         PROVE  d \in Good
    <2> DEFINE t == tree[d - 1]
    <2>1. Fine(S, parent, t) /\ d \in 0..N /\ d # 0
      BY <1>1, <1>11
    <2>2. tree[d] = Visit(S, parent, t)
      BY <1>9, <2>1
    <2> HIDE DEF t
    <2> QED
      BY <2>1, <2>2, VisitFine
  <1>12. N \in Good
    <2>1. GoesUp(N, Good)
      BY <1>10, <1>11 DEF GoesUp
    <2> HIDE DEF Good, N
    <2> QED
      BY <1>1, <2>1, ByCounting
  <1> QED
    BY <1>8, <1>12

\* hierarchy_rows lists what it is given, each once.
LEMMA HierarchyIs ==
    ASSUME NEW S \in SUBSET Unit, NEW parent
    PROVE  Once(HierarchyRows(S, parent)) /\ ToSet(HierarchyRows(S, parent)) = S
  <1> DEFINE roots == Roots(S, parent)
             tree == Subtrees(S, parent)
             trees == Joined(TitleOrder, roots, tree)
             rest == Sorted(NameOrder, S \ ToSet(trees))
  <1>1. HierarchyRows(S, parent) = trees \o rest
    BY DEF HierarchyRows
  <1>2. roots \in SUBSET S /\ roots \in SUBSET Unit
    BY DEF Roots
  <1>3. \A u \in roots : Once(tree[u]) /\ ToSet(tree[u]) \subseteq Below(S, parent, u)
    BY ReachedIs, SubtreesFine DEF Fine
  <1> HIDE DEF tree
  <1>4. Apart(roots, tree)
    <2>1. ASSUME NEW c \in roots, NEW d \in roots, c # d
          PROVE  ToSet(tree[c]) \cap ToSet(tree[d]) = {}
      BY <1>3, <2>1, RootsApart
    <2> HIDE DEF roots
    <2> QED
      BY <1>3, <2>1 DEF Apart
  <1>5. \A u \in roots : Below(S, parent, u) \subseteq S
    BY <1>2, BelowIs
  <1> HIDE DEF roots
  <1>6. Once(trees) /\ \A x : x \in ToSet(trees) <=> \E u \in roots : x \in ToSet(tree[u])
    BY <1>2, <1>4, JoinedIs, OrderAssumption
  <1> HIDE DEF trees
  <1>7. ToSet(trees) \subseteq S
    BY <1>3, <1>5, <1>6
  <1>8. Once(rest) /\ ToSet(rest) = S \ ToSet(trees)
    <2>1. S \ ToSet(trees) \in SUBSET Unit
      OBVIOUS
    <2> QED
      BY <2>1, SortedIs, OrderAssumption
  <1> HIDE DEF rest
  <1>9. ToSet(trees) \cap ToSet(rest) = {}
    BY <1>8
  <1>10. Once(trees \o rest) /\ ToSet(trees \o rest) = ToSet(trees) \cup ToSet(rest)
    BY <1>6, <1>8, <1>9, Concat
  <1> QED
    BY <1>1, <1>7, <1>8, <1>10

-----------------------------------------------------------------------------
(* The rows *)

LEMMA HitsOnce ==
    ASSUME NEW s, Once(s), NEW u
    PROVE  /\ u \in ToSet(s) => \E i \in 1..Len(s) : Hits(s, u) = {i}
           /\ u \notin ToSet(s) => Hits(s, u) = {}
  <1>1. DOMAIN s = 1..Len(s)
    BY DEF Once
  <1>2. ASSUME u \in ToSet(s) PROVE \E i \in 1..Len(s) : Hits(s, u) = {i}
    <2>1. PICK i \in 1..Len(s) : s[i] = u
      BY <1>1, <1>2 DEF ToSet
    <2>2. Hits(s, u) = {i}
      BY <1>1, <2>1 DEF Hits, Once, Distinct
    <2> QED
      BY <2>2
  <1>3. u \notin ToSet(s) => Hits(s, u) = {}
    BY DEF Hits, ToSet
  <1> QED
    BY <1>2, <1>3

Shifted(H, k) == {i + k : i \in H}

LEMMA TwoAre ==
    ASSUME NEW i, NEW j, i # j
    PROVE  Cardinality({i, j}) = 2
  <1>1. IsFiniteSet({i}) /\ Cardinality({i}) = 1
    BY FS_Singleton
  <1>2. Cardinality({i} \cup {j}) = Cardinality({i}) + 1
    BY <1>1, FS_AddElement
  <1>3. {i} \cup {j} = {i, j}
    OBVIOUS
  <1> QED
    BY <1>1, <1>2, <1>3

\* Two sections under their headers.
LEMMA SectionsAre ==
    ASSUME NEW o, Once(o), NEW w, Once(w), NEW u \in Unit
    PROVE  LET rows == <<Header>> \o o \o <<Header>> \o w
           IN  /\ rows \in Seq(Unit \cup {Header}) /\ Len(rows) = Len(o) + Len(w) + 2
               /\ Hits(rows, u) = Shifted(Hits(o, u), 1) \cup Shifted(Hits(w, u), Len(o) + 2)
  <1> USE DEF Once
  <1> DEFINE m == Len(o)
             n == Len(w)
             first == <<Header>> \o o
             upper == first \o <<Header>>
             rows == upper \o w
  <1>1. m \in Nat /\ n \in Nat /\ o \in Seq(Unit \cup {Header}) /\ w \in Seq(Unit \cup {Header})
    OBVIOUS
  <1>2. /\ first \in Seq(Unit \cup {Header}) /\ Len(first) = m + 1
        /\ first[1] = Header /\ \A i \in 1..m : first[i + 1] = o[i]
    BY <1>1
  <1> HIDE DEF first
  <1>3. /\ upper \in Seq(Unit \cup {Header}) /\ Len(upper) = m + 2
        /\ upper[m + 2] = Header /\ \A i \in 1..m + 1 : upper[i] = first[i]
    BY <1>1, <1>2
  <1> HIDE DEF upper
  <1>4. /\ rows \in Seq(Unit \cup {Header}) /\ Len(rows) = m + n + 2
        /\ \A i \in 1..m + 2 : rows[i] = upper[i]
        /\ \A j \in 1..n : rows[j + (m + 2)] = w[j]
    BY <1>1, <1>3
  <1>5. rows = <<Header>> \o o \o <<Header>> \o w
    BY DEF upper, first
  <1> HIDE DEF rows
  <1>6. DOMAIN rows = 1..m + n + 2 /\ DOMAIN o = 1..m /\ DOMAIN w = 1..n
    <2>1. DOMAIN rows = 1..Len(rows)
      BY <1>4
    <2>2. DOMAIN o = 1..m /\ DOMAIN w = 1..n
      OBVIOUS
    <2> HIDE DEF m, n
    <2> QED
      BY <1>4, <2>1, <2>2
  <1> HIDE DEF m, n
  <1>7. rows[1] = Header /\ rows[m + 2] = Header
    <2>1. 1 \in 1..m + 1 /\ 1 \in 1..m + 2 /\ m + 2 \in 1..m + 2
      BY <1>1
    <2>2. rows[1] = upper[1] /\ upper[1] = first[1]
      BY <1>3, <1>4, <2>1
    <2> QED
      BY <1>2, <1>3, <1>4, <2>1, <2>2
  <1>8. ASSUME NEW i \in 1..m PROVE rows[i + 1] = o[i] /\ i + 1 \in 1..m + n + 2
    <2>1. i + 1 \in 1..m + 2 /\ i + 1 \in 1..m + 1
      BY <1>1
    <2> QED
      BY <1>1, <1>2, <1>3, <1>4, <2>1
  <1>9. ASSUME NEW j \in 1..n PROVE rows[j + (m + 2)] = w[j] /\ j + (m + 2) \in 1..m + n + 2
    BY <1>1, <1>4
  <1>10. ASSUME NEW k \in 1..m + n + 2
         PROVE  \/ k = 1 \/ k = m + 2
                \/ \E i \in 1..m : k = i + 1
                \/ \E j \in 1..n : k = j + (m + 2)
    <2>1. CASE k > 1 /\ k < m + 2
      <3>1. k - 1 \in 1..m /\ k = (k - 1) + 1
        BY <1>1, <2>1
      <3> QED
        BY <3>1
    <2>2. CASE k > m + 2
      <3>1. k - (m + 2) \in 1..n /\ k = (k - (m + 2)) + (m + 2)
        BY <1>1, <2>2
      <3> QED
        BY <3>1
    <2> QED
      BY <1>1, <2>1, <2>2
  <1> DEFINE hits == Shifted(Hits(o, u), 1) \cup Shifted(Hits(w, u), m + 2)
  <1>11. Hits(rows, u) \subseteq hits
    <2> SUFFICES ASSUME NEW k \in 1..m + n + 2, rows[k] = u
                 PROVE  k \in hits
      BY <1>6 DEF Hits
    <2>1. k # 1 /\ k # m + 2
      BY <1>7, NoneAssumption
    <2>2. ASSUME NEW i \in 1..m, k = i + 1 PROVE k \in hits
      <3>1. i \in Hits(o, u)
        BY <1>6, <1>8, <2>2 DEF Hits
      <3> QED
        BY <2>2, <3>1 DEF Shifted
    <2>3. ASSUME NEW j \in 1..n, k = j + (m + 2) PROVE k \in hits
      <3>1. j \in Hits(w, u)
        BY <1>6, <1>9, <2>3 DEF Hits
      <3> QED
        BY <2>3, <3>1 DEF Shifted
    <2> QED
      BY <1>10, <2>1, <2>2, <2>3
  <1>12. hits \subseteq Hits(rows, u)
    <2>1. ASSUME NEW i \in Hits(o, u) PROVE i + 1 \in Hits(rows, u)
      BY <1>6, <1>8 DEF Hits
    <2>2. ASSUME NEW j \in Hits(w, u) PROVE j + (m + 2) \in Hits(rows, u)
      BY <1>6, <1>9 DEF Hits
    <2> QED
      BY <2>1, <2>2 DEF Shifted
  <1> QED
    BY <1>4, <1>5, <1>11, <1>12 DEF m, n

LEMMA SectionedIs ==
    ASSUME NEW o, Once(o), NEW w, Once(w), NEW u \in Unit
    PROVE  LET rows == SectionedRows(o, w)
           IN  /\ rows \in Seq(Unit \cup {Header}) /\ Len(rows) > 0
               /\ Cardinality(Hits(rows, u)) = (IF u \in ToSet(o) THEN 1 ELSE 0)
                                               + (IF u \in ToSet(w) THEN 1 ELSE 0)
               /\ Hits(rows, u) # {} <=> u \in ToSet(o) \/ u \in ToSet(w)
  <1> DEFINE rows == SectionedRows(o, w)
             m == Len(o)
             n == Len(w)
  <1>1. \A i : Cardinality({i}) = 1 /\ {i} # {}
    BY FS_Singleton
  <1>2. Cardinality({}) = 0
    BY FS_EmptySet
  <1>3. m \in Nat /\ n \in Nat
    BY DEF Once
  <1> DEFINE Right ==
                 \E k : /\ \/ k = 2 /\ u \in ToSet(o) /\ u \in ToSet(w)
                           \/ k = 1 /\ u \in ToSet(o) /\ u \notin ToSet(w)
                           \/ k = 1 /\ u \notin ToSet(o) /\ u \in ToSet(w)
                           \/ k = 0 /\ u \notin ToSet(o) /\ u \notin ToSet(w)
                        /\ Cardinality(Hits(rows, u)) = k
                        /\ Hits(rows, u) # {} <=> k # 0
  <1>4. ASSUME w # <<>>
        PROVE  rows \in Seq(Unit \cup {Header}) /\ Len(rows) > 0 /\ Right
    <2>1. rows = <<Header>> \o o \o <<Header>> \o w
      BY <1>4 DEF SectionedRows
    <2>2. /\ rows \in Seq(Unit \cup {Header}) /\ Len(rows) = m + n + 2
          /\ Hits(rows, u) = Shifted(Hits(o, u), 1) \cup Shifted(Hits(w, u), m + 2)
      BY <2>1, SectionsAre
    <2>3. Len(rows) > 0
      BY <1>3, <2>2
    <2> HIDE DEF rows, m, n
    <2>4. ASSUME u \in ToSet(o) /\ u \in ToSet(w) PROVE Right
      <3>1. PICK p \in 1..m : Hits(o, u) = {p}
        BY <2>4, HitsOnce DEF m
      <3>2. PICK q \in 1..n : Hits(w, u) = {q}
        BY <2>4, HitsOnce DEF n
      <3>3. PICK i, j : i = p + 1 /\ j = q + (m + 2)
        OBVIOUS
      <3>4. Hits(rows, u) = {i, j} /\ i # j
        BY <1>3, <2>2, <3>1, <3>2, <3>3 DEF Shifted
      <3>5. Cardinality({i, j}) = 2
        BY <3>4, TwoAre
      <3>6. Cardinality(Hits(rows, u)) = 2 /\ Hits(rows, u) # {}
        BY <3>4, <3>5
      <3> QED
        BY <2>4, <3>6
    <2>5. ASSUME u \in ToSet(o) /\ u \notin ToSet(w) PROVE Right
      <3>1. PICK p \in 1..m : Hits(o, u) = {p}
        BY <2>5, HitsOnce DEF m
      <3>2. Hits(w, u) = {}
        BY <2>5, HitsOnce
      <3>3. PICK i : i = p + 1
        OBVIOUS
      <3>4. Hits(rows, u) = {i}
        BY <2>2, <3>1, <3>2, <3>3 DEF Shifted
      <3>5. Cardinality(Hits(rows, u)) = 1 /\ Hits(rows, u) # {}
        BY <1>1, <3>4
      <3> QED
        BY <2>5, <3>5
    <2>6. ASSUME u \notin ToSet(o) /\ u \in ToSet(w) PROVE Right
      <3>1. PICK q \in 1..n : Hits(w, u) = {q}
        BY <2>6, HitsOnce DEF n
      <3>2. Hits(o, u) = {}
        BY <2>6, HitsOnce
      <3>3. PICK i : i = q + (m + 2)
        OBVIOUS
      <3>4. Hits(rows, u) = {i}
        BY <2>2, <3>1, <3>2, <3>3 DEF Shifted
      <3>5. Cardinality(Hits(rows, u)) = 1 /\ Hits(rows, u) # {}
        BY <1>1, <3>4
      <3> QED
        BY <2>6, <3>5
    <2>7. ASSUME u \notin ToSet(o) /\ u \notin ToSet(w) PROVE Right
      <3>1. Hits(o, u) = {} /\ Hits(w, u) = {}
        BY <2>7, HitsOnce
      <3>2. Hits(rows, u) = {}
        BY <2>2, <3>1 DEF Shifted
      <3>3. Cardinality(Hits(rows, u)) = 0
        BY <1>2, <3>2
      <3> QED
        BY <2>7, <3>2, <3>3
    <2>8. Right
      BY <2>4, <2>5, <2>6, <2>7
    <2> QED
      BY <2>2, <2>3, <2>8
  <1>5. ASSUME w = <<>>
        PROVE  rows \in Seq(Unit \cup {Header}) /\ Len(rows) > 0 /\ Right
    <2>1. u \notin ToSet(w)
      BY <1>5, Nothing
    <2>2. CASE o # <<>>
      <3>1. rows = o
        BY <1>5, <2>2 DEF SectionedRows
      <3>2. o \in Seq(Unit \cup {Header}) /\ Len(o) > 0
        BY <2>2 DEF Once
      <3>3. ASSUME u \in ToSet(o) PROVE Right
        <4>1. PICK p \in 1..m : Hits(o, u) = {p}
          BY <3>3, HitsOnce
        <4>2. Cardinality(Hits(rows, u)) = 1 /\ Hits(rows, u) # {}
          BY <1>1, <3>1, <4>1
        <4> QED
          BY <2>1, <3>3, <4>2
      <3>4. ASSUME u \notin ToSet(o) PROVE Right
        <4>1. Hits(o, u) = {}
          BY <3>4, HitsOnce
        <4>2. Cardinality(Hits(rows, u)) = 0 /\ Hits(rows, u) = {}
          BY <1>2, <3>1, <4>1
        <4> QED
          BY <2>1, <3>4, <4>2
      <3> HIDE DEF Right
      <3> QED
        BY <3>1, <3>2, <3>3, <3>4
    <2>3. CASE o = <<>>
      <3>1. rows = <<Header>> /\ u \notin ToSet(o)
        BY <1>5, <2>3, Nothing DEF SectionedRows
      <3>2. Hits(rows, u) = {}
        BY <3>1, NoneAssumption DEF Hits
      <3>3. rows \in Seq(Unit \cup {Header}) /\ Len(rows) > 0
        BY <3>1
      <3> HIDE DEF rows
      <3>4. Cardinality(Hits(rows, u)) = 0
        BY <1>2, <3>2
      <3>5. Right
        BY <2>1, <3>1, <3>2, <3>4
      <3> QED
        BY <3>3, <3>5
    <2> QED
      BY <2>2, <2>3
  <1>6. rows \in Seq(Unit \cup {Header}) /\ Len(rows) > 0 /\ Right
    BY <1>4, <1>5
  <1> HIDE DEF rows
  <1>7. PICK k : /\ \/ k = 2 /\ u \in ToSet(o) /\ u \in ToSet(w)
                    \/ k = 1 /\ u \in ToSet(o) /\ u \notin ToSet(w)
                    \/ k = 1 /\ u \notin ToSet(o) /\ u \in ToSet(w)
                    \/ k = 0 /\ u \notin ToSet(o) /\ u \notin ToSet(w)
                 /\ Cardinality(Hits(rows, u)) = k
                 /\ Hits(rows, u) # {} <=> k # 0
    BY <1>6
  <1>8. /\ Cardinality(Hits(rows, u)) = (IF u \in ToSet(o) THEN 1 ELSE 0)
                                        + (IF u \in ToSet(w) THEN 1 ELSE 0)
        /\ Hits(rows, u) # {} <=> u \in ToSet(o) \/ u \in ToSet(w)
    BY <1>7
  <1> QED
    BY <1>6, <1>8 DEF rows

\* What is listed for a snapshot and a filter.
LEMMA RowsAre ==
    ASSUME NEW v \in View, NEW f \in SUBSET Unit
    PROVE  /\ Rows(v, f) \in Seq(Unit \cup {Header}) /\ Len(Rows(v, f)) > 0
           /\ \A u \in Unit :
                 /\ Cardinality(Hits(Rows(v, f), u)) = (IF u \in v.owned \cap f THEN 1 ELSE 0)
                                                       + (IF u \in v.watching \cap f THEN 1 ELSE 0)
                 /\ Hits(Rows(v, f), u) # {} <=> u \in (v.owned \cup v.watching) \cap f
  <1> DEFINE o == HierarchyRows(v.owned \cap f, v.parent)
             w == Sorted(TitleOrder, v.watching \cap f)
  <1>1. v.owned \cap f \in SUBSET Unit /\ v.watching \cap f \in SUBSET Unit
    BY ViewAssumption
  <1>2. Once(o) /\ ToSet(o) = v.owned \cap f
    BY <1>1, HierarchyIs
  <1>3. Once(w) /\ ToSet(w) = v.watching \cap f
    BY <1>1, SortedIs, OrderAssumption
  <1>4. Rows(v, f) = SectionedRows(o, w)
    BY DEF Rows
  <1> HIDE DEF o, w
  <1>5. ASSUME NEW u \in Unit
        PROVE  /\ Cardinality(Hits(Rows(v, f), u)) = (IF u \in v.owned \cap f THEN 1 ELSE 0)
                                                     + (IF u \in v.watching \cap f THEN 1 ELSE 0)
               /\ Hits(Rows(v, f), u) # {} <=> u \in (v.owned \cup v.watching) \cap f
    BY <1>2, <1>3, <1>4, SectionedIs
  <1>6. Rows(v, f) \in Seq(Unit \cup {Header}) /\ Len(Rows(v, f)) > 0
    <2>1. CASE Unit # {}
      BY <1>2, <1>3, <1>4, <2>1, SectionedIs
    <2>2. CASE Unit = {}
      <3>1. o = <<>> /\ w = <<>>
        BY <1>2, <1>3, <2>2 DEF Once
      <3>2. Rows(v, f) = <<Header>>
        BY <1>4, <3>1 DEF SectionedRows
      <3> QED
        BY <3>2
    <2> QED
      BY <2>1, <2>2
  <1> QED
    BY <1>5, <1>6

-----------------------------------------------------------------------------
(* The list that is shown and the row that is selected *)

HasUnit(rows) == \E i \in DOMAIN rows : rows[i] \in Unit

\* What is shown is the list of the snapshot and the filter, and one of its
\* operations is selected if it has any.
AppOK(a) ==
    /\ a \in AppType
    /\ a.rows = Rows(a.view, a.filter)
    /\ HasUnit(a.rows) => a.sel \in DOMAIN a.rows /\ a.rows[a.sel] \in Unit

\* What CHOOSE takes from a set of positions.
Chosen(S) == CHOOSE i \in S : \A j \in S : i <= j

LEMMA ChosenIs ==
    ASSUME NEW S \in SUBSET Nat, S # {}
    PROVE  Chosen(S) \in S
  <1>1. \E i \in S : \A j \in S : i <= j
    BY Least
  <1> QED
    BY <1>1 DEF Chosen

LEMMA RebuiltOK ==
    ASSUME NEW a \in AppType, NEW v \in View, NEW f \in SUBSET Unit
    PROVE  AppOK(RebuildRows(a, v, f))
  <1> DEFINE rows == Rows(v, f)
             keep == SelectedIn(a)
             same == {i \in DOMAIN rows : keep # None /\ rows[i] = keep}
             ops == {i \in DOMAIN rows : rows[i] \in Unit}
             kept == IF same = {} THEN 0 ELSE Chosen(same)
             first == IF ops = {} THEN 0 ELSE Chosen(ops)
             n == IF kept # 0 THEN kept ELSE first
             b == [a EXCEPT !.view = v, !.filter = f, !.rows = rows, !.sel = n]
  <1>1. RebuildRows(a, v, f) = b
    BY DEF RebuildRows, FirstRow, Chosen
  <1>2. rows \in Seq(Unit \cup {Header})
    BY RowsAre
  <1> HIDE DEF rows
  <1>3. same \in SUBSET Nat /\ ops \in SUBSET Nat /\ 0 \notin ops /\ same \subseteq ops
    BY <1>2, AUnitOrNone
  <1>4. /\ same # {} => Chosen(same) \in same
        /\ ops # {} => Chosen(ops) \in ops
    <2> HIDE DEF same, ops
    <2> QED
      BY <1>3, ChosenIs
  <1>5. n \in Nat /\ (ops # {} => n \in ops)
    <2> HIDE DEF same, ops
    <2> QED
      BY <1>3, <1>4
  <1>6. HasUnit(rows) => n \in DOMAIN rows /\ rows[n] \in Unit
    <2> HIDE DEF n
    <2> QED
      BY <1>5 DEF HasUnit
  <1> HIDE DEF n
  <1>7. b \in AppType /\ b.rows = rows /\ b.view = v /\ b.filter = f /\ b.sel = n
    BY <1>2, <1>5 DEF AppType
  <1> HIDE DEF b
  <1>8. b.rows = Rows(b.view, b.filter)
    BY <1>7 DEF rows
  <1> QED
    BY <1>1, <1>6, <1>7, <1>8 DEF AppOK

\* Anything but the snapshot, the filter, the list and the selection.
SameList(a, b) ==
    b \in AppType /\ b.view = a.view /\ b.filter = a.filter /\ b.rows = a.rows /\ b.sel = a.sel

LEMMA SameListOK ==
    ASSUME NEW a, NEW b, AppOK(a), SameList(a, b)
    PROVE  AppOK(b)
  BY DEF AppOK, SameList

LEMMA MarkedSame ==
    ASSUME NEW a \in AppType
    PROVE  SameList(a, MarkLogsNeeded(a))
  BY DEF MarkLogsNeeded, AppType, SameList

LEMMA ToggledSame ==
    ASSUME NEW a \in AppType
    PROVE  /\ \A p \in Pane : SameList(a, ToggleDetail(a, p))
           /\ SameList(a, ToggleDiagnostics(a))
  <1>1. \A p \in Pane : SameList(a, ToggleDetail(a, p))
    BY DEF ToggleDetail, AppType, SameList
  <1>2. CASE a.diagnostics_open
    BY <1>1, <1>2 DEF ToggleDiagnostics, AppType, SameList
  <1>3. CASE ~a.diagnostics_open
    <2> DEFINE b == [a EXCEPT !.diagnostics_open = TRUE]
    <2>1. SameList(a, b)
      BY DEF AppType, SameList
    <2>2. ToggleDiagnostics(a) = MarkLogsNeeded(b)
      BY <1>3 DEF ToggleDiagnostics
    <2> HIDE DEF b
    <2> QED
      BY <1>1, <2>1, <2>2, MarkedSame DEF SameList
  <1> QED
    BY <1>1, <1>2, <1>3

LEMMA MovedOK ==
    ASSUME NEW a, AppOK(a), NEW dir \in {1, -1}
    PROVE  AppOK(MoveSel(a, dir))
  <1> DEFINE rows == a.rows
             cur == IF a.sel = 0 THEN 1 ELSE a.sel
             At(k) == ((cur - 1 + dir * k) % Len(rows)) + 1
             hops == {k \in 1..Len(rows) : rows[At(k)] \in Unit}
             c == Chosen(hops)
             b == [a EXCEPT !.sel = At(c)]
  <1>1. MoveSel(a, dir) = IF hops = {} THEN a ELSE MarkLogsNeeded(b)
    BY DEF MoveSel, Chosen
  <1>2. CASE hops = {}
    BY <1>1, <1>2
  <1>3. CASE hops # {}
    <2>1. a \in AppType /\ rows \in Seq(Unit \cup {Header})
      BY DEF AppOK, AppType
    <2>2. Len(rows) \in Nat /\ DOMAIN rows = 1..Len(rows)
      BY <2>1
    <2>3. hops \in SUBSET Nat
      BY <2>2
    <2>4. c \in hops
      <3> HIDE DEF hops
      <3> QED
        BY <1>3, <2>3, ChosenIs
    <2>5. c \in 1..Len(rows) /\ rows[At(c)] \in Unit
      BY <2>4
    <2>6. cur - 1 + dir * c \in Int
      <3>1. cur \in Nat
        BY <2>1 DEF AppType
      <3>2. dir * c \in Int
        BY <2>2, <2>5
      <3> HIDE DEF cur, c
      <3> QED
        BY <3>1, <3>2
    <2>7. At(c) \in 1..Len(rows)
      <3> DEFINE x == cur - 1 + dir * c
                 n == Len(rows)
      <3>1. x \in Int /\ n \in Nat /\ n > 0
        BY <2>2, <2>5, <2>6
      <3> HIDE DEF x, n
      <3>2. (x % n) + 1 \in 1..n
        BY <3>1
      <3> QED
        BY <3>2 DEF x, n
    <2> DEFINE s == At(c)
    <2>8. s \in 1..Len(rows) /\ rows[s] \in Unit /\ b = [a EXCEPT !.sel = s]
      BY <2>5, <2>7
    <2> HIDE DEF s, b, c, At, hops
    <2>9. /\ b \in AppType /\ b.rows = a.rows /\ b.view = a.view /\ b.filter = a.filter
          /\ b.sel = s
      BY <2>1, <2>2, <2>8 DEF AppType
    <2>10. AppOK(b)
      BY <2>2, <2>8, <2>9 DEF AppOK
    <2> QED
      BY <1>1, <1>3, <2>9, <2>10, MarkedSame, SameListOK
  <1> QED
    BY <1>2, <1>3

LEMMA MaybeOK ==
    ASSUME NEW a, AppOK(a), MaybeRequestLogs(a)
    PROVE  AppOK(app')
  <1>1. PICK l \in {None, a.logs} : app' = [a EXCEPT !.want_logs = FALSE, !.logs = l]
    BY DEF MaybeRequestLogs
  <1> DEFINE b == [a EXCEPT !.want_logs = FALSE, !.logs = l]
  <1>2. SameList(a, b)
    BY <1>1 DEF AppOK, AppType, SameList
  <1> HIDE DEF b
  <1> QED
    BY <1>1, <1>2, SameListOK DEF b

-----------------------------------------------------------------------------
(* What each step does to the list and the channel back *)

TInv ==
    /\ IInv /\ AppOK(app) /\ events \in Seq(EventType) /\ phase \in {"drain", "poll", "quit"}

TypedNext == AppOK(app') /\ events' \in Seq(EventType) /\ phase' \in {"drain", "poll", "quit"}

LEMMA HandledOK ==
    ASSUME TInv, NEW a, AppOK(a), Handled(a)
    PROVE  TypedNext
  BY MaybeOK DEF Handled, TInv, TypedNext

LEMMA InputOK ==
    ASSUME TInv, Input
    PROVE  TypedNext
  <1> USE DEF TInv
  <1>1. CASE Ignored \/ Quit
    BY <1>1 DEF Ignored, Quit, TypedNext
  <1>2. app \in AppType /\ app.view \in View /\ app.filter \in SUBSET Unit
    BY DEF AppOK, AppType
  <1>3. CASE \E f \in Filter : FilterText(f)
    <2>1. PICK f \in Filter : Handled(RebuildRows(app, app.view, f))
      BY <1>3 DEF FilterText
    <2>2. AppOK(RebuildRows(app, app.view, f))
      BY <1>2, RebuiltOK, ViewAssumption
    <2> QED
      BY <2>1, <2>2, HandledOK
  <1>4. CASE FilterEnter \/ FilterEsc
    <2>1. PICK f \in SUBSET Unit :
              Handled(MarkLogsNeeded([RebuildRows(app, app.view, f) EXCEPT !.filtering = FALSE]))
      BY <1>2, <1>4 DEF FilterEnter, FilterEsc
    <2> DEFINE b == RebuildRows(app, app.view, f)
               c == [b EXCEPT !.filtering = FALSE]
    <2>2. AppOK(b)
      BY <1>2, RebuiltOK
    <2> HIDE DEF b
    <2>3. SameList(b, c)
      BY <2>2 DEF AppOK, AppType, SameList
    <2> HIDE DEF c
    <2>4. AppOK(MarkLogsNeeded(c))
      BY <2>2, <2>3, SameListOK, MarkedSame DEF SameList
    <2> QED
      BY <2>1, <2>4, HandledOK DEF b, c
  <1>5. CASE StartFilter
    <2> DEFINE a == [app EXCEPT !.filtering = TRUE]
    <2>1. SameList(app, a)
      BY <1>2 DEF AppType, SameList
    <2>2. Handled(a)
      BY <1>5 DEF StartFilter
    <2> HIDE DEF a
    <2> QED
      BY <2>1, <2>2, SameListOK, HandledOK
  <1>6. CASE \E dir \in {1, -1} : Move(dir) \/ WheelOverList(dir)
    <2>1. PICK dir \in {1, -1} : Handled(MoveSel(app, dir))
      BY <1>6 DEF Move, WheelOverList
    <2> QED
      BY <2>1, MovedOK, HandledOK
  <1>7. ASSUME NEW p \in Pane, Handled(ToggleDetail(app, p))
        PROVE  TypedNext
    BY <1>2, <1>7, ToggledSame, SameListOK, HandledOK
  <1>8. ASSUME Handled(ToggleDiagnostics(app))
        PROVE  TypedNext
    BY <1>2, <1>8, ToggledSame, SameListOK, HandledOK
  <1>9. CASE KeyEsc
    <2>1. CASE Handled([app EXCEPT !.detail_view = "cockpit"])
      <3> DEFINE b == [app EXCEPT !.detail_view = "cockpit"]
      <3>1. SameList(app, b)
        BY <1>2 DEF AppType, SameList
      <3>2. Handled(b)
        BY <2>1
      <3> HIDE DEF b
      <3> QED
        BY <3>1, <3>2, SameListOK, HandledOK
    <2> QED
      BY <1>8, <1>9, <2>1 DEF KeyEsc
  <1>10. CASE KeyRefresh
    BY <1>10 DEF KeyRefresh, TypedNext
  <1> QED
    BY <1>1, <1>3, <1>4, <1>5, <1>6, <1>7, <1>8, <1>9, <1>10
    DEF Input, KeyWiringOrTopology, KeyDiagnostics

LEMMA AnswerOK ==
    ASSUME TInv, ApplyRefreshDone \/ ApplyLogsDone
    PROVE  TypedNext
  <1> USE DEF TInv
  <1> DEFINE e == Head(events)
  <1>1. e \in EventType /\ Tail(events) \in Seq(EventType)
    BY DEF ApplyRefreshDone, ApplyLogsDone
  <1>2. events' \in Seq(EventType) /\ phase' \in {"drain", "poll", "quit"}
    BY <1>1 DEF ApplyRefreshDone, ApplyLogsDone
  <1>3. app \in AppType /\ app.filter \in SUBSET Unit
    BY DEF AppOK, AppType
  <1> HIDE DEF e
  <1>4. CASE app' = app
    BY <1>2, <1>4 DEF TypedNext
  <1>5. CASE ApplyLogsDone /\ app' # app
    <2>1. app' = [app EXCEPT !.logs = e.unit] /\ e.kind = "logs"
      BY <1>5 DEF ApplyLogsDone, e
    <2>2. e.unit \in Unit
      BY <1>1, <2>1 DEF EventType
    <2> DEFINE b == [app EXCEPT !.logs = e.unit]
    <2>3. SameList(app, b)
      BY <1>3, <2>2 DEF AppType, SameList
    <2> HIDE DEF b
    <2> QED
      BY <1>2, <2>1, <2>3, SameListOK DEF TypedNext, b
  <1>6. CASE ApplyRefreshDone /\ app' # app
    <2>1. e.kind = "refresh"
      BY <1>6 DEF ApplyRefreshDone, e
    <2>2. CASE e.result = None
      <3> DEFINE b == [app EXCEPT !.last_error = "refresh", !.due = FALSE]
      <3>1. app' = b
        BY <1>6, <2>2 DEF ApplyRefreshDone, e
      <3>2. SameList(app, b)
        BY <1>3 DEF AppType, SameList
      <3> HIDE DEF b
      <3> QED
        BY <1>2, <3>1, <3>2, SameListOK DEF TypedNext
    <2>3. CASE e.result # None
      <3> DEFINE b == RebuildRows(app, e.result, app.filter)
                 c == [b EXCEPT !.last_error = "none", !.due = FALSE]
      <3>1. app' = MarkLogsNeeded(c)
        BY <1>6, <2>3 DEF ApplyRefreshDone, ReplaceView, e
      <3>2. e.result \in View
        BY <1>1, <2>1, <2>3 DEF EventType
      <3>3. AppOK(b)
        BY <1>3, <3>2, RebuiltOK
      <3> HIDE DEF b
      <3>4. SameList(b, c)
        BY <3>3 DEF AppOK, AppType, SameList
      <3> HIDE DEF c
      <3>5. AppOK(MarkLogsNeeded(c))
        BY <3>3, <3>4, SameListOK, MarkedSame DEF SameList
      <3> QED
        BY <1>2, <3>1, <3>5 DEF TypedNext
    <2> QED
      BY <2>2, <2>3
  <1> QED
    BY <1>4, <1>5, <1>6

LEMMA LoopOK ==
    ASSUME TInv, EndDrain \/ Idle \/ RefreshDue
    PROVE  TypedNext
  <1> USE DEF TInv
  <1>0. app \in AppType
    BY DEF AppOK
  <1>1. CASE EndDrain
    <2> DEFINE a == IF worker = Dead THEN [app EXCEPT !.last_error = "exited"] ELSE app
    <2>1. SameList(app, a)
      BY <1>0 DEF AppType, SameList
    <2>2. MaybeRequestLogs(a) /\ UNCHANGED events /\ phase' = "poll"
      BY <1>1 DEF EndDrain
    <2> HIDE DEF a
    <2> QED
      BY <2>1, <2>2, SameListOK, MaybeOK DEF TypedNext
  <1>2. CASE Idle
    BY <1>2 DEF Idle, TypedNext
  <1>3. CASE RefreshDue
    <2> DEFINE b == [app EXCEPT !.due = TRUE]
    <2>1. app' = b /\ UNCHANGED <<events, phase>>
      BY <1>3 DEF RefreshDue
    <2>2. SameList(app, b)
      BY <1>0 DEF AppType, SameList
    <2> HIDE DEF b
    <2> QED
      BY <2>1, <2>2, SameListOK DEF TypedNext
  <1> QED
    BY <1>1, <1>2, <1>3

\* The job the worker runs is one.
LEMMA RunsAJob ==
    ASSUME IInv, NEW kind, WorkerRuns(kind)
    PROVE  worker \in Job
  <1>1. worker # Dead /\ worker # None
    BY DEF WorkerRuns
  <1> QED
    BY <1>1 DEF IInv, Flow, FlowOf, Carried

LEMMA WorkerOK ==
    ASSUME TInv, WorkerStep \/ LogsPanic
    PROVE  TypedNext
  <1> USE DEF TInv
  <1>1. UNCHANGED <<app, phase>>
    BY DEF WorkerStep, TakeJob, RefreshDone, LogsDone, LogsPanic
  <1>2. events' \in Seq(EventType)
    <2>1. CASE TakeJob \/ LogsPanic
      BY <2>1 DEF TakeJob, LogsPanic
    <2>2. CASE RefreshDone
      <3>1. worker \in Job /\ worker.kind = "refresh"
        BY <2>2, RunsAJob DEF RefreshDone, WorkerRuns
      <3>2. PICK r \in View \cup {None} :
                events' = Append(events, [kind |-> "refresh", gen |-> worker.gen, unit |-> None,
                                          result |-> r])
        BY <2>2 DEF RefreshDone
      <3>3. [kind |-> "refresh", gen |-> worker.gen, unit |-> None, result |-> r] \in EventType
        BY <3>1 DEF Job, EventType
      <3> QED
        BY <3>2, <3>3
    <2>3. CASE LogsDone
      <3> DEFINE e == [kind |-> "logs", gen |-> worker.gen, unit |-> worker.unit, result |-> None]
      <3>1. worker \in Job /\ worker.kind = "logs"
        BY <2>3, RunsAJob DEF LogsDone, WorkerRuns
      <3>2. e \in EventType
        BY <3>1 DEF Job, EventType
      <3>3. events' = Append(events, e)
        BY <2>3 DEF LogsDone
      <3> QED
        BY <3>2, <3>3
    <2> QED
      BY <2>1, <2>2, <2>3 DEF WorkerStep
  <1> QED
    BY <1>1, <1>2 DEF TypedNext

LEMMA StepTyped ==
    ASSUME TInv, [Next]_vars
    PROVE  TInv'
  <1>1. IInv'
    BY StepKeeps DEF TInv
  <1>2. TypedNext
    <2>1. CASE UNCHANGED vars
      BY <2>1 DEF vars, TInv, TypedNext
    <2>2. CASE Stopped
      BY <2>1, <2>2 DEF Stopped
    <2> QED
      BY <2>1, <2>2, InputOK, AnswerOK, LoopOK, WorkerOK DEF Next, UIStep
  <1> QED
    BY <1>1, <1>2 DEF TInv, TypedNext, AppOK

LEMMA InitTyped ==
    ASSUME Init
    PROVE  TInv
  <1>1. IInv
    BY InitHolds
  <1>2. events \in Seq(EventType) /\ phase \in {"drain", "poll", "quit"}
    BY DEF Init
  <1>3. Rows(LoadingView, Unit) \in Seq(Unit \cup {Header})
    BY RowsAre, LoadingAssumption
  <1>4. ~HasUnit(Rows(LoadingView, Unit))
    <2>1. \A u \in Unit : Hits(Rows(LoadingView, Unit), u) = {}
      BY RowsAre, LoadingAssumption
    <2> QED
      BY <2>1 DEF HasUnit, Hits
  <1>5. AppOK(app)
    BY <1>3, <1>4, LoadingAssumption DEF Init, AppOK, AppType
  <1> QED
    BY <1>1, <1>2, <1>5 DEF TInv

\* Every variable has its type, every operation of the snapshot that the filter lets
\* through has its one row in its section, whatever circles the declared parents make,
\* and one is selected whenever there is a row (hierarchy_rows, sectioned_rows,
\* rebuild_rows, move_sel, tui.rs:185-412).
THEOREM ConsoleTypes == Spec => []ConsoleTypeOK
  <1>1. TInv => ConsoleTypeOK
    <2> SUFFICES ASSUME TInv PROVE ConsoleTypeOK
      OBVIOUS
    <2>1. app \in AppType /\ app.view \in View /\ app.filter \in SUBSET Unit
          /\ app.rows = Rows(app.view, app.filter)
      BY DEF TInv, AppOK, AppType
    <2>2. gate \in GateType /\ sinceR \in BOOLEAN
      BY DEF TInv, IInv, GateSound
    <2>3. jobs \in Seq(Job) /\ worker \in Job \cup {None, Dead}
      <3>1. FlowOf(gate, jobs, worker, events)
        BY DEF TInv, IInv, Flow
      <3>2. jobs = <<>> \/ \E j \in Job : jobs = <<j>>
        BY <3>1 DEF FlowOf, Carried
      <3>3. worker \in {None, Dead} \/ worker \in Job
        BY <3>1 DEF FlowOf, Carried
      <3>4. jobs \in Seq(Job)
        <4>1. \A j \in Job : <<j>> \in Seq(Job)
          OBVIOUS
        <4>2. <<>> \in Seq(Job)
          OBVIOUS
        <4> QED
          BY <3>2, <4>1, <4>2
      <3> QED
        BY <3>3, <3>4
    <2>4. EveryUnitListedOnce
      BY <2>1, RowsAre DEF EveryUnitListedOnce
    <2>5. (Selected = None) <=> ((app.view.owned \cup app.view.watching) \cap app.filter = {})
      <3>1. \A u \in Unit : Hits(app.rows, u) # {}
                <=> u \in (app.view.owned \cup app.view.watching) \cap app.filter
        BY <2>1, RowsAre
      <3>2. HasUnit(app.rows) <=> (app.view.owned \cup app.view.watching) \cap app.filter # {}
        BY <2>1, <3>1 DEF HasUnit, Hits
      <3>3. HasUnit(app.rows) <=> Selected # None
        <4>1. Selected # None => HasUnit(app.rows)
          BY AUnitOrNone DEF Selected, SelectedIn, HasUnit
        <4>2. HasUnit(app.rows) => Selected # None
          BY NoneAssumption DEF TInv, AppOK, Selected, SelectedIn
        <4> QED
          BY <4>1, <4>2
      <3> QED
        BY <3>2, <3>3
    <2> QED
      BY <2>1, <2>2, <2>3, <2>4, <2>5 DEF ConsoleTypeOK, TInv
  <1> QED
    BY <1>1, InitTyped, StepTyped, PTL DEF Spec
=============================================================================
