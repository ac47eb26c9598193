----------------------------- MODULE ScopeView -----------------------------
(* `scope show` (src/src/scope.rs): find the manifest, list the units, join     *)
(* every owned operation with the files of its operation home, one file after   *)
(* the other, and derive its semantic state (src/src/automation.rs), the scope's *)
(* health and its attention list. Nothing stops the drivers meanwhile: each goes *)
(* on observing, passing, marking, checkpointing and blocking between two reads. *)
EXTENDS Integers, FiniteSets, SequencesExt

CONSTANTS
    Order,         \* the operations, in the order of their names
    None,
    Dir,           \* directories 1..n, each the parent of the one before it
    Manifest,      \* per directory: the manifest files in it and what they say
    Answer,        \* what systemd may answer: about the units of each operation
    World,         \* what an observer may find: an input and its generation
    OutputRequired,\* operations with output_revision_required
    Driven,        \* operations whose driver may run
    Released,      \* operations whose blocker an operator may clear
    Files,         \* the files each operation may start with
    Surface        \* per operation: its deployment and desired-input surfaces

Op == Range(Order)
Lifecycle == {"active", "completed"}
Own == {"neutral", "running", "blocked", "current", "stale"}
Semantic == (Own \ {"current"}) \cup {"ready", "waiting"}
Health == {"healthy", "unknown", "degraded", "failed"}
Type == {"simple", "oneshot", "other"}  \* of a service, as its unit file has it
Input == {w.input : w \in World}
Generation == {w.generation : w \in World}

Processed == [input : Input, outcome : {"ready", "blocked", "legacy"}]
Checkpoint == [input : Input, generation : Generation \cup {None}, output : BOOLEAN]
Blocker == [input : Input \cup {None}]  \* one without an input is bound to none

FilesOf ==
    [agent : BOOLEAN, parent : Op \cup {None}, readable : BOOLEAN, lifecycle : Lifecycle,
     observation : World \cup {None}, processed : Processed \cup {None},
     checkpoint : Checkpoint \cup {None}, blocker : Blocker \cup {None}, session : BOOLEAN]

ASSUME NoneAssumption ==
    None \notin Op \cup Input \cup World \cup Processed \cup Checkpoint \cup Blocker \cup Semantic \cup Type

ASSUME ScopeAssumption ==
    /\ Order \in Seq(Op) /\ IsInjective(Order)
    /\ Manifest \in [Dir -> [files : SUBSET {"preferred", "legacy"},
                             owned : SUBSET Op, critical : SUBSET Op, watch : SUBSET Op]]
    /\ Files \subseteq [Op -> FilesOf]
    /\ Driven \cup Released \cup OutputRequired \subseteq Op

VARIABLES
    files,   \* the files of every operation home
    driver,  \* where each driver is
    reader,  \* the scope show in progress
    got,     \* what it has joined so far
    shown,   \* the last ScopeView
    held     \* history: the facts that held of an operation while it was read

vars == <<files, driver, reader, got, shown, held>>

-----------------------------------------------------------------------------
(* The manifest *)

ManifestAt(d) == Manifest[d].files

\* parse_manifest: something is owned, the critical operations are, the watched
\* ones are not.
Valid(d) ==
    /\ Manifest[d].owned # {}
    /\ Manifest[d].critical \subseteq Manifest[d].owned
    /\ Manifest[d].watch \cap Manifest[d].owned = {}

Usable(d) == Cardinality(ManifestAt(d)) = 1 /\ Valid(d)

\* The nearest directory with a manifest, good or bad.
Discover(cwd) ==
    LET found == {d \in Dir : d >= cwd /\ ManifestAt(d) # {}}
    IN  IF found = {} THEN None ELSE CHOOSE d \in found : \A e \in found : d <= e

\* --scope-root, then SYSTEMD_OPS_SCOPE_ROOT, then the walk up; None is an error.
Resolve(explicit, env, cwd) ==
    LET d == CASE explicit # None -> explicit
               [] explicit = None /\ env # None -> env
               [] OTHER -> Discover(cwd)
    IN  IF d # None /\ Usable(d) THEN d ELSE None

-----------------------------------------------------------------------------
(* What systemd says: the unit files and timers that were listed, and what each *)
(* unit answered when it was shown, or None                                     *)

Shown(raw, unit) == IF unit \in DOMAIN raw.units THEN raw.units[unit] ELSE None

Timed(raw) == "timer" \in DOMAIN raw.units

\* The timer where there is one.
Primary(raw) == IF Timed(raw) THEN "timer" ELSE "service"

\* infer_kind: what the unit files say, and nothing when none of them can be read.
\* A oneshot that lingers is judged as any other.
Kind(raw) ==
    IF raw.type = None THEN "other" ELSE IF Timed(raw) THEN "oneshot" ELSE raw.type

\* The last trigger of the timer.
LastTrigger(raw) == Timed(raw) /\ raw.last

\* never_ran, honest_result: no word of a result before anything was executed.
HonestResult(raw) ==
    LET service == Shown(raw, "service")
    IN  IF service = None THEN None
        ELSE IF LastTrigger(raw) \/ service.started THEN service.result ELSE None

MissingView ==
    [missing |-> TRUE, kind |-> "other", timer |-> FALSE, enabled |-> FALSE, state |-> "inactive",
     sub |-> "other", result |-> None, last |-> FALSE, next |-> FALSE]

\* operation_view and unit_view; what is not shown is what the lists had.
OperationView(raw) ==
    LET shows == Shown(raw, Primary(raw))
        unit == IF shows = None THEN raw.listed ELSE shows
    IN  IF DOMAIN raw.units = {} THEN MissingView
        ELSE [missing |-> FALSE, kind |-> Kind(raw), timer |-> Timed(raw),
              enabled |-> unit.enabled, state |-> unit.state, sub |-> unit.sub,
              result |-> HonestResult(raw), last |-> LastTrigger(raw),
              next |-> Timed(raw) /\ raw.next]

\* operation_health, of what runs on,
SimpleHealth(r) ==
    IF "failed" \in {r.state, r.sub} THEN "failed"
    ELSE IF r.state = "active" /\ r.sub = "running" THEN "healthy"
    ELSE IF r.enabled THEN "failed" ELSE "unknown"

\* of what runs once, by itself or when its timer says so,
OneshotHealth(r) ==
    IF r.result = None /\ ~r.last THEN "unknown"
    ELSE IF r.result # "success" \/ r.state = "failed" THEN "failed"
    ELSE IF r.timer => r.enabled /\ r.next THEN "healthy" ELSE "unknown"

\* and of what it does not know.
OtherHealth(r) ==
    IF r.state = "failed" THEN "failed"
    ELSE IF r.state = "active" THEN "healthy" ELSE "unknown"

UnitHealth(r) ==
    IF r.missing THEN "unknown"
    ELSE IF r.kind = "simple" THEN SimpleHealth(r)
    ELSE IF r.kind = "oneshot" THEN OneshotHealth(r) ELSE OtherHealth(r)

\* is_wanted_inactive_timer
WantedInactive(r) ==
    ~r.missing /\ r.kind = "oneshot" /\ r.timer /\ r.enabled /\ ~r.next

-----------------------------------------------------------------------------
(* What an operation's files say of itself *)

\* Variant of ProcessedBlocks that lets a fingerprint of any input block.
ProcessedBlocksAny(f) == f.processed # None /\ f.processed.outcome = "blocked"

\* processed_is_current_blocked
ProcessedBlocks(f) ==
    /\ f.processed # None /\ f.observation # None
    /\ f.processed = [input |-> f.observation.input, outcome |-> "blocked"]

\* blocker_is_current
BlockerCurrent(f) ==
    \/ ProcessedBlocks(f)
    \/ /\ f.blocker # None
       /\ \/ f.blocker.input = None
          \/ f.observation # None /\ f.observation.input = f.blocker.input

\* checkpoint_is_current; `required` is output_revision_required.
CheckpointCurrent(f, required) ==
    /\ f.checkpoint # None /\ f.observation # None
    /\ f.checkpoint.input = f.observation.input
    /\ f.observation.generation # None => f.checkpoint.generation = f.observation.generation
    /\ required => f.checkpoint.output

\* The part of derive_semantic_states that looks at one operation only.
OwnState(f, required) ==
    IF ~f.agent \/ ~f.readable THEN "neutral"
    ELSE IF f.session THEN "running"
    ELSE IF BlockerCurrent(f) THEN "blocked"
    ELSE IF CheckpointCurrent(f, required) THEN "current" ELSE "stale"

\* What o's files say at once, each of the three for itself.
Facts(o, f) ==
    (IF f.session THEN {"running"} ELSE {})
    \cup (IF BlockerCurrent(f) THEN {"blocked"} ELSE {})
    \cup (IF CheckpointCurrent(f, o \in OutputRequired) THEN {"current"} ELSE {})

-----------------------------------------------------------------------------
(* The drivers, as MaintainerPass has them: observe, run an iteration, observe   *)
(* again, and either concede a blocker or mark and checkpoint.                   *)

Reading(o) == reader.step \notin {"idle", "list"} /\ reader.at = o

\* The files of o become f.
Write(o, f) ==
    /\ files' = [files EXCEPT ![o] = f]
    /\ held' = IF Reading(o) THEN [held EXCEPT ![o] = @ \cup Facts(o, f)] ELSE held
    /\ UNCHANGED <<reader, got, shown>>

\* A driver at `from` goes to `to` and leaves its operation's files as f.
Drive(o, from, to, f) ==
    /\ driver[o] = from
    /\ driver' = [driver EXCEPT ![o] = to]
    /\ Write(o, f)

\* The timer fires.
StartTick(o) == Drive(o, "idle", "tick", files[o])

\* recover_worktree, before the tick observes.
RecoverClearsBlocker(o) == Drive(o, "tick", "tick", [files[o] EXCEPT !.blocker = None])

Observe(o) ==
    \E w \in World : Drive(o, "tick", "observed", [files[o] EXCEPT !.observation = w])

\* Nothing due: settled, parked or not ready to run.
EndTick(o) == Drive(o, "observed", "idle", files[o])

\* clear-blocker or release-park, by an operator.
ClearBlocker(o) ==
    /\ files[o].blocker # None
    /\ Write(o, [files[o] EXCEPT !.blocker = None])
    /\ UNCHANGED driver

StartIteration(o) == Drive(o, "observed", "pass", [files[o] EXCEPT !.session = TRUE])

FinishIteration(o) == Drive(o, "pass", "finished", [files[o] EXCEPT !.session = FALSE])

ObserveAgain(o) ==
    \E w \in World : Drive(o, "finished", "judged", [files[o] EXCEPT !.observation = w])

\* write_blocker, bound to the observed input: a failed pass, or what the agent
\* reported.
RecordBlocker(o) ==
    \E from \in {"finished", "conceded"} :
        Drive(o, from, "idle",
              [files[o] EXCEPT !.blocker = [input |-> files[o].observation.input]])

MarkReady(o) ==
    Drive(o, "judged", "certify",
          [files[o] EXCEPT !.processed =
              [input |-> files[o].observation.input, outcome |-> "ready"]])

MarkBlocked(o) ==
    Drive(o, "judged", "conceded",
          [files[o] EXCEPT !.processed =
              [input |-> files[o].observation.input, outcome |-> "blocked"]])

WriteCheckpoint(o) ==
    Drive(o, "certify", "unblock",
          [files[o] EXCEPT !.checkpoint =
              [input |-> files[o].observation.input,
               generation |-> files[o].observation.generation, output |-> TRUE]])

CheckpointDropsBlocker(o) ==
    Drive(o, "unblock", "idle", [files[o] EXCEPT !.blocker = None])

\* Variant of Complete that writes a status no reader knows.
CompleteMisspelt(o) == Drive(o, "idle", "completed", [files[o] EXCEPT !.lifecycle = "complete"])

\* complete, between passes.
Complete(o) == Drive(o, "idle", "completed", [files[o] EXCEPT !.lifecycle = "completed"])

-----------------------------------------------------------------------------
(* Deriving the view *)

NoReader == [step |-> "idle", dir |-> None, at |-> None, answers |-> <<>>,
             partial |-> None]

\* An operation's children, and those of them that are not completed.
ChildrenOf(join, u) == {o \in DOMAIN join : join[o].parent = u}
ActiveChildren(join, u) == {o \in ChildrenOf(join, u) : ~join[o].completed}

Memo(join) == [DOMAIN join -> Semantic \cup {None}]

\* One more operation in order: it is asked if it is an active child of u and the
\* ones before it are ready. `visit` has the answers.
AskNext(join, visit, path, u, k, acc) ==
    IF acc.waits \/ Order[k] \notin ActiveChildren(join, u) THEN acc
    ELSE LET r == visit[<<path, Order[k], acc.memo>>]
         IN  [waits |-> r.state # "ready", memo |-> r.memo]

\* Does u wait for a child, and what is remembered after they were asked?
Asked(join, visit, path, u, memo) ==
    LET after[k \in 0..Len(Order)] ==
            IF k = 0 THEN [waits |-> FALSE, memo |-> memo]
            ELSE AskNext(join, visit, path, u, k, after[k - 1])
    IN  after[Len(Order)]

\* derive, of a call <<path, u, memo>>: u's state and what is remembered after it.
\* An operation met again on the way down is taken for `again`.
Visited(join, again, visit, path, u, memo) ==
    LET asks == join[u].own \in {"current", "stale"}
        kids == IF asks THEN Asked(join, visit, path \cup {u}, u, memo)
                ELSE [waits |-> FALSE, memo |-> memo]
        state == IF ~asks THEN join[u].own
                 ELSE IF kids.waits THEN "waiting"
                 ELSE IF join[u].own = "current" THEN "ready" ELSE "stale"
    IN  IF memo[u] # None THEN [state |-> memo[u], memo |-> memo]
        ELSE IF u \in path THEN [state |-> again, memo |-> memo]
        ELSE [state |-> state, memo |-> [kids.memo EXCEPT ![u] = state]]

Calls(join) == (SUBSET (DOMAIN join)) \X (DOMAIN join) \X Memo(join)

\* Depth first, while n operations are not on the path.
Visits(join, again) ==
    LET visit[n \in 0..Cardinality(DOMAIN join)] ==
            [call \in Calls(join) |->
                IF n = 0 THEN [state |-> again, memo |-> call[3]]
                ELSE Visited(join, again, visit[n - 1], call[1], call[2], call[3])]
    IN  visit[Cardinality(DOMAIN join)]

\* One more operation to start from, if it is in the view.
DeriveNext(join, visits, k, memo) ==
    IF Order[k] \notin DOMAIN join THEN memo ELSE visits[<<{}, Order[k], memo>>].memo

\* From every operation in turn, each result remembered.
DerivedWith(join, again) ==
    LET visits == Visits(join, again)
        after[k \in 0..Len(Order)] ==
            IF k = 0 THEN [u \in DOMAIN join |-> None]
            ELSE DeriveNext(join, visits, k, after[k - 1])
    IN  after[Len(Order)]

\* Variant of Derived that trusts an operation that waits for itself.
DerivedTrusting(join) == DerivedWith(join, "ready")

\* derive_semantic_states
Derived(join) == DerivedWith(join, "stale")

\* operator_deployment_phase; the row's state is the timer's where there is one.
Phase(s, r) ==
    IF s.candidate = None THEN (IF r.state = "active" THEN "composing" ELSE None)
    ELSE IF s.candidate = "composed" THEN "composing" ELSE s.candidate

\* inspect_attention_labels
Labels(s, r) ==
    (IF s.stall THEN {"deploy_stalled"} ELSE {})
    \cup (IF Phase(s, r) = "candidate" /\ s.pending THEN {"canary_pending"} ELSE {})
    \cup (IF s.unconsumed THEN {"admission_unconsumed"} ELSE {})

Rank == [healthy |-> 0, unknown |-> 1, degraded |-> 2, failed |-> 3]

\* ScopeHealth::raise over everything that raises it.
Raised(raises) ==
    CHOOSE h \in raises \cup {"healthy"} : \A g \in raises : Rank[g] <= Rank[h]

Row(o) == OperationView(reader.answers[o])

HealthOf(o) == IF got[o].completed THEN "healthy" ELSE UnitHealth(Row(o))

\* Variant of OwnedRaises that leaves unknown operations out.
OwnedRaisesFailures(m, o) ==
    IF HealthOf(o) = "failed"
    THEN {IF o \in m.critical THEN "failed" ELSE "degraded"} ELSE {}

OwnedRaises(m, o) ==
    IF HealthOf(o) = "failed" THEN {IF o \in m.critical THEN "failed" ELSE "degraded"}
    ELSE IF HealthOf(o) = "unknown" /\ o \in m.critical THEN {"unknown"} ELSE {}

OwnedCodes(m, o) ==
    LET wanted == ~got[o].completed /\ WantedInactive(Row(o))
    IN  got[o].labels \cup
        IF HealthOf(o) = "failed" THEN {"operation_failed"}
        ELSE IF HealthOf(o) = "unknown" /\ wanted THEN {"wanted_inactive"}
        ELSE IF HealthOf(o) = "unknown" /\ o \in m.critical THEN {"operation_unknown"} ELSE {}

\* relation_summary
Summary(semantic, o) ==
    [unit |-> o, health |-> HealthOf(o), semantic |-> semantic[o],
     completed |-> got[o].completed, iteration |-> got[o].own = "running"]

\* attach_relations: a parent that is not in the view is not shown.
Relations(semantic, o) ==
    LET parent == got[o].parent
    IN  [parent |-> IF parent \in DOMAIN got THEN Summary(semantic, parent) ELSE None,
         children |-> {Summary(semantic, c) : c \in ChildrenOf(got, o)}]

\* aggregate
Aggregate(m) ==
    LET owned == DOMAIN got
        semantic == Derived(got)
        sick == {o \in m.watch : UnitHealth(Row(o)) = "failed"}
        raises == (UNION {OwnedRaises(m, o) : o \in owned})
                    \cup (IF sick = {} THEN {} ELSE {"degraded"})
    IN  [owned |-> owned,
         health |-> IF owned \cup m.watch = {} THEN "unknown" ELSE Raised(raises),
         attention |-> (UNION {{<<o, "owned", code>> : code \in OwnedCodes(m, o)} : o \in owned})
                         \cup {<<o, "watching", "operation_failed">> : o \in sick},
         semantic |-> semantic,
         relations |-> [o \in owned |-> Relations(semantic, o)],
         critical |-> m.critical,
         answers |-> reader.answers,
         join |-> got]

-----------------------------------------------------------------------------
(* Reading *)

\* A scope show starts; without a usable manifest it ends there.
Start ==
    /\ reader.step = "idle"
    /\ \E explicit, env \in Dir \cup {None}, cwd \in Dir :
           LET d == Resolve(explicit, env, cwd)
           IN  /\ reader' = IF d = None THEN reader
                            ELSE [reader EXCEPT !.step = "list", !.dir = d]
               /\ shown' = None
    /\ held' = [o \in Op |-> {}]
    /\ UNCHANGED <<files, driver, got>>

\* The first of these operations, as a set of one.
FirstOf(left) ==
    {Order[n] : n \in {k \in DOMAIN Order : /\ Order[k] \in left
                                          /\ \A m \in DOMAIN Order : Order[m] \in left => k <= m}}

\* The next of `left` is up, or the end.
GoOnTo(r, left) ==
    IF left = {} THEN reader' = [r EXCEPT !.step = "show", !.at = None, !.partial = None]
    ELSE \E o \in FirstOf(left) :
             reader' = [r EXCEPT !.step = "lifecycle", !.at = o, !.partial = None]

\* What is joined: a critical operation always, another if systemd knows of it.
Owned(r) ==
    {o \in Op : /\ o \in Manifest[r.dir].owned
                /\ o \in Manifest[r.dir].critical \/ DOMAIN r.answers[o].units # {}}

\* The units are listed and shown (ViewCache); the rest of the view is about
\* these answers.
List ==
    /\ reader.step = "list"
    /\ \E answers \in Answer :
           LET r == [reader EXCEPT !.answers = answers] IN GoOnTo(r, Owned(r))
    /\ UNCHANGED <<files, driver, got, shown, held>>

\* Nothing but the metadata and lifecycle.json has been read.
Unread(f) ==
    [f EXCEPT !.observation = None, !.processed = None, !.checkpoint = None,
              !.blocker = None, !.session = FALSE]

\* One file of the operation being joined is read.
ReadFile(step, next, partial) ==
    /\ reader.step = step
    /\ reader' = [reader EXCEPT !.step = next, !.partial = partial]
    /\ UNCHANGED <<files, driver, got, shown>>

ReadLifecycle ==
    /\ ReadFile("lifecycle", "observation", Unread(files[reader.at]))
    /\ held' = [held EXCEPT ![reader.at] = Facts(reader.at, files[reader.at])]

ReadObservation ==
    /\ ReadFile("observation", "processed",
                [reader.partial EXCEPT !.observation = files[reader.at].observation])
    /\ UNCHANGED held

ReadProcessed ==
    /\ ReadFile("processed", "checkpoint",
                [reader.partial EXCEPT !.processed = files[reader.at].processed])
    /\ UNCHANGED held

ReadCheckpoint ==
    /\ ReadFile("checkpoint", "blocker",
                [reader.partial EXCEPT !.checkpoint = files[reader.at].checkpoint])
    /\ UNCHANGED held

ReadBlocker ==
    /\ ReadFile("blocker", "session",
                [reader.partial EXCEPT !.blocker = files[reader.at].blocker])
    /\ UNCHANGED held

\* What is joined of an operation: nothing when one of its files is malformed.
Joined(o, f) ==
    [own |-> OwnState(f, o \in OutputRequired),
     parent |-> IF f.agent /\ f.readable THEN f.parent ELSE None,
     completed |-> f.readable /\ f.lifecycle = "completed",
     labels |-> IF f.readable THEN Labels(Surface[o], Row(o)) ELSE {}]

\* Variant of JoinOperator that takes the observation anew.
JoinOperatorAnew ==
    LET o == reader.at
        f == [reader.partial EXCEPT !.session = files[o].session,
                                    !.observation = files[o].observation]
    IN  /\ reader.step = "session"
        /\ got' = [q \in DOMAIN got \cup {o} |-> IF q = o THEN Joined(o, f) ELSE got[q]]
        /\ GoOnTo(reader, Owned(reader) \ DOMAIN got')
        /\ UNCHANGED <<files, driver, shown, held>>

\* operator.json comes last, and the next operation is up.
JoinOperator ==
    LET o == reader.at
        f == [reader.partial EXCEPT !.session = files[o].session]
    IN  /\ reader.step = "session"
        /\ got' = [q \in DOMAIN got \cup {o} |-> IF q = o THEN Joined(o, f) ELSE got[q]]
        /\ GoOnTo(reader, Owned(reader) \ DOMAIN got')
        /\ UNCHANGED <<files, driver, shown, held>>

Show ==
    /\ reader.step = "show"
    /\ shown' = Aggregate(Manifest[reader.dir])
    /\ reader' = NoReader /\ got' = <<>>
    /\ UNCHANGED <<files, driver, held>>

Init ==
    /\ files \in Files
    /\ driver = [o \in Op |-> "idle"]
    /\ reader = NoReader /\ got = <<>> /\ shown = None
    /\ held = [o \in Op |-> {}]

DriverStep(o) ==
    \/ StartTick(o) \/ RecoverClearsBlocker(o) \/ Observe(o) \/ EndTick(o) \/ StartIteration(o)
    \/ FinishIteration(o) \/ ObserveAgain(o) \/ RecordBlocker(o)
    \/ MarkReady(o) \/ MarkBlocked(o) \/ WriteCheckpoint(o)
    \/ CheckpointDropsBlocker(o) \/ Complete(o)

ReaderStep ==
    \/ Start \/ List \/ ReadLifecycle \/ ReadObservation \/ ReadProcessed
    \/ ReadCheckpoint \/ ReadBlocker \/ JoinOperator \/ Show

Next ==
    \/ ReaderStep
    \/ \E o \in Driven : DriverStep(o)
    \/ \E o \in Released : ClearBlocker(o)

Spec == Init /\ [][Next]_vars

-----------------------------------------------------------------------------
(* Properties *)

DriverStates ==
    {"idle", "tick", "observed", "pass", "finished", "judged", "conceded", "certify", "unblock", "completed"}

\* Every variable has its type, and every operation of a view a semantic state.
ScopeTypeOK ==
    /\ files \in [Op -> FilesOf] /\ driver \in [Op -> DriverStates]
    /\ held \in [Op -> SUBSET Own]
    /\ DOMAIN got \subseteq Op
    /\ \A o \in DOMAIN got : got[o].own \in Own /\ got[o].parent \in Op \cup {None}
    /\ shown # None => shown.health \in Health /\ shown.semantic \in [shown.owned -> Semantic]

\* Whatever an operation's driver writes while its files are read one after the
\* other: one that is shown running, blocked or, as far as its own files go, ready
\* had, at one moment of the reading, a session, a blocker for what it observed, or
\* a checkpoint of it. The files a driver writes later in its tick are the ones
\* join_operation reads later, so a checkpoint or a blocker is never laid beside an
\* observation it was not made for.
ShownWasSo ==
    shown # None => \A o \in shown.owned :
        shown.join[o].own \in held[o] \cup {"stale", "neutral"}

\* The operations that may be shown ready: each is current, and so are its active
\* children, and theirs, all the way down.
Grounded(join) ==
    LET Closed(S) == \A o \in DOMAIN join :
            (join[o].own = "current" /\ ActiveChildren(join, o) \subseteq S) => o \in S
    IN  {o \in DOMAIN join : \A S \in SUBSET DOMAIN join : Closed(S) => o \in S}

\* SCOPES.md:171-181: READY is a current checkpoint and no active declared child
\* that is not READY, WAITING any such child; so an operation is ready exactly
\* when everything below it is, and one that waits for itself, through however
\* many parents, never is. In whichever order the operations are visited and
\* whatever derive_semantic_states remembers on the way. Whoever waits is shown
\* with the child it waits for.
DerivedAsDocumented ==
    shown # None =>
        \A o \in shown.owned :
            LET join == shown.join
                waits == \E c \in ActiveChildren(join, o) : c \notin Grounded(join)
            IN  /\ shown.semantic[o] =
                       IF join[o].own \in {"neutral", "running", "blocked"} THEN join[o].own
                       ELSE IF waits THEN "waiting"
                       ELSE IF join[o].own = "current" THEN "ready" ELSE "stale"
                /\ shown.semantic[o] = "waiting" =>
                       \E s \in shown.relations[o].children :
                           ~s.completed /\ s.semantic # "ready"

\* A service of the operation was executed and shown to have failed. Where a timer
\* starts it, a unit file of the two can be read: without one the kind is null and
\* operation_health looks at the timer alone.
HasFailed(raw) ==
    LET service == Shown(raw, "service")
    IN  /\ service # None /\ service.state = "failed"
        /\ LastTrigger(raw) \/ service.started
        /\ Timed(raw) => raw.type # None

\* A service that should run on is wanted and not active: stopped, or restarted
\* again and again.
IsDown(raw) ==
    LET service == Shown(raw, "service")
    IN  /\ raw.type = "simple" /\ ~Timed(raw)
        /\ service # None /\ service.enabled /\ service.state # "active"

\* A oneshot of which nothing was ever executed.
NeverRan(raw) ==
    LET service == Shown(raw, "service")
    IN  /\ DOMAIN raw.units # {} /\ Kind(raw) = "oneshot"
        /\ ~LastTrigger(raw) /\ (service # None => ~service.started)

\* SCOPES.md:213-224 and 270-285, and "silent healthy plus empty attention is the
\* defect this surface exists to prevent": a scope is healthy only if nothing it
\* lists has failed and no critical operation is unknown, and it is never anything
\* else without an entry that says which operation is to blame. Whatever systemd
\* said has failed, after it was executed, or is down though it is enabled, has
\* such an entry, critical or not; and a scope with a critical operation that never
\* ran is not healthy: never-run is unknown, never success.
NeverSilent ==
    shown # None =>
        LET blamed == {a \in shown.attention :
                           a[3] \in {"operation_failed", "operation_unknown", "wanted_inactive"}}
            active == {o \in shown.owned : ~shown.join[o].completed}
        IN  /\ shown.health # "healthy" => blamed # {} \/ shown.owned = {}
            /\ shown.health = "healthy" =>
                   /\ \A a \in blamed : a[3] = "wanted_inactive"
                   /\ \A o \in active \cap shown.critical : ~NeverRan(shown.answers[o])
            /\ \A o \in active :
                   HasFailed(shown.answers[o]) \/ IsDown(shown.answers[o]) =>
                       <<o, "owned", "operation_failed">> \in shown.attention
=============================================================================
