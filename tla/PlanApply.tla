----------------------------- MODULE PlanApply ------------------------------
(***************************************************************************)
(* Sealed plans: src/token.rs, src/write.rs, the authoring half of         *)
(* src/operations.rs and the instance and lifecycle plans of               *)
(* src/automation.rs.  A plan reads and writes nothing; it is a token that *)
(* carries what it saw and may be presented by any process, any number of  *)
(* times, until it expires.  An apply looks at the recorded state once,    *)
(* then writes file after file and runs systemctl verb after verb with no  *)
(* lock; it may fail or be killed between any two.                         *)
(*                                                                         *)
(* A token whose MAC, manager or class is wrong never parses: such a token *)
(* is no plan here.  Every stem is inside the write prefix and owned by    *)
(* the scope.  Rendering puts the hash of the whole spec in both files, so *)
(* a file's content is the spec it was rendered from (created_at is left   *)
(* out: a plan is fresh a little more often here than in the code).  A     *)
(* plan's reads are one step: whatever apply compares, it compares again.  *)
(***************************************************************************)
EXTENDS FiniteSets, Integers

CONSTANTS
    Client,      \* processes that plan and apply
    Stem,        \* operations
    OpSpec,      \* operation specs
    Scheduled,   \* specs with a schedule: a service and a timer
    Installable, \* specs whose unit has an [Install] section
    Enabled,     \* specs with enabled = true
    StartNow,    \* specs with start_now = true
    Absent,      \* no such file
    Foreign,     \* a unit file without the managed marker
    Root,        \* an automation.toml without parent
    Completed,   \* a lifecycle.json
    Unlisted,         \* not a value: a part a plan does not look at, or leaves alone
    Origins,     \* bound: how operations were created before, <<spec, automation.toml>>
    Moving,      \* bound: the operations that plans and events are about
    Lanes,       \* bound: the ways creates and updates are planned
    Controls,    \* bound: the control verbs that are planned
    MaxPlans,    \* bound: plans ever made
    MaxEvents,   \* bound: what happens to units and their files outside the plans
    Overlap      \* TRUE: an apply or a hand edit may start while an apply runs

ASSUME PlanApplyAssumption ==
    /\ Scheduled \subseteq Installable /\ Installable \subseteq OpSpec
    /\ Enabled \subseteq OpSpec /\ StartNow \subseteq OpSpec
    /\ OpSpec \intersect Stem = {}
    /\ {Absent, Foreign, Root, Completed, Unlisted} \intersect (OpSpec \union Stem) = {}
    /\ Foreign # Absent /\ Root \notin {Absent, Foreign}
    /\ Completed \notin {Absent, Foreign, Root}
    /\ Unlisted \notin {Absent, Foreign, Root, Completed}
    /\ Origins \subseteq OpSpec \X {Root, Absent}
    /\ Moving \subseteq Stem
    /\ Lanes \subseteq {"author", "agent", "plain"}
    /\ Controls \subseteq {"start", "stop", "enable", "disable"}
    /\ MaxPlans \in Nat /\ MaxEvents \in Nat /\ Overlap \in BOOLEAN

VARIABLES
    store,   \* the four files of each operation
    staged,  \* the .mcpd-new file beside each unit file
    enabled, \* the units systemd has enabled
    active,  \* the units systemd has active
    plans,   \* the tokens minted so far
    expired, \* those past their expires_at
    job,     \* the apply each client is in
    answer,  \* the last answer each client got: none while it waits
    events   \* what happened outside the plans so far

runtime == <<enabled, active>>
tokens == <<plans, expired>>
vars == <<store, staged, enabled, active, plans, expired, job, answer, events>>

UnitPart == {"service", "timer"}
Part == UnitPart \union {"automation", "lifecycle"}
Unit == Stem \X UnitPart

Value == OpSpec \union Stem \union {Absent, Foreign, Root, Completed}
Wanted == [Part -> Value \union {Unlisted}]

ControlVerb == {"start", "stop", "enable", "disable"}
Verb == {"create", "update", "retire", "complete"} \union ControlVerb

\* saw and new: the snapshots and the contents a plan carries.
\* unit and observed: for a control verb, the unit and the state it was seen in.
Plan ==
    [verb : Verb, stem : Stem, spec : OpSpec \union {Unlisted}, unit : UnitPart,
     observed : BOOLEAN, saw : Wanted, new : Wanted]

\* left: the parts the apply has still to write.
Step == {"idle", "files", "define", "rename", "enable", "start", "record",
         "quiesce", "unlink", "stop", "disable", "verb", "done"}
Job == [at : Step, plan : Plan \union {Unlisted}, left : SUBSET Part]
Idle == [at |-> "idle", plan |-> Unlisted, left |-> {}]

-----------------------------------------------------------------------------
(* Specs: what an operation is made of *)

\* planned_files
Files(x) == IF x \in Scheduled THEN UnitPart ELSE {"service"}

\* The unit a spec's schedule, or its lack, makes the one to start or enable.
Trigger(x) == IF x \in Scheduled THEN "timer" ELSE "service"

\* enable_unit, start_unit
EnableUnit(x) == IF x \in Enabled \intersect Installable THEN {Trigger(x)} ELSE {}
StartUnit(x) == IF x \in StartNow THEN {Trigger(x)} ELSE {}

\* What an update whose spec enables nothing tries to disable.
DisableUnit(verb, x) ==
    IF verb = "update" /\ EnableUnit(x) = {} /\ x \in Installable
    THEN {Trigger(x)} ELSE {}

\* ensure_unit_known: systemd finds a file for the unit.
Known(s, u) == store[s][u] # Absent

Exists(s) == \E u \in UnitPart : Known(s, u)

Nothing == [q \in Part |-> Absent]

\* An operation created earlier, in the author lane (m = Absent) or with an agent
\* and no parent (m = Root).
Installed(x, m) ==
    [q \in Part |-> IF q \in Files(x) THEN x
                    ELSE IF q = "automation" THEN m ELSE Absent]

-----------------------------------------------------------------------------
(* The parent relation *)

ParentOf(s) == IF store[s]["automation"] \in Stem THEN store[s]["automation"] ELSE Root

\* The n-th ancestor, Root past the end.
Ancestor(s) ==
    LET up[n \in 0..Cardinality(Stem)] ==
            IF n = 0 THEN s
            ELSE IF up[n - 1] = Root THEN Root ELSE ParentOf(up[n - 1])
    IN up

\* Following the parents of s ends.
Rooted(s) == Ancestor(s)[Cardinality(Stem)] = Root

\* validate_parent
ValidParent(s, m) ==
    m \in Stem =>
        /\ m # s
        /\ Exists(m)
        /\ store[m]["automation"] # Absent
        /\ Rooted(m)
        /\ \A n \in 0..Cardinality(Stem) : Ancestor(m)[n] # s

-----------------------------------------------------------------------------
(* Making plans *)

\* What a plan that looks at the parts of P remembers.
Seen(s, P) == [q \in Part |-> IF q \in P THEN store[s][q] ELSE Unlisted]

Untouched == [q \in Part |-> Unlisted]

Mint(p) ==
    /\ Cardinality(plans) < MaxPlans
    /\ plans' = plans \union {p}
    /\ UNCHANGED <<store, staged, runtime, expired, job, answer, events>>

\* Creates and updates are planned in the author lane (operations.rs alone) or in
\* the automation lane, for a spec with an agent or a plain one.  The latter two
\* look at automation.toml, the agent's also writes it.
Parents(lane) == IF lane = "agent" THEN Stem \union {Root} ELSE {Unlisted}

LooksAt(lane, x) == Files(x) \union (IF lane = "author" THEN {} ELSE {"automation"})

Author(verb, s, x, lane, m) ==
    [verb |-> verb, stem |-> s, spec |-> x, unit |-> "service", observed |-> FALSE,
     saw |-> Seen(s, LooksAt(lane, x)),
     new |-> [q \in Part |-> IF q \in Files(x) THEN x
                             ELSE IF q = "automation" THEN m ELSE Unlisted]]

\* plan_create of operations.rs, alone or inside plan_instance
PlanCreate(s, x, lane, m) ==
    /\ ValidParent(s, m)
    /\ \A q \in LooksAt(lane, x) : store[s][q] = Absent
    /\ Mint(Author("create", s, x, lane, m))

\* plan_update of operations.rs, alone or inside plan_instance
PlanUpdate(s, x, lane, m) ==
    /\ ValidParent(s, m)
    /\ store[s]["service"] # Absent
    /\ \A u \in Files(x) : store[s][u] # Foreign
    /\ Mint(Author("update", s, x, lane, m))

\* plan_retire, alone or inside the automation one
PlanRetire(s) ==
    LET found == {u \in UnitPart : store[s][u] # Absent}
    IN  /\ found # {}
        /\ \A u \in found : store[s][u] # Foreign
        /\ Mint([verb |-> "retire", stem |-> s, spec |-> Unlisted, unit |-> "service",
                 observed |-> FALSE, saw |-> Seen(s, found),
                 new |-> [q \in Part |-> IF q \in found THEN Absent ELSE Unlisted]])

PlanComplete(s) ==
    /\ Exists(s)
    /\ store[s]["lifecycle"] = Absent
    /\ Mint([verb |-> "complete", stem |-> s, spec |-> Unlisted, unit |-> "service",
             observed |-> FALSE, saw |-> Seen(s, {"lifecycle"}),
             new |-> [Untouched EXCEPT !["lifecycle"] = Completed]])

\* observe: the state dimension a control verb changes
Observed(verb, s, u) ==
    <<s, u>> \in (IF verb \in {"start", "stop"} THEN active ELSE enabled)

PlanControl(verb, s, u) ==
    /\ Known(s, u)
    /\ Mint([verb |-> verb, stem |-> s, spec |-> Unlisted, unit |-> u,
             observed |-> Observed(verb, s, u), saw |-> Untouched, new |-> Untouched])

\* plan_ttl_secs later
Expire(p) ==
    /\ p \notin expired
    /\ expired' = expired \union {p}
    /\ UNCHANGED <<store, staged, runtime, plans, job, answer, events>>

-----------------------------------------------------------------------------
(* Applying plans *)

Quiet == \A c \in Client : job[c].at = "idle"

At(c, step) == job[c].at = step
PlanOf(c) == job[c].plan

\* The recorded state of the parts in P is still what p saw.
Fresh(p, P) == \A q \in P : p.saw[q] \in {store[p.stem][q], Unlisted}

\* The parts a plan replaces.
Changed(p) == {q \in Part : p.new[q] # Unlisted}

Goto(c, step) == job' = [job EXCEPT ![c].at = step]

\* Variant of FirstStep: a completion goes the way of the author plans.
FirstStepAuthored(p) == IF p.verb \in ControlVerb THEN "verb" ELSE "files"

FirstStep(p) ==
    CASE p.verb = "complete" -> "stop"
      [] p.verb \in ControlVerb -> "verb"
      [] OTHER -> "files"

\* Variant of Present: the state is not looked at again.
PresentUnchecked(c, p) ==
    /\ At(c, "idle") /\ (Overlap \/ Quiet)
    /\ p \notin expired
    /\ job' = [job EXCEPT ![c] = [at |-> FirstStep(p), plan |-> p, left |-> Changed(p)]]
    /\ answer' = [answer EXCEPT ![c] = "none"]
    /\ UNCHANGED <<store, staged, runtime, tokens, events>>

\* token::parse, then the comparison that comes first: of automation.toml or
\* lifecycle.json, or of the unit's state.  A token that fails it changes nothing.
Present(c, p) ==
    /\ At(c, "idle") /\ (Overlap \/ Quiet)
    /\ p \notin expired
    /\ Fresh(p, {"automation", "lifecycle"})
    /\ p.verb \in ControlVerb => p.observed = Observed(p.verb, p.stem, p.unit)
    /\ job' = [job EXCEPT ![c] = [at |-> FirstStep(p), plan |-> p, left |-> Changed(p)]]
    /\ answer' = [answer EXCEPT ![c] = "none"]
    /\ UNCHANGED <<store, staged, runtime, tokens, events>>

\* Variant of CheckFiles that looks at the service file only.
CheckService(c) ==
    LET p == PlanOf(c)
    IN  /\ At(c, "files")
        /\ p \notin expired
        /\ Fresh(p, {"service"})
        /\ Goto(c, IF p.verb = "retire" THEN "quiesce" ELSE "define")
        /\ UNCHANGED <<store, staged, runtime, tokens, answer, events>>

\* apply_authoring compares every snapshot before it does anything.  Inside an
\* automation plan its token is parsed here.
CheckFiles(c) ==
    LET p == PlanOf(c)
    IN  /\ At(c, "files")
        /\ p \notin expired
        /\ Fresh(p, UnitPart)
        /\ Goto(c, IF p.verb = "retire" THEN "quiesce" ELSE "define")
        /\ UNCHANGED <<store, staged, runtime, tokens, answer, events>>

\* The unit file to write or remove next: planned_files and plan_retire put the
\* service first.
NextUnit(c) == IF "service" \in job[c].left THEN "service" ELSE "timer"

\* Part q is written: on to the step then, or next when a unit file is left.
Wrote(c, q, next, then) ==
    job' = [job EXCEPT ![c] =
              [at |-> IF (job[c].left \ {q}) \intersect UnitPart # {} THEN next ELSE then,
               plan |-> PlanOf(c), left |-> job[c].left \ {q}]]

\* write_atomic, first half
StageFile(c) ==
    LET p == PlanOf(c)
    IN  /\ At(c, "define")
        /\ staged' = [staged EXCEPT ![p.stem][NextUnit(c)] = p.new[NextUnit(c)]]
        /\ Goto(c, "rename")
        /\ UNCHANGED <<store, runtime, tokens, answer, events>>

\* write_atomic, second half: it renames whatever is staged by now.  Snapshots of
\* files that are not planned are never there, so the loop after it removes none.
RenameFile(c) ==
    LET s == PlanOf(c).stem  u == NextUnit(c)
    IN  /\ At(c, "rename")
        /\ staged[s][u] # Absent
        /\ store' = [store EXCEPT ![s][u] = staged[s][u]]
        /\ staged' = [staged EXCEPT ![s][u] = Absent]
        /\ Wrote(c, u, "define", "enable")
        /\ UNCHANGED <<runtime, tokens, answer, events>>

\* daemon_reload, then enable, or on an update try to disable
EnableUnits(c) ==
    LET p == PlanOf(c)  on == EnableUnit(p.spec)  off == DisableUnit(p.verb, p.spec)
    IN  /\ At(c, "enable")
        /\ enabled' \in {(enabled \union ({p.stem} \X on)) \ ({p.stem} \X off),
                         enabled \union ({p.stem} \X on)}
        /\ \A u \in on : Known(p.stem, u)
        /\ Goto(c, "start")
        /\ UNCHANGED <<store, staged, active, tokens, answer, events>>

StartUnits(c) ==
    LET p == PlanOf(c)
    IN  /\ At(c, "start")
        /\ \A u \in StartUnit(p.spec) : Known(p.stem, u)
        /\ active' = active \union ({p.stem} \X StartUnit(p.spec))
        /\ Goto(c, IF job[c].left = {} THEN "done" ELSE "record")
        /\ UNCHANGED <<store, staged, enabled, tokens, answer, events>>

\* atomic_write of automation.toml or lifecycle.json
RecordState(c) ==
    LET p == PlanOf(c)
    IN  /\ At(c, "record")
        /\ \E q \in job[c].left :
            /\ store' = [store EXCEPT ![p.stem][q] = p.new[q]]
            /\ Wrote(c, q, "done", "done")
        /\ UNCHANGED <<staged, runtime, tokens, answer, events>>

\* Retire stops and disables timer and service; what systemctl refuses is ignored.
Quiesce(c) ==
    LET s == PlanOf(c).stem  units == {s} \X {u \in UnitPart : Known(s, u)}
    IN  /\ At(c, "quiesce")
        /\ \E stopped, disabled \in SUBSET units :
            /\ active' = active \ stopped
            /\ enabled' = enabled \ disabled
        /\ Goto(c, "unlink")
        /\ UNCHANGED <<store, staged, tokens, answer, events>>

UnlinkFile(c) ==
    LET s == PlanOf(c).stem  u == NextUnit(c)
    IN  /\ At(c, "unlink")
        /\ store' = [store EXCEPT ![s][u] = Absent]
        /\ Wrote(c, u, "unlink", "done")
        /\ UNCHANGED <<staged, runtime, tokens, answer, events>>

\* Complete stops the timer, if there is one.
StopTimer(c) ==
    LET s == PlanOf(c).stem
    IN  /\ At(c, "stop")
        /\ \/ Known(s, "timer") /\ active' = active \ {<<s, "timer">>} /\ Goto(c, "disable")
           \/ ~Known(s, "timer") /\ Goto(c, "record") /\ UNCHANGED active
        /\ UNCHANGED <<store, staged, enabled, tokens, answer, events>>

\* Variant of DisableTimer: a refusal of systemctl is ignored, as in retire.
TryDisableTimer(c) ==
    /\ At(c, "disable")
    /\ enabled' \in {enabled \ {<<PlanOf(c).stem, "timer">>}, enabled}
    /\ Goto(c, "record")
    /\ UNCHANGED <<store, staged, active, tokens, answer, events>>

DisableTimer(c) ==
    /\ At(c, "disable")
    /\ enabled' = enabled \ {<<PlanOf(c).stem, "timer">>}
    /\ Goto(c, "record")
    /\ UNCHANGED <<store, staged, active, tokens, answer, events>>

\* apply_verb of a control plan
Control(c) ==
    LET p == PlanOf(c)  unit == {<<p.stem, p.unit>>}
    IN  /\ At(c, "verb")
        /\ active' = CASE p.verb = "start" -> active \union unit
                       [] p.verb = "stop" -> active \ unit
                       [] OTHER -> active
        /\ enabled' = CASE p.verb = "enable" -> enabled \union unit
                        [] p.verb = "disable" -> enabled \ unit
                        [] OTHER -> enabled
        /\ Goto(c, "done")
        /\ UNCHANGED <<store, staged, tokens, answer, events>>

\* "applied": true
Finish(c) ==
    /\ At(c, "done")
    /\ job' = [job EXCEPT ![c] = Idle]
    /\ answer' = [answer EXCEPT ![c] = "applied"]
    /\ UNCHANGED <<store, staged, runtime, tokens, events>>

\* A check fails, a write or systemctl fails, or the client is killed: what was
\* written stays.
Abandon(c) ==
    /\ job[c].at \notin {"idle", "done"}
    /\ job' = [job EXCEPT ![c] = Idle]
    /\ answer' = [answer EXCEPT ![c] = "error"]
    /\ UNCHANGED <<store, staged, runtime, tokens, events>>

-----------------------------------------------------------------------------
(* Around the plans *)

Event == events < MaxEvents /\ events' = events + 1

\* notify_parent: start --no-block of the parent's service.  Which event it
\* reports is the child's own state.
NotifyParent(s) ==
    LET m == ParentOf(s)
    IN  /\ m \in Stem
        /\ Known(m, "service")
        /\ active' = active \union {<<m, "service">>}
        /\ Event
        /\ UNCHANGED <<store, staged, enabled, tokens, job, answer>>

\* systemd: a timer elapses, a service ends.
TimerFires(s) ==
    /\ <<s, "timer">> \in active /\ <<s, "service">> \notin active
    /\ Known(s, "service")
    /\ active' = active \union {<<s, "service">>}
    /\ Event
    /\ UNCHANGED <<store, staged, enabled, tokens, job, answer>>

ServiceEnds(s) ==
    /\ <<s, "service">> \in active
    /\ active' = active \ {<<s, "service">>}
    /\ Event
    /\ UNCHANGED <<store, staged, enabled, tokens, job, answer>>

\* Somebody removes a unit file or puts another one there.
HandEdit(s, u) ==
    /\ Overlap \/ Quiet
    /\ Event
    /\ store' \in {[store EXCEPT ![s][u] = Absent], [store EXCEPT ![s][u] = Foreign]}
    /\ UNCHANGED <<staged, runtime, tokens, job, answer>>

-----------------------------------------------------------------------------
Init ==
    /\ store \in [Stem -> {Nothing} \union {Installed(o[1], o[2]) : o \in Origins}]
    /\ staged = [s \in Stem |-> [u \in UnitPart |-> Absent]]
    /\ enabled = UNION {{s} \X EnableUnit(store[s]["service"]) : s \in Stem}
    /\ active = {}
    /\ plans = {}
    /\ expired = {}
    /\ job = [c \in Client |-> Idle]
    /\ answer = [c \in Client |-> "none"]
    /\ events = 0

Planning(s) ==
    \/ \E x \in OpSpec, lane \in Lanes : \E m \in Parents(lane) :
        PlanCreate(s, x, lane, m) \/ PlanUpdate(s, x, lane, m)
    \/ PlanRetire(s)
    \/ PlanComplete(s)
    \/ \E verb \in Controls, u \in UnitPart : PlanControl(verb, s, u)

Applying(c) ==
    \/ \E p \in plans : Present(c, p)
    \/ CheckFiles(c)
    \/ StageFile(c) \/ RenameFile(c) \/ EnableUnits(c) \/ StartUnits(c) \/ RecordState(c)
    \/ Quiesce(c) \/ UnlinkFile(c)
    \/ StopTimer(c) \/ DisableTimer(c)
    \/ Control(c)
    \/ Finish(c) \/ Abandon(c)

Outside(s) ==
    \/ NotifyParent(s) \/ TimerFires(s) \/ ServiceEnds(s)
    \/ \E u \in UnitPart : HandEdit(s, u)

Next ==
    \/ \E s \in Moving : Planning(s) \/ Outside(s)
    \/ \E p \in plans : Expire(p)
    \/ \E c \in Client : Applying(c)

Spec == Init /\ [][Next]_vars

-----------------------------------------------------------------------------
(* Properties *)

\* Every variable has its type, and a client at a step has a plan for that step.
TypeOK ==
    /\ store \in [Stem -> [Part -> Value]]
    /\ staged \in [Stem -> [UnitPart -> OpSpec \union {Absent}]]
    /\ enabled \subseteq Unit /\ active \subseteq Unit
    /\ plans \subseteq Plan /\ expired \subseteq plans
    /\ job \in [Client -> Job]
    /\ answer \in [Client -> {"none", "applied", "error"}]
    /\ events \in Nat

\* A parent is looked up once, at plan time.  Still, whoever retires it or whatever
\* plan is applied late, an automation.toml never names an operation that has no
\* automation.toml (docs/SCOPES.md:157-159): retirement keeps it.
ParentsHaveMetadata ==
    \A s \in Stem :
        store[s]["automation"] \in Stem =>
            store[store[s]["automation"]]["automation"] # Absent

\* A unit file without the managed marker is only ever changed by hand
\* (docs/TOOLS.md:128-136), also when it appears after the plan was made.
MarkerRespected ==
    [][\A s \in Stem, u \in UnitPart :
        store[s][u] = Foreign /\ store'[s][u] # Foreign => events' = events + 1]_vars

\* lifecycle.json says completed only once the timer is stopped and disabled
\* (docs/SCOPES.md:190-193), whatever fails or is killed on the way.
CompletedWhenQuiet ==
    [][\A s \in Stem :
        store[s]["lifecycle"] = Absent /\ store'[s]["lifecycle"] = Completed
          /\ Known(s, "timer") => <<s, "timer">> \notin enabled \union active]_vars

\* The parent relation has no cycle (docs/SCOPES.md:157-159).
ParentTreeAcyclic == \A s \in Stem : Rooted(s)

\* The job that replaces part q of operation s, none outside an apply.
Replacing(s, q) ==
    {c \in Client : job[c].at \notin {"idle", "files"} /\ PlanOf(c).stem = s
                      /\ PlanOf(c).new[q] # Unlisted}

\* The files as they were when the apply in progress compared them.
StoreSeen ==
    [s \in Stem |-> [q \in Part |->
        IF Replacing(s, q) = {} THEN store[s][q]
        ELSE PlanOf(CHOOSE c \in Replacing(s, q) : TRUE).saw[q]]]

PlansSeen == {[stem |-> p.stem, saw |-> p.saw, new |-> p.new] : p \in plans}

Store == INSTANCE CheckedStore WITH store <- StoreSeen, plans <- PlansSeen

\* Applies that do not overlap replace exactly the state their plan saw, all of it
\* when they answer applied, and nothing the plan did not see when they fail.
PlansAreChecked == Store!Spec
=============================================================================
