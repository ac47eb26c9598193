----------------------------- MODULE Deployment -----------------------------
(***************************************************************************)
(* The runtime generations and the three records that say which one runs:  *)
(* deployment.json (the ledger), the symlink generations/current and       *)
(* published-generation.json.  runtime-run composes a candidate; the       *)
(* deploy verbs of src/automation.rs, each planned on the ledger's hash    *)
(* and applied later, acknowledge its canary, publish occupancy and        *)
(* collect old generations.  Only composes exclude each other: the verbs   *)
(* read the ledger, edit their copy and rename it back with no lock, and   *)
(* may be killed between any two steps.                                    *)
(*                                                                         *)
(* Timestamps, labels, reasons and the canary's record are left out: no    *)
(* decision reads them.  So two ledgers that differ in these only are one, *)
(* and a plan made on one is fresh for the other.                          *)
(***************************************************************************)
CONSTANTS
    Generation, \* output revisions: directories of generations/
    None,       \* not a Generation
    Actor,      \* names in the occupancy
    Midi,       \* the actor that acknowledges canaries
    Operator,   \* processes that run the deploy verbs
    Runtime,    \* runtime-run, which composes under its .wake.lock
    Overlap,    \* TRUE: an apply or a compose may start while another one runs
    Kills       \* TRUE: a client may die between two steps

ASSUME DeploymentAssumption ==
    /\ None \notin Generation
    /\ Midi \in Actor
    /\ Runtime \notin Operator
    /\ Overlap \in BOOLEAN
    /\ Kills \in BOOLEAN

VARIABLES
    dirs,      \* the generations that have a directory
    current,   \* what generations/current points at
    published, \* published-generation.json
    ledger,    \* deployment.json
    running,   \* the generation each actor executes
    call,      \* the verb each client is in, how far, and its copy of the ledger
    acked      \* history: generations a canary pass was ever planned for

Client == Operator \union {Runtime}

records == <<dirs, current, published, ledger>>
vars == <<records, running, call, acked>>

-----------------------------------------------------------------------------
(* Records *)

GenerationOrNone == Generation \union {None}
Phase == {"candidate", "rolling_out", "converged"}

\* rows: the generation of each actor with a live row.  A row that is stopped or
\* retired holds nothing back, as if it were not there.
Ledger ==
    [candidate : GenerationOrNone, phase : Phase, promoted : GenerationOrNone,
     target : GenerationOrNone, alive : BOOLEAN,
     rows : [Actor -> GenerationOrNone]]

\* No deployment.json: nothing was ever composed.
NoLedger ==
    [candidate |-> None, phase |-> "candidate", promoted |-> None,
     target |-> None, alive |-> FALSE, rows |-> [a \in Actor |-> None]]

\* observed: what midi saw itself run, None if another generation than the one it
\* acknowledges, or if actor or continuity is not midi's.
\* actors: the rows an occupancy plan carries.  copy: the ledger it read.
Call ==
    [step : {"idle", "planned", "load", "build", "payload", "judge", "target",
             "flip", "publish", "check", "remove", "write"},
     verb : {"none", "ack", "occupancy", "gc", "compose"},
     result : {"pass", "fail", "recovered"},
     generation : GenerationOrNone, observed : GenerationOrNone,
     actors : [Actor -> GenerationOrNone], copy : Ledger]

Idle ==
    [step |-> "idle", verb |-> "none", result |-> "fail", generation |-> None,
     observed |-> None, actors |-> [a \in Actor |-> None], copy |-> NoLedger]

-----------------------------------------------------------------------------
(* Decisions *)

\* midi is known to be alive on generation g.
MidiAliveOn(l, g) == l.alive \/ l.rows[Midi] = g

\* A failed canary holds passes until midi is back on the recovery target.
HoldActive(l) == l.target # None /\ ~MidiAliveOn(l, l.target)

\* Variant of FailClosed: an ack of any generation counts for the candidate.
FailUnlessPass(k, l) == k.result = "fail" \/ k.observed # k.generation

\* fail_closed_reason: the ack does not vouch for the candidate.
FailClosed(k, l) ==
    \/ k.result = "fail"
    \/ k.generation # l.candidate
    \/ k.observed # k.generation

\* Variant of Intent without the hold.
IntentUnheld(k, l) ==
    IF k.result = "recovered" THEN "recovered"
    ELSE IF FailClosed(k, l) THEN "fail" ELSE "pass"

\* classify_canary_ack
Intent(k, l) ==
    IF k.result = "recovered"
    THEN IF l.target # None /\ k.generation = l.target /\ k.observed = l.target
         THEN "recovered" ELSE "refused"
    ELSE IF FailClosed(k, l) THEN "fail"
         ELSE IF HoldActive(l) THEN "refused" ELSE "pass"

\* previous_promoted_sha
PreviousPromoted(l) ==
    IF published # None THEN published
    ELSE IF l.promoted # None THEN l.promoted
    ELSE IF current \in dirs THEN current ELSE None

AlreadyPromoted(l) == current = l.candidate /\ current \in dirs /\ published = l.candidate

\* Variant of Retained: only what is live.
RetainedWhenLive(g, l) ==
    \/ g = (IF published # None THEN published ELSE l.promoted)
    \/ \E a \in Actor : l.rows[a] = g \/ running[a] = g
    \/ g = current

\* Variant of Retained that trusts the ledger's rows and asks no process.
RetainedByRecords(g, l) ==
    \/ g = (IF published # None THEN published ELSE l.promoted)
    \/ g = l.candidate
    \/ \E a \in Actor : l.rows[a] = g
    \/ g = current

\* retained_reasons: why g may not be collected.
Retained(g, l) ==
    \/ g = (IF published # None THEN published ELSE l.promoted)
    \/ g = l.candidate
    \/ \E a \in Actor : l.rows[a] = g
    \/ \E a \in Actor : running[a] = g
    \/ g = current

-----------------------------------------------------------------------------
(* Edits of a client's copy *)

\* maybe_set_converged
Converged(l) ==
    IF l.phase = "candidate" \/ l.promoted = None THEN l
    ELSE [l EXCEPT !.phase =
             IF \A a \in Actor : l.rows[a] \in {None, l.promoted}
             THEN "converged" ELSE "rolling_out"]

Failed(l, previous) ==
    [l EXCEPT !.phase = "candidate", !.target = previous, !.alive = FALSE]

Recovered(l) == [l EXCEPT !.alive = TRUE]

\* Variant of Promoted with a phase of its own.
PromotedPhase(l) == [l EXCEPT !.phase = "promoted", !.promoted = l.candidate]

Promoted(l) == [l EXCEPT !.phase = "rolling_out", !.promoted = l.candidate]

Occupied(l, actors) == Converged([l EXCEPT !.rows = actors])

\* Variant of Offered that keeps the phase of the candidate it replaces.
OfferedInPhase(l, g) == [l EXCEPT !.candidate = g]

\* write_deployment_candidate
Offered(l, g) == [l EXCEPT !.candidate = g, !.phase = "candidate"]

-----------------------------------------------------------------------------
(* Steps of a client *)

At(c, step) == call[c].step = step
Goto(c, step) == call' = [call EXCEPT ![c].step = step]
Hold(c, step, l) == call' = [call EXCEPT ![c] = [Idle EXCEPT !.step = step, !.copy = l]]
Edit(c, l) == Hold(c, "write", l)
Return(c) == call' = [call EXCEPT ![c] = Idle]

\* A client past its plan.  Nothing in the code keeps two of them apart.
Busy(c) == call[c].step \notin {"idle", "planned"}
MayBegin == Overlap \/ \A e \in Client : ~Busy(e)

\* A plan carries the hash of the ledger it was made on.
Planned(verb) == [Idle EXCEPT !.step = "planned", !.verb = verb, !.copy = ledger]

\* plan_deploy_canary_ack: planned whatever the ack says, unless it is refused.
PlanAck(c) ==
    /\ At(c, "idle") /\ ledger.candidate # None
    /\ \E result \in {"pass", "fail", "recovered"}, g \in Generation :
       \E o \in {g, None} :
          LET k == [Planned("ack") EXCEPT !.result = result, !.generation = g,
                                          !.observed = o]
          IN  /\ Intent(k, ledger) # "refused"
              /\ call' = [call EXCEPT ![c] = k]
              /\ acked' = IF result = "pass" /\ o = g
                          THEN acked \union {g} ELSE acked
    /\ UNCHANGED <<records, running>>

\* plan_deploy_occupancy: nobody compares midi's rows with what is running.
PlanOccupancy(c) ==
    /\ At(c, "idle") /\ ledger.candidate # None
    /\ \E rows \in [Actor -> GenerationOrNone] :
          call' = [call EXCEPT ![c] = [Planned("occupancy") EXCEPT !.actors = rows]]
    /\ UNCHANGED <<records, running, acked>>

\* plan_deploy_gc
PlanGc(c) ==
    /\ At(c, "idle") /\ ledger.candidate # None
    /\ \E g \in dirs :
          /\ ~Retained(g, ledger)
          /\ call' = [call EXCEPT ![c] = [Planned("gc") EXCEPT !.generation = g]]
    /\ UNCHANGED <<records, running, acked>>

\* require_snapshot_fresh
Fresh(k) == ledger = k.copy

\* apply: a stale plan is refused.  The ledger is then read again.
Apply(c) ==
    /\ At(c, "planned") /\ MayBegin
    /\ IF Fresh(call[c]) THEN Goto(c, "load") ELSE Return(c)
    /\ UNCHANGED <<records, running, acked>>

\* What each verb makes of the ledger it loads.
Load(c) ==
    LET k == call[c]
        previous == PreviousPromoted(ledger)
    IN  /\ At(c, "load")
        /\ \/ k.verb = "compose" /\ Edit(c, Offered(ledger, k.generation))
           \/ k.verb = "occupancy" /\ Edit(c, Occupied(ledger, k.actors))
           \/ /\ k.verb = "gc"
              /\ call' = [call EXCEPT ![c].step = "check", ![c].copy = ledger]
           \/ /\ k.verb = "ack" /\ Intent(k, ledger) = "refused"
              /\ Return(c)
           \/ /\ k.verb = "ack" /\ Intent(k, ledger) = "fail"
              /\ IF previous = None THEN Return(c) ELSE Edit(c, Failed(ledger, previous))
           \/ /\ k.verb = "ack" /\ Intent(k, ledger) = "recovered"
              /\ Edit(c, Recovered(ledger))
           \/ /\ k.verb = "ack" /\ Intent(k, ledger) = "pass"
              /\ Hold(c, "judge", ledger)
        /\ UNCHANGED <<records, running, acked>>

\* The rename of deployment.json; the verb returns.
Write(c) ==
    /\ At(c, "write")
    /\ ledger' = call[c].copy
    /\ Return(c)
    /\ UNCHANGED <<dirs, current, published, running, acked>>

\* A pass of what already runs is a no-op: not even the ledger is written.
Judge(c) ==
    /\ At(c, "judge")
    /\ IF AlreadyPromoted(call[c].copy) THEN Return(c) ELSE Goto(c, "target")
    /\ UNCHANGED <<records, running, acked>>

\* promote_runtime_generation: the directory must be there...
FindTarget(c) ==
    /\ At(c, "target")
    /\ IF call[c].copy.candidate \in dirs THEN Goto(c, "flip") ELSE Return(c)
    /\ UNCHANGED <<records, running, acked>>

\* ...the symlink is renamed into place...
Flip(c) ==
    /\ At(c, "flip")
    /\ current' = call[c].copy.candidate
    /\ Goto(c, "publish")
    /\ UNCHANGED <<dirs, published, ledger, running, acked>>

\* ...the install is pointed at it and published-generation.json written.
Publish(c) ==
    LET k == call[c]
    IN  /\ At(c, "publish")
        /\ IF current \in dirs
           THEN published' = k.copy.candidate /\ Edit(c, Promoted(k.copy))
           ELSE UNCHANGED published /\ Return(c)
        /\ UNCHANGED <<dirs, current, ledger, running, acked>>

\* apply_deploy_gc: checked again on the loaded ledger...
Check(c) ==
    LET k == call[c]
    IN  /\ At(c, "check")
        /\ IF k.generation \notin dirs \/ Retained(k.generation, k.copy)
           THEN Return(c) ELSE Goto(c, "remove")
        /\ UNCHANGED <<records, running, acked>>

\* ...then the directory goes, and with it the rows of no consequence.
Remove(c) ==
    LET k == call[c]
    IN  /\ At(c, "remove")
        /\ IF k.generation \in dirs THEN Edit(c, Converged(k.copy)) ELSE Return(c)
        /\ dirs' = dirs \ {k.generation}
        /\ UNCHANGED <<current, published, ledger, running, acked>>

\* publish_runtime_generation of the head of the worktree, which may be one that
\* was published before.
Compose(c) ==
    /\ At(c, "idle") /\ MayBegin
    /\ \E g \in Generation :
          call' = [call EXCEPT ![c] = [Idle EXCEPT !.step = "build",
                                                   !.verb = "compose",
                                                   !.generation = g]]
    /\ UNCHANGED <<records, running, acked>>

\* git refuses a path that it still has registered, so a collected one.
Build(c) ==
    /\ At(c, "build")
    /\ \/ dirs' = dirs \union {call[c].generation} /\ Goto(c, "payload")
       \/ call[c].generation \notin dirs /\ UNCHANGED dirs /\ Return(c)
    /\ UNCHANGED <<current, published, ledger, running, acked>>

\* A generation that does not load is left where it is.
Payload(c) ==
    /\ At(c, "payload")
    /\ \/ call[c].generation \in dirs /\ Goto(c, "load")
       \/ Return(c)
    /\ UNCHANGED <<records, running, acked>>

Kill(c) ==
    /\ Kills
    /\ ~At(c, "idle")
    /\ Return(c)
    /\ UNCHANGED <<records, running, acked>>

-----------------------------------------------------------------------------
(* Actors *)

\* Actors start on the current generation, midi also on the candidate to try it.
StartsOn(a) == {current} \union (IF a = Midi THEN {ledger.candidate} ELSE {})

Start(a) ==
    /\ \E g \in StartsOn(a) \intersect dirs : running' = [running EXCEPT ![a] = g]
    /\ UNCHANGED <<records, call, acked>>

Stop(a) ==
    /\ running' = [running EXCEPT ![a] = None]
    /\ UNCHANGED <<records, call, acked>>

-----------------------------------------------------------------------------

\* A host that publishes a first generation by hand, or none.
Init ==
    /\ current \in GenerationOrNone
    /\ published = current
    /\ dirs = {current} \ {None}
    /\ ledger = NoLedger
    /\ running = [a \in Actor |-> None]
    /\ call = [c \in Client |-> Idle]
    /\ acked = {}

Plan(c) == PlanAck(c) \/ PlanOccupancy(c) \/ PlanGc(c)
Promote(c) == Judge(c) \/ FindTarget(c) \/ Flip(c) \/ Publish(c)
Collect(c) == Check(c) \/ Remove(c)
Composing(c) == Compose(c) \/ Build(c) \/ Payload(c)

Verb(c) == Plan(c) \/ Apply(c) \/ Promote(c) \/ Collect(c)
Step(c) == Load(c) \/ Write(c) \/ Kill(c)

Next ==
    \/ \E c \in Operator : Verb(c)
    \/ Composing(Runtime)
    \/ \E c \in Client : Step(c)
    \/ \E a \in Actor : Start(a) \/ Stop(a)

Spec == Init /\ [][Next]_vars

-----------------------------------------------------------------------------
(* Properties *)

TypeOK ==
    /\ dirs \subseteq Generation
    /\ current \in GenerationOrNone
    /\ published \in GenerationOrNone
    /\ ledger \in Ledger
    /\ running \in [Actor -> GenerationOrNone]
    /\ call \in [Client -> Call]
    /\ acked \subseteq Generation

\* D4, "Fail-closed, no flip": the symlink and the published pointer move only to
\* a generation for which midi planned a pass that observed that very generation,
\* however candidates replace each other between plan, load and flip.
OnlyAckedGoesLive ==
    [][/\ current' # current => current' \in acked
       /\ published' # published => published' \in acked]_vars

\* D4: while a failed canary holds, nothing goes live.
NothingGoesLiveOnHold ==
    [][published' # published => ~HoldActive(ledger)]_vars

\* D4b: a ledger that says converged has every live row on what it promoted, also
\* when it was written from a stale copy. Rows are the live ones (a stopped or
\* retired row is no row here), and the converse is not claimed: a promotion says
\* rolling_out until the next occupancy or gc looks.
ConvergedIsSettled ==
    ledger.phase = "converged" =>
        \A a \in Actor : ledger.rows[a] \in {None, ledger.promoted}

\* D4: once the ledger says a candidate is rolling out, the symlink, the published
\* pointer and the ledger agree on it.
RolloutIsLive ==
    ledger.phase # "candidate" =>
        {ledger.promoted, published, current} = {ledger.candidate}

\* D3c: a directory is removed only if nothing retains it at that moment: it is
\* neither live, pointed at, the candidate, in a live row, nor being executed.
\* apply_deploy_gc asks before it removes; actors may start, stop and move to
\* another generation between the two, and since the plan was made.
OnlyGarbageIsCollected ==
    [][\A g \in dirs \ dirs' :
          /\ g \notin {current, published, ledger.candidate}
          /\ \A a \in Actor : running[a] # g /\ ledger.rows[a] # g]_vars

\* D4, the hold is for "prior fail on this candidate" and the failed candidate is
\* retained "until a later compose supersedes" it: a new candidate is not on hold.
NewCandidateIsNotHeld ==
    [][ledger'.candidate # ledger.candidate => ~HoldActive(ledger')]_vars

\* Applies and composes that do not overlap, killed anywhere, deploy in stages.
Stages == INSTANCE StagedDeploy WITH
    built <- dirs, candidate <- ledger.candidate, live <- published

DeploysInStages == Stages!Spec
=============================================================================
