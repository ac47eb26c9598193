--------------------------- MODULE MaintainerPass ---------------------------
(***************************************************************************)
(* One agent-backed operation as its maintainer driver runs it: the timer  *)
(* tick of dogfood/drivers/capability-run and runtime-run, the helpers of  *)
(* dogfood/lib/automation-wrapper they source, and the files of            *)
(* .systemd-ops/operations/<stem>/state/ those helpers and the verbs of    *)
(* src/automation.rs and src/operator.rs read and write.                   *)
(*                                                                         *)
(* Every write of a file, and every read whose result is used later, is a  *)
(* step of its own: drivers, the operator's release-park and the world     *)
(* interleave between any two of them.  Only .wake.lock excludes drivers,  *)
(* and only from the loop on.                                              *)
(***************************************************************************)
EXTENDS Integers

CONSTANTS
    Driver,          \* processes that may run the driver of this operation
    Nobody,          \* not a Driver: a free lock, a closed iteration
    Input,           \* effective input fingerprints
    Absent,          \* not an Input nor in Children: no value, no file
    GenerationOf,    \* the target generation hashed into a fingerprint
    WorldMoves,      \* <<i, j>>: the observed world may go from i to j
    Children,        \* joint revisions of the child operations
    ChildMoves,      \* <<c, e>>: the children may go from c to e
    ReadyChildren,   \* revisions at which the settlement gate opens
    BlockedChildren, \* revisions at which a blocked child opens runtime's gate
    DriverKind,      \* "capability" or "runtime"
    FailureBudget,   \* failures of one input before it is parked
    Cooldown,        \* clock ticks a crash park binds
    MaxPasses,       \* MAX_INTELLIGENT_PASSES
    Hazards          \* which of AllHazards this instance is exposed to

\* Agents that die, overrun or edit; drivers killed; an operator releasing
\* parks; a worktree, an addon, operator.json, a postcondition or
\* checkpoint.json that fails the driver.
AllHazards ==
    {"crash", "timeout", "edits", "kill", "release",
     "rebind", "provision", "surface", "postcondition", "checkpoint"}

ASSUME SetsAssumption ==
    /\ Nobody \notin Driver
    /\ Absent \notin Input
    /\ GenerationOf \in [Input -> Nat]
    /\ WorldMoves \subseteq Input \X Input
    /\ ChildMoves \subseteq Children \X Children
    /\ ReadyChildren \subseteq Children
    /\ BlockedChildren \subseteq Children
    /\ DriverKind = "capability" => BlockedChildren = {}

ASSUME BoundsAssumption ==
    /\ DriverKind \in {"capability", "runtime"}
    /\ FailureBudget \in Nat \ {0}
    /\ Cooldown \in Nat \ {0}
    /\ MaxPasses \in Nat \ {0}
    /\ Hazards \subseteq AllHazards

(***************************************************************************)
(* Release watch only ever advances the target generation.                 *)
(***************************************************************************)
ASSUME GenerationsAdvance ==
    \A m \in WorldMoves : GenerationOf[m[1]] <= GenerationOf[m[2]]

VARIABLES
    world,       \* the fingerprint an observer run now would produce
    children,    \* the children's joint revision now
    dirty,       \* the bound worktree has uncommitted or untracked files
    lost,        \* live drivers whose WORKTREE is no longer the bound one
    observation, \* observation.json
    processed,   \* processed.json
    checkpoint,  \* checkpoint.json
    blocker,     \* blocker.json
    budget,      \* failure-budget.json
    park,        \* operational-park.json, with the time since parked_at
    session,     \* operator.json: the open iteration and its report
    lock,        \* the holder of .wake.lock
    pc,          \* where each driver is
    reg,         \* each driver's shell variables
    release,     \* an operator's release-park in flight
    failed,      \* history: failed passes of an input since a budget clear
    cut          \* history: inputs whose records were last cut short

files == <<observation, processed, checkpoint, blocker, budget, park, session>>
environment == <<world, children, dirty, lost>>
vars == <<environment, files, lock, pc, reg, release, failed, cut>>

-----------------------------------------------------------------------------
(* Records *)

InputOrNone == Input \union {Absent}
FailureKind == {"crash", "timeout", "contract-failure"}
FailureKindOrNone == FailureKind \union {"none"}
Outcome == {"none", "ready", "blocked"}
BlockerKind ==
    {"none", "worktree", "native-provisioning", "iteration-failed",
     "semantic-blocked", "stale-generation", "postcondition-failed"}

NoProcessed == [input |-> Absent, outcome |-> "none"]
NoCheckpoint == [input |-> Absent, generation |-> 0]
NoBlocker == [kind |-> "none", input |-> Absent]
NoBudget == [input |-> Absent, failures |-> 0, kind |-> "none"]
NoPark == [input |-> Absent, kind |-> "none", age |-> 0]
NoSession == [owner |-> Nobody, report |-> "none"]
NoRelease == [step |-> "idle", clears |-> FALSE]

Processed == [input : InputOrNone, outcome : Outcome]
Checkpoint == [input : InputOrNone, generation : Nat]
Blocker == [kind : BlockerKind, input : InputOrNone]
Budget ==
    [input : InputOrNone, failures : 0..FailureBudget, kind : FailureKindOrNone]
Park == [input : InputOrNone, kind : FailureKindOrNone, age : 0..Cooldown]
Session == [owner : Driver \union {Nobody}, report : Outcome]
Release == [step : {"idle", "read", "unlink"}, clears : BOOLEAN]

Registers ==
    [wake : InputOrNone, post : InputOrNone, generation : Nat,
     child : Children \union {Absent}, passes : 0..MaxPasses, kind : FailureKindOrNone,
     outcome : Outcome, childMoved : BOOLEAN, generationMoved : BOOLEAN]

\* The registers of a driver that is not running.
NoRegisters ==
    [wake |-> Absent, post |-> Absent, generation |-> 0,
     child |-> Absent, passes |-> 0, kind |-> "none",
     outcome |-> "none", childMoved |-> FALSE, generationMoved |-> FALSE]

BeforeLock == {"clean", "unblock", "unpark", "precheck", "lock"}
InPass == {"launch", "agent", "finish"}
Failing == {"count", "complain", "concede", "park"}
Judging ==
    {"context", "generation", "observe", "judge", "upstream", "certify"}
Certifying ==
    {"processed", "checkpoint", "unblocked", "semantic", "budget", "parked"}
\* From the processed record on, until the checkpoint has dropped the blocker.
Recording == {"checkpoint", "unblocked"}
Locked == {"loop", "observed"} \union InPass \union Failing \union Judging
              \union Certifying
Label == {"idle"} \union BeforeLock \union Locked

-----------------------------------------------------------------------------
(* Reading the files *)

\* Variant of ParkBinds without the cooldown.
ParkBindsForever(i) == park.input = i

\* input_matches_operational_park: a crash park binds until it has cooled down.
ParkBinds(i) ==
    /\ park.input = i
    /\ park.kind = "crash" => park.age < Cooldown

IsProcessed(i) == processed.input = i

\* What both checks of a tick let through.
IsDue(i) == ~IsProcessed(i) /\ ~ParkBinds(i)

\* Variant of FailureCount that counts a failure nobody had.
CountFromOne(i) == IF budget.input = i THEN budget.failures ELSE 1

\* failure_budget_count: a count kept for another fingerprint is no count.
FailureCount(i) == IF budget.input = i THEN budget.failures ELSE 0

\* capability_release_gate, or runtime's READY-or-blocked gate.
GateOpens(c) == c \in ReadyChildren \union BlockedChildren

\* park_owns_blocker, on the two records as they are now.
ParkOwnsBlocker ==
    blocker.kind = "iteration-failed" /\ blocker.input = park.input

\* Variant of PassesLeft, off by one.
PassesLeftAndOne(d) == reg[d].passes <= MaxPasses

PassesLeft(d) == reg[d].passes < MaxPasses

\* Variant of TargetMoved for a driver that does not resolve the target again.
TargetStays(d) == FALSE

TargetMoved(d) == GenerationOf[world] # reg[d].generation

Capped(n) == IF n < FailureBudget THEN n ELSE FailureBudget

-----------------------------------------------------------------------------
(* Moving a driver *)

Goto(d, label) == pc' = [pc EXCEPT ![d] = label]

\* The driver process is gone: flock frees its lock with its descriptors.
Leave(d) ==
    /\ pc' = [pc EXCEPT ![d] = "idle"]
    /\ reg' = [reg EXCEPT ![d] = NoRegisters]
    /\ lock' = IF lock = d THEN Nobody ELSE lock
    /\ lost' = lost \ {d}

Stay == UNCHANGED <<lock, lost>>

RecordBlocker(kind, i) == blocker' = [kind |-> kind, input |-> i]

\* record_blocker and exit: nothing is certified and no failure is counted.
Refuse(d, kind) ==
    /\ RecordBlocker(kind, reg[d].post)
    /\ Leave(d)
    /\ UNCHANGED <<world, children, dirty, observation, processed, checkpoint,
                   budget, park, session, release, failed>>

-----------------------------------------------------------------------------
(* The tick up to the lock *)

\* The timer starts the service, or somebody runs the driver by hand.
Wake(d) ==
    /\ pc[d] = "idle"
    /\ Goto(d, "clean")
    /\ UNCHANGED <<environment, files, lock, reg, release, failed, cut>>

\* ensure_clean_worktree on a tree that needs no recovery.
FindClean(d) ==
    /\ pc[d] = "clean"
    /\ ~dirty /\ d \notin lost
    /\ Goto(d, "precheck")
    /\ UNCHANGED <<environment, files, lock, reg, release, failed, cut>>

\* recover_worktree up to the rebind: the operation's cwd is a new clean tree,
\* and every other live driver keeps the old one in WORKTREE.
Rebind(d) ==
    /\ pc[d] = "clean"
    /\ dirty \/ d \in lost
    /\ dirty' = FALSE
    /\ lost' = {e \in Driver : e # d /\ pc[e] # "idle"}
    /\ Goto(d, "unblock")
    /\ UNCHANGED <<world, children, files, lock, reg, release, failed, cut>>

\* The rest of recover_worktree: clear-blocker, then the park sidecar.
RecoverClearsBlocker(d) ==
    /\ pc[d] = "unblock"
    /\ blocker' = NoBlocker
    /\ Goto(d, "unpark")
    /\ UNCHANGED <<environment, observation, processed, checkpoint, budget,
                   park, session, lock, reg, release, failed, cut>>

RecoverRemovesPark(d) ==
    /\ pc[d] = "unpark"
    /\ park' = NoPark
    /\ Goto(d, "precheck")
    /\ UNCHANGED <<environment, observation, processed, checkpoint, blocker,
                   budget, session, lock, reg, release, failed, cut>>

\* No replacement tree, or no addon or modules in it: record_blocker without an
\* input, which binds whatever observation.json holds.
EnsureFails(d) ==
    /\ \/ /\ "rebind" \in Hazards
          /\ pc[d] = "clean"
          /\ dirty \/ d \in lost
          /\ RecordBlocker("worktree", observation)
       \/ /\ "provision" \in Hazards
          /\ pc[d] = "precheck"
          /\ RecordBlocker("native-provisioning", observation)
    /\ Leave(d)
    /\ UNCHANGED <<world, children, dirty, observation, processed, checkpoint,
                   budget, park, session, release, failed, cut>>

\* The first observation: an input processed or parked ends the tick here.
Precheck(d) ==
    /\ pc[d] = "precheck"
    /\ observation' = world
    /\ IF IsDue(world)
       THEN Goto(d, "lock") /\ Stay /\ UNCHANGED reg
       ELSE Leave(d)
    /\ UNCHANGED <<world, children, dirty, processed, checkpoint, blocker,
                   budget, park, session, release, failed, cut>>

\* Variant of TryLock that goes on whether or not it got the lock.
GoOnUnlocked(d) ==
    /\ pc[d] = "lock"
    /\ lock' = d
    /\ Goto(d, "loop")
    /\ UNCHANGED <<environment, files, reg, release, failed, cut>>

\* flock -n on .wake.lock: whoever does not get it exits.
TryLock(d) ==
    /\ pc[d] = "lock"
    /\ IF lock = Nobody
       THEN lock' = d /\ Goto(d, "loop") /\ UNCHANGED <<lost, reg>>
       ELSE Leave(d)
    /\ UNCHANGED <<world, children, dirty, files, release, failed, cut>>

-----------------------------------------------------------------------------
(* One pass of the loop *)

\* The target generation and the context's children, both read before the input.
LoopHead(d) ==
    /\ pc[d] = "loop"
    /\ IF PassesLeft(d)
       THEN /\ reg' = [reg EXCEPT ![d] =
                          [NoRegisters EXCEPT !.passes = reg[d].passes,
                                              !.generation = GenerationOf[world],
                                              !.child = children]]
            /\ Goto(d, "observed")
            /\ Stay
       ELSE Leave(d)
    /\ UNCHANGED <<world, children, dirty, files, release, failed, cut>>

\* Variant of LoopObserve that trusts the checks made before the lock.
ObserveOnce(d) ==
    /\ pc[d] = "observed"
    /\ observation' = world
    /\ reg' = [reg EXCEPT ![d].wake = world]
    /\ Goto(d, "launch")
    /\ UNCHANGED <<environment, processed, checkpoint, blocker, budget, park,
                   session, lock, release, failed, cut>>

\* The second observation, and the same two checks, now under the lock.
LoopObserve(d) ==
    /\ pc[d] = "observed"
    /\ observation' = world
    /\ IF IsDue(world)
       THEN /\ reg' = [reg EXCEPT ![d].wake = world]
            /\ Goto(d, "launch")
            /\ Stay
       ELSE Leave(d)
    /\ UNCHANGED <<world, children, dirty, processed, checkpoint, blocker,
                   budget, park, session, release, failed, cut>>

\* The gate, on the context read at the loop head, then iteration-start, which
\* abandons an iteration a killed driver left open.
Launch(d) ==
    /\ pc[d] = "launch"
    /\ IF GateOpens(reg[d].child)
       THEN /\ session' = [owner |-> d, report |-> "none"]
            /\ reg' = [reg EXCEPT ![d].passes = @ + 1]
            /\ Goto(d, "agent")
            /\ Stay
       ELSE Leave(d) /\ UNCHANGED session
    /\ UNCHANGED <<world, children, dirty, observation, processed, checkpoint,
                   blocker, budget, park, release, failed, cut>>

\* The agent edits and commits in the tree its driver gave it, which is the
\* bound one unless somebody has rebound it since.
AgentEdits(d) ==
    /\ "edits" \in Hazards
    /\ pc[d] = "agent"
    /\ d \notin lost
    /\ dirty' = ~dirty
    /\ UNCHANGED <<world, children, lost, files, lock, pc, reg, release, failed, cut>>

\* automation_report; a second report replaces the first.
AgentReports(d) ==
    /\ pc[d] = "agent"
    /\ session.owner = d
    /\ \E o \in {"ready", "blocked"} : session' = [session EXCEPT !.report = o]
    /\ UNCHANGED <<environment, observation, processed, checkpoint, blocker,
                   budget, park, lock, pc, reg, release, failed, cut>>

\* The agent process ends: by itself, at --max-time (124) or by dying.
AgentExits(d) ==
    /\ pc[d] = "agent"
    /\ \E k \in {"none"} \union (Hazards \intersect {"timeout", "crash"}) :
          reg' = [reg EXCEPT ![d].kind = k]
    /\ Goto(d, "finish")
    /\ UNCHANGED <<environment, files, lock, release, failed, cut>>

\* capability-run reports READY itself for a pass that exited 0 with nothing to
\* report, when the clean tree already holds the target generation.
SelfReport(d) ==
    /\ DriverKind = "capability"
    /\ pc[d] = "finish"
    /\ reg[d].kind = "none"
    /\ session = [owner |-> d, report |-> "none"]
    /\ d \notin lost => ~dirty
    /\ session' = [session EXCEPT !.report = "ready"]
    /\ UNCHANGED <<environment, observation, processed, checkpoint, blocker,
                   budget, park, lock, pc, reg, release, failed, cut>>

\* iteration-finish closes the pass's own iteration, or cannot write
\* operator.json.  Exit 0 with a report is a reconsolidated pass; everything else
\* is a failure of one of three kinds.
Finish(d, closes) ==
    LET kind == CASE reg[d].kind # "none" -> reg[d].kind
                  [] ~closes -> "crash"
                  [] session.report = "none" -> "contract-failure"
                  [] OTHER -> "none"
    IN  /\ pc[d] = "finish"
        /\ closes \/ "surface" \in Hazards
        /\ session' = IF closes THEN NoSession ELSE session
        /\ reg' = [reg EXCEPT ![d].kind = kind,
                              ![d].outcome = IF kind = "none"
                                             THEN session.report ELSE "none"]
        /\ IF kind = "none"
           THEN Goto(d, "context") /\ UNCHANGED failed
           ELSE /\ Goto(d, "count")
                /\ failed' = [failed EXCEPT ![reg[d].wake] = Capped(@ + 1)]
        /\ UNCHANGED <<environment, observation, processed, checkpoint, blocker,
                       budget, park, lock, release, cut>>

-----------------------------------------------------------------------------
(* A failed pass *)

\* record_attempt_failure
CountFailure(d) ==
    /\ pc[d] = "count"
    /\ budget' = [input |-> reg[d].wake, kind |-> reg[d].kind,
                  failures |-> Capped(FailureCount(reg[d].wake) + 1)]
    /\ Goto(d, "complain")
    /\ UNCHANGED <<environment, observation, processed, checkpoint, blocker,
                   park, session, lock, reg, release, failed, cut>>

\* The failure's own blocker; under the budget the driver exits with its code.
Complain(d) ==
    /\ pc[d] = "complain"
    /\ RecordBlocker("iteration-failed", reg[d].wake)
    /\ IF budget.failures >= FailureBudget
       THEN Goto(d, "concede") /\ Stay /\ UNCHANGED reg
       ELSE Leave(d)
    /\ UNCHANGED <<world, children, dirty, observation, processed, checkpoint,
                   budget, park, session, release, failed, cut>>

\* park_identical_input: the park's blocker, then the sidecar.
Concede(d) ==
    /\ pc[d] = "concede"
    /\ RecordBlocker("iteration-failed", reg[d].wake)
    /\ Goto(d, "park")
    /\ UNCHANGED <<environment, observation, processed, checkpoint, budget,
                   park, session, lock, reg, release, failed, cut>>

\* Variant of RecordPark without the sidecar: the blocker alone.
RecordNoPark(d) ==
    /\ pc[d] = "park"
    /\ Leave(d)
    /\ UNCHANGED <<world, children, dirty, files, release, failed, cut>>

RecordPark(d) ==
    /\ pc[d] = "park"
    /\ park' = [input |-> reg[d].wake, kind |-> reg[d].kind, age |-> 0]
    /\ Leave(d)
    /\ UNCHANGED <<world, children, dirty, observation, processed, checkpoint,
                   blocker, budget, session, release, failed, cut>>

-----------------------------------------------------------------------------
(* A reconsolidated pass *)

\* The context after the pass: did the children move?
PostContext(d) ==
    /\ pc[d] = "context"
    /\ reg' = [reg EXCEPT ![d].childMoved = (children # reg[d].child)]
    /\ Goto(d, IF DriverKind = "capability" THEN "generation" ELSE "observe")
    /\ UNCHANGED <<environment, files, lock, release, failed, cut>>

\* The target generation after the pass.  capability-run resolves it before the
\* post-input is observed, runtime-run after.
PostGeneration(d) ==
    /\ pc[d] \in {"generation", "upstream"}
    /\ reg' = [reg EXCEPT ![d].generationMoved = TargetMoved(d)]
    /\ Goto(d, IF pc[d] = "generation" THEN "observe" ELSE "certify")
    /\ UNCHANGED <<environment, files, lock, release, failed, cut>>

\* The input the pass is about to be recorded against.
PostObserve(d) ==
    /\ pc[d] = "observe"
    /\ observation' = world
    /\ reg' = [reg EXCEPT ![d].post = world]
    /\ Goto(d, "judge")
    /\ UNCHANGED <<environment, processed, checkpoint, blocker, budget, park,
                   session, lock, release, failed, cut>>

\* Children moved: another pass.  BLOCKED: record it.  READY: on to the
\* postconditions, where runtime wants every child READY and not just settled.
Judge(d) ==
    /\ pc[d] = "judge"
    /\ \/ reg[d].childMoved /\ Goto(d, "loop")
       \/ /\ ~reg[d].childMoved /\ reg[d].outcome = "blocked"
          /\ Goto(d, "processed")
       \/ /\ ~reg[d].childMoved /\ reg[d].outcome = "ready"
          /\ DriverKind = "capability"
          /\ Goto(d, "certify")
       \/ /\ ~reg[d].childMoved /\ reg[d].outcome = "ready"
          /\ DriverKind = "runtime" /\ reg[d].child \in ReadyChildren
          /\ Goto(d, "upstream")
    /\ UNCHANGED <<environment, files, lock, reg, release, failed, cut>>

RefuseChildren(d) ==
    /\ pc[d] = "judge"
    /\ ~reg[d].childMoved /\ reg[d].outcome = "ready"
    /\ DriverKind = "runtime" /\ reg[d].child \notin ReadyChildren
    /\ Refuse(d, "postcondition-failed")
    /\ UNCHANGED cut

RefuseGeneration(d) ==
    /\ pc[d] = "certify"
    /\ reg[d].generationMoved
    /\ Refuse(d, "stale-generation")
    /\ UNCHANGED cut

\* HEAD lacks the target, desired inputs are unconsumed, or publish failed.
RefusePostcondition(d) ==
    /\ "postcondition" \in Hazards
    /\ pc[d] = "certify"
    /\ ~reg[d].generationMoved
    /\ Refuse(d, "postcondition-failed")
    /\ UNCHANGED cut

Accept(d) ==
    /\ pc[d] = "certify"
    /\ ~reg[d].generationMoved
    /\ Goto(d, "processed")
    /\ UNCHANGED <<environment, files, lock, reg, release, failed, cut>>

\* Variant of MarkProcessed that records the input the tick woke for.
MarkWakeProcessed(d) ==
    /\ pc[d] = "processed"
    /\ processed' = [input |-> reg[d].wake, outcome |-> reg[d].outcome]
    /\ Goto(d, IF reg[d].outcome = "ready" THEN "checkpoint" ELSE "semantic")
    /\ UNCHANGED <<environment, observation, checkpoint, blocker, budget, park,
                   session, lock, reg, release, failed, cut>>

\* automation process
MarkProcessed(d) ==
    /\ pc[d] = "processed"
    /\ processed' = [input |-> reg[d].post, outcome |-> reg[d].outcome]
    /\ Goto(d, IF reg[d].outcome = "ready" THEN "checkpoint" ELSE "semantic")
    /\ UNCHANGED <<environment, observation, checkpoint, blocker, budget, park,
                   session, lock, reg, release, failed, cut>>

\* automation checkpoint: checkpoint.json, then the blocker's removal.
WriteCheckpoint(d) ==
    /\ pc[d] = "checkpoint"
    /\ checkpoint' = [input |-> reg[d].post, generation |-> reg[d].generation]
    /\ Goto(d, "unblocked")
    /\ UNCHANGED <<environment, observation, processed, blocker, budget, park,
                   session, lock, reg, release, failed, cut>>

\* Variant of CheckpointDropsBlocker that leaves blocker.json behind.
CheckpointKeepsBlocker(d) ==
    /\ pc[d] = "unblocked"
    /\ Goto(d, "budget")
    /\ UNCHANGED <<environment, files, lock, reg, release, failed, cut>>

CheckpointDropsBlocker(d) ==
    /\ pc[d] = "unblocked"
    /\ blocker' = NoBlocker
    /\ cut' = cut \ {reg[d].post}
    /\ Goto(d, "budget")
    /\ UNCHANGED <<environment, observation, processed, checkpoint, budget,
                   park, session, lock, reg, release, failed>>

CheckpointFails(d) ==
    /\ "checkpoint" \in Hazards
    /\ pc[d] = "checkpoint"
    /\ Refuse(d, "postcondition-failed")
    /\ cut' = cut \union {reg[d].post}

\* record_blocker semantic-blocked
RecordSemanticBlocker(d) ==
    /\ pc[d] = "semantic"
    /\ RecordBlocker("semantic-blocked", reg[d].post)
    /\ Goto(d, "budget")
    /\ UNCHANGED <<environment, observation, processed, checkpoint, budget,
                   park, session, lock, reg, release, failed, cut>>

\* clear_failure_budget: the budget, then the park sidecar.
ClearBudget(d) ==
    /\ pc[d] = "budget"
    /\ budget' = NoBudget
    /\ Goto(d, "parked")
    /\ UNCHANGED <<environment, observation, processed, checkpoint, blocker,
                   park, session, lock, reg, release, failed, cut>>

ClearPark(d) ==
    /\ pc[d] = "parked"
    /\ park' = NoPark
    /\ failed' = [i \in Input |-> 0]
    /\ Leave(d)
    /\ UNCHANGED <<world, children, dirty, observation, processed, checkpoint,
                   blocker, budget, session, release, cut>>

-----------------------------------------------------------------------------
(* Kills, the operator, the world *)

\* The driver's process group dies between two writes, or takes one of the
\* `|| exit $?` paths, which leave exactly as much behind.  The two sidecars
\* written by a plain redirection may be left truncated: no record.
Kill(d) ==
    /\ "kill" \in Hazards
    /\ pc[d] # "idle"
    /\ budget' \in {budget} \union (IF pc[d] = "count" THEN {NoBudget} ELSE {})
    /\ park' \in {park} \union (IF pc[d] = "park" THEN {NoPark} ELSE {})
    /\ cut' = cut \union (IF pc[d] \in Recording THEN {reg[d].post} ELSE {})
    /\ Leave(d)
    /\ UNCHANGED <<world, children, dirty, observation, processed, checkpoint,
                   blocker, session, release, failed>>

\* release_park: everything that can refuse is read first...
ReleaseReads ==
    /\ "release" \in Hazards
    /\ release.step = "idle"
    /\ park.input # Absent
    /\ release' = [step |-> "read", clears |-> ParkOwnsBlocker]
    /\ UNCHANGED <<environment, files, lock, pc, reg, failed, cut>>

\* ...then the park's own blocker goes; a blocker gone meanwhile ends the verb...
ReleaseClearsBlocker ==
    /\ release.step = "read"
    /\ IF release.clears
       THEN blocker' = NoBlocker
       ELSE UNCHANGED blocker
    /\ release' = IF release.clears /\ blocker = NoBlocker
                  THEN NoRelease
                  ELSE [release EXCEPT !.step = "unlink"]
    /\ UNCHANGED <<environment, observation, processed, checkpoint, budget,
                   park, session, lock, pc, reg, failed, cut>>

\* ...and the park last.
ReleaseRemovesPark ==
    /\ release.step = "unlink"
    /\ park' = NoPark
    /\ release' = NoRelease
    /\ UNCHANGED <<environment, observation, processed, checkpoint, blocker,
                   budget, session, lock, pc, reg, failed, cut>>

\* Upstream, reviewers, the agent's own commits, release watch.
WorldMovesOn ==
    /\ \E i \in Input : <<world, i>> \in WorldMoves /\ world' = i
    /\ UNCHANGED <<children, dirty, lost, files, lock, pc, reg, release, failed, cut>>

ChildrenMoveOn ==
    /\ \E c \in Children : <<children, c>> \in ChildMoves /\ children' = c
    /\ UNCHANGED <<world, dirty, lost, files, lock, pc, reg, release, failed, cut>>

\* The wall clock.  Only a crash park is ever compared with it.
ClockTicks ==
    /\ park.kind = "crash" /\ park.age < Cooldown
    /\ park' = [park EXCEPT !.age = @ + 1]
    /\ UNCHANGED <<environment, observation, processed, checkpoint, blocker,
                   budget, session, lock, pc, reg, release, failed, cut>>

-----------------------------------------------------------------------------
Init ==
    /\ world \in Input
    /\ children \in Children
    /\ dirty = FALSE
    /\ lost = {}
    /\ observation = Absent
    /\ processed = NoProcessed
    /\ checkpoint = NoCheckpoint
    /\ blocker = NoBlocker
    /\ budget = NoBudget
    /\ park = NoPark
    /\ session = NoSession
    /\ lock = Nobody
    /\ pc = [d \in Driver |-> "idle"]
    /\ reg = [d \in Driver |-> NoRegisters]
    /\ release = NoRelease
    /\ failed = [i \in Input |-> 0]
    /\ cut = {}

BeforePass(d) ==
    \/ Wake(d) \/ FindClean(d) \/ Rebind(d) \/ RecoverClearsBlocker(d)
    \/ RecoverRemovesPark(d) \/ EnsureFails(d) \/ Precheck(d) \/ TryLock(d)
    \/ LoopHead(d) \/ LoopObserve(d) \/ Launch(d)

Agent(d) == AgentEdits(d) \/ AgentReports(d) \/ AgentExits(d)

FailPass(d) == CountFailure(d) \/ Complain(d) \/ Concede(d) \/ RecordPark(d)

JudgePass(d) ==
    \/ PostContext(d) \/ PostGeneration(d) \/ PostObserve(d) \/ Judge(d)
    \/ RefuseChildren(d) \/ RefuseGeneration(d) \/ RefusePostcondition(d)
    \/ Accept(d)

CertifyPass(d) ==
    \/ MarkProcessed(d) \/ WriteCheckpoint(d) \/ CheckpointDropsBlocker(d)
    \/ CheckpointFails(d) \/ RecordSemanticBlocker(d)
    \/ ClearBudget(d) \/ ClearPark(d)

DriverStep(d) ==
    \/ BeforePass(d) \/ Agent(d) \/ SelfReport(d)
    \/ \E closes \in BOOLEAN : Finish(d, closes)
    \/ FailPass(d) \/ JudgePass(d) \/ CertifyPass(d)

OperatorStep == ReleaseReads \/ ReleaseClearsBlocker \/ ReleaseRemovesPark

Next ==
    \/ \E d \in Driver : DriverStep(d) \/ Kill(d)
    \/ OperatorStep
    \/ WorldMovesOn \/ ChildrenMoveOn \/ ClockTicks

Spec == Init /\ [][Next]_vars

-----------------------------------------------------------------------------
(* Type invariant and safety *)

\* Every file holds a record of its own format and every driver is at a label
\* of the driver script with shell variables of the right sort.
TypeOK ==
    /\ world \in Input
    /\ children \in Children
    /\ dirty \in BOOLEAN
    /\ lost \in SUBSET Driver
    /\ observation \in InputOrNone
    /\ processed \in Processed
    /\ checkpoint \in Checkpoint
    /\ blocker \in Blocker
    /\ budget \in Budget
    /\ park \in Park
    /\ session \in Session
    /\ lock \in Driver \union {Nobody}
    /\ pc \in [Driver -> Label]
    /\ reg \in [Driver -> Registers]
    /\ release \in Release
    /\ failed \in [Input -> 0..FailureBudget]
    /\ cut \in SUBSET InputOrNone

\* .wake.lock admits one driver to everything from the loop on, also when a
\* driver is killed and its lock freed by the kernel.
OnePassAtATime ==
    \A d, e \in Driver : pc[d] \in Locked /\ pc[e] \in Locked => d = e

\* No agent is ever running on an input that is processed or that a park binds:
\* the checks of a tick are stale the moment they are made, and the second pair,
\* under the lock, is what makes them last until the pass ends.
NoPassOnSettledInput ==
    \A d \in Driver : pc[d] \in InPass => IsDue(reg[d].wake)

\* An input is parked only after FAILURE_BUDGET failed passes on that very
\* input since the budget was last cleared, through kills, torn sidecars,
\* releases and moves of the world to other inputs and back.
ParkIsEarned ==
    park.input # Absent => failed[park.input] = FailureBudget

\* A checkpoint binds an input to the generation that input was observed at:
\* both drivers mean to refuse a checkpoint when the target generation advanced
\* during maintenance (capability-run:311-315, runtime-run:319-324).
CheckpointAgrees ==
    checkpoint.input # Absent =>
        checkpoint.generation = GenerationOf[checkpoint.input]

\* `automation process` marks an input READY before `automation checkpoint` writes
\* its checkpoint and drops its blocker, and from the first of the three on no tick
\* looks at it again. Whatever drivers, releases, refusals and moves of the world
\* come between and after: while nobody holds the lock, the READY input has its
\* checkpoint and no failed pass or BLOCKED report is shown of it, unless a driver
\* was stopped on it between the first and the last (capability-run:330-334), by a
\* kill or a checkpoint that failed.
ReadyUnlessCut ==
    lock = Nobody /\ processed.outcome = "ready" /\ processed.input \notin cut =>
        /\ checkpoint.input = processed.input
        /\ blocker.input = processed.input =>
               blocker.kind \notin {"iteration-failed", "semantic-blocked"}

\* While nobody holds the lock, an input every tick skips as processed READY
\* shows as READY: its checkpoint is there, at its generation, with no blocker
\* bound to the input.
SkippedReadyIsCertified ==
    lock = Nobody /\ processed.outcome = "ready" =>
        /\ checkpoint.input = processed.input
        /\ checkpoint.generation = GenerationOf[processed.input]
        /\ blocker.input # processed.input

\* README.md:153: release-park "keeps the failure budget (one attempt, then
\* re-park on failure)", and so does a crash park that has cooled down
\* (automation-wrapper:671-672): a failed attempt at a parked input re-parks it.
OneAttemptThenRepark ==
    [][\A d \in Driver :
          pc[d] = "complain" /\ pc'[d] # "complain" /\ park.input = reg[d].wake
              => pc'[d] = "concede"]_vars

-----------------------------------------------------------------------------
(* Liveness *)

\* The steps a running driver does not choose to make.  A timer keeps waking
\* it, flock and the file verbs return, and --max-time ends the agent.
Progress(d) ==
    \/ BeforePass(d) \/ AgentExits(d)
    \/ \E closes \in BOOLEAN : Finish(d, closes)
    \/ FailPass(d) \/ JudgePass(d) \/ CertifyPass(d)

FairSpec ==
    /\ Spec
    /\ \A d \in Driver : WF_vars(Progress(d))
    /\ WF_vars(ClockTicks)

\* However agents behave, an input the world stays at is again and again found
\* processed or parked, unless the children keep the gate shut: retries of an
\* unchanged input are bounded.
RetriesEnd ==
    []<>(IsProcessed(world) \/ ParkBinds(world) \/ ~GateOpens(children))

\* A crash park is not for ever: while the world stays at the parked input and
\* the gate is open, the input gets another pass.
CrashParkIsRetried ==
    \A i \in Input :
        (park.input = i /\ park.kind = "crash" /\ world = i)
            ~> \/ world # i
               \/ ~GateOpens(children)
               \/ park.input # i \/ park.kind # "crash"
               \/ \E d \in Driver : pc[d] = "agent" /\ reg[d].wake = i
=============================================================================
