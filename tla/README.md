# systemd-ops: verification project

TLA+ models of `systemd-ops`, the TLC runs that check them on small instances, and proofs
about them that TLAPS checks for every value of the constants. Paths are relative to
`src/`, the repository root; `src/automation.rs` below is `src/src/automation.rs` there.

## 1. The system

`systemd-ops` is a Rust crate (a CLI, an MCP server, a terminal console) and a set of bash drivers under
`dogfood/`. Systemd timers wake *operations*; an operation keeps JSON files under
`.systemd-ops/operations/<stem>/state/`; its driver decides whether its input is new and, if
so, runs an agent on it and records the outcome. There is no daemon: everything that
happens is a process that reads a few files, decides, and renames new files into place.
So nearly every hazard is about what another process did between a read and the write, or the
display, that depends on it, or about what a killed process left behind.

| component | state | operations | correctness |
|---|---|---|---|
| **maintainer drivers** `capability-run`, `runtime-run`, `automation-wrapper` | `.wake.lock`, `failure-budget.json`, `operational-park.json`, the bound worktree, shell variables | one timer tick: clean the worktree, skip settled inputs, lock, up to `MAX_INTELLIGENT_PASSES` agent passes, judge, process, checkpoint | one pass at a time; no agent on a settled input; a park is earned; retries end; the checkpoint is of the input it names |
| **review drivers** `pr-run`, `pr-attempt` | attempt record per head | the same skeleton without a generation | one attempt per head |
| **automation state verbs** `automation.rs` observe/process/checkpoint/blocker | `observation`, `processed`, `checkpoint`, `blocker.json` | called by the drivers; each is one atomic rename, checkpoint also removes the blocker | a checkpoint follows its processed record; a READY input ends without a blocker |
| **operator surface** `operator.rs` | `operator.json`, its legacy twin | iteration-start/-finish, report, set, append, activity, release-park, clear | reconsolidated means reported; a finish closes its own iteration |
| **deployment ledger** `automation.rs` deploy verbs, `runtime-run`, `runtime-promote` | `deployment.json`, `published-generation.json`, runtime symlink, generation directories | candidate, canary-ack, promote, occupancy, converged, gc | what is live was acknowledged; nothing occupied is collected; a promotion killed half-way leaves a ledger that does not claim more than is live |
| **plan/apply** `token.rs`, `operations.rs`, `write.rs` | sealed plans, unit files | plan seals a snapshot under an HMAC; apply checks it and writes | apply does only what was planned, only on what was planned |
| **authoring** `operations.rs` specs, `get_operation` | none but the unit files | a spec is rendered into unit files, an editable spec read back from them | an edit of one field keeps the rest |
| **metadata, parent tree, lifecycle** `automation.rs` | `automation.toml`, `lifecycle.json` | plan-create, -update, -retire, -complete, notify-parent | no dangling parent; completed means the timer is off |
| **desired-input admission, normalisation** `automation.rs` | `desired-inputs.json`, worktrees | plan-admit, plan-normalize-pr, plan-normalize-capability and their applies | an input is admitted once, against the list its plan saw; a worktree goes after its operation |
| **scope and semantic state** `scope.rs`, `automation.rs` | derived | `scope show`: manifest, units, join, states, health, attention | what is shown was so; ready, waiting, blocked agree with the files; nothing failed is silent |
| **systemd backend** `systemd.rs` | a cache per view | list, batch, show | an answer is the asked unit's and belongs to this view |
| **terminal console** `tui.rs` | list, filter, drawer, gate, two channels, one worker thread | keys, refresh timer, jobs and answers | one job at a time; no outdated answer is shown; the screen catches up |
| **PR settlement, severity** `pr-settlement`, `pr-review-state` | `critical-consumed.json`, windows | settle, critical-clear | settled means quiet; an episode is consumed once |
| **capability requests** `automation.rs` | a file per request | request, list, resolve | nothing else reads them |
| **release watch, branch sync** | git refs | advance the target | environment of the drivers |
| **notifications** `system-notify` | none | bounded best-effort send | a failure never stops a driver |
| **config, MCP and CLI frontends, json, sha256** | none after start-up | parse, read, print | not state machines |

Interactions: a driver *calls* the state verbs and the operator verbs as subprocesses, and
through the file system *shares* `operator.json` with the agent (which reports) and with the
operator (who appends, sets, releases a park). The parent's observer reads the children's files,
so a child's progress changes the parent's input fingerprint. Release watch moves the target
generation, which is hashed into the fingerprint. `scope show`, on which the console and the MCP
server are built, reads all of these files, unlocked, while they are written. `flock` on
`.wake.lock` is the only lock, and it covers a driver from its loop on, not what precedes it and
not the verbs an operator runs.

Hard behaviours, by line, are the `hazards` of `PROJECT.json`.

## 2. Modules

| module | what it is |
|---|---|
| `MaintainerPass` | one operation's tick, its files, its driver processes, agent, operator and world |
| `OperatorSurface`, `IterationLedger` | `operator.json` and its verbs, for any number of clients; what the README promises of iterations |
| `Deployment`, `StagedDeploy` | the deployment records, the deploy verbs, runtime-run's compose, midi and the actors; what staged deployment promises |
| `PlanApply`, `CheckedStore` | sealed plans of create, update, retire, complete and unit control, and their applies; what plan/apply promises |
| `Authoring` | specs, unit files and the editable spec read back from them |
| `Intake`, `Admissions` | admissions and normalisations; what the desired inputs promise |
| `ScopeView` | `scope show` over operations whose drivers write meanwhile |
| `ViewCache`, `UnitReads` | the cached and batched property reads of a view; what a read promises |
| `Console` | the terminal console, its UI thread and its worker |
| `MC…` | an instance of each for TLC |
| `…Proofs` | the theorems about `MaintainerPass`, `OperatorSurface`, `Deployment`, `PlanApply`, `Intake`, `ViewCache`, `Console` and `ScopeView`; those about `Authoring` are in `PlanApplyProofs` |

`Intake` treats the plans of `PlanApply` as tokens that may be applied at any time; `ScopeView` has the
drivers of `MaintainerPass` as far as they write files, and treats the answers of `ViewCache` as given;
`Console` treats what `ScopeView` computes as a snapshot. So each of the larger modules stands on what
a smaller one establishes, and none has to be checked in the product of the others.

### MaintainerPass

*Processes.* `Driver` is a set of processes that may run the driver of the one operation (the
timer's unit and an operator's manual run). `pc[d]` is the place in the script and `reg[d]` its
shell variables. Each write of a file and each read whose value is used later is an action, so
everything else can happen between any two of them: `Kill(d)`, the other drivers, `release-park`
(itself three steps), `WorldMovesOn` (the world, including what release watch does),
`ChildrenMoveOn` and `ClockTicks`.

*Data.* A fingerprint is a model value, `GenerationOf` gives the target generation hashed into
it. `ReadyChildren` and `BlockedChildren` are the revisions at which the settlement gate opens;
the gate's own logic is abstracted into them. A park's age counts to `Cooldown` and stays.
The worktree is one dirty bit; `lost` are drivers whose worktree was rebound under them. `cut`, read by no action, is history: the
inputs on which a driver was last stopped between its processed record and the end of its checkpoint.

*Hazards* is the set of failures an instance is exposed to (agents that crash, overrun or edit; kills;
release-park; failing rebind, provisioning, `operator.json`, postcondition, `checkpoint.json`).
Instances choose them so that a run asks one question; theorems hold for every choice.

*Left out.* The stem-addressed `operator report` after the agent's exit: reports arrive while
the agent runs (or from the driver itself). `critical-fast` is one of the ways the gate opens.

### OperatorSurface and IterationLedger

A verb is `Invoke` (it selects the path), `Read` (it reads that path and edits its copy, or the
surface does not admit it and it returns an error), `Write` (rename), `Migrate` (remove the legacy
file, return); `clear` is two removals. Set, append, activity and release-park change text only:
they are `Noted`, and matter because they write the whole file back. The text kept is one bit: is
`about` still what the legacy file said.

`reports`, `answered` and `closings` are history variables, read by no action. Iteration ids are numbers
in the order they were taken (`new_iteration_id` uses a nanosecond clock, assumed not to go
back). A malformed file is not modelled: every verb but `set` refuses it.

`IterationLedger` is the abstract specification: `open`, `accepted`, `closed`, and `Open`,
`Accept`, `Close`, `Forget`, each atomic. The refinement maps `open` to the active iteration of
the file a reader would select now, `accepted` to its report, and `closed` to its list. A
verb's `Write` is its ledger step and everything else stutters.

### Deployment and StagedDeploy

*State.* `dirs`, `current`, `published` and `ledger` are the directories of `generations/`, its symlink,
`published-generation.json` and `deployment.json`; `running` is what each actor executes (what
`process_executable_resolves_into` finds in `/proc`). `call[c]` is the verb a client is in, how far it is, and
the copy of the ledger it edits. `acked`, read by no action, is the history of passes planned.

*Actions.* `PlanAck`, `PlanOccupancy` and `PlanGc` seal what they were asked together with the ledger they
saw; `Apply` refuses a stale one; `Load` reads the ledger again and decides; `Write` is the rename. A pass goes
through `Judge`, `FindTarget`, `Flip` and `Publish` (`runtime-promote`) before its `Write`, gc through `Check` and
`Remove`. `runtime-run` is `Compose`, `Build`, `Payload`, `Load`, `Write`: its `.wake.lock` makes it one client, while
the verbs take no lock. `Kill` may end any client anywhere, which is also what a failing command does.

*Data.* A generation is a model value. An ack's `observed` is the generation it names, or `None` for
anything that does not vouch for it (another generation, another actor, no continuity). The ledger keeps what
decisions read: candidate, phase, promoted, recovery target, `midi_alive_at`, and the generation of each
*live* row; stopped and retired rows hold nothing back. Two ledgers that differ only in timestamps, labels or
the canary's record are one, so a plan is fresh a little more often than in the code.
midi and the actors are external: midi publishes any rows (nothing compares them with what runs), actors start on the current
generation and midi also on the candidate, and anybody may stop.

*Overlap.* Nothing in the code keeps an apply and a compose, or two applies, apart. `Overlap = FALSE`
assumes that they do not run at the same time (a plan may still be applied long after it was made, and a client may
be killed anywhere). Types, `ConvergedIsSettled` and `OnlyAckedGoesLive` are proved
without it. For `NothingGoesLiveOnHold`, `OnlyGarbageIsCollected` and `DeploysInStages` the assumption is needed: with
`Overlap = TRUE` TLC refutes each within seconds (gc has checked a generation that `runtime-run` offers
again before it is removed; a fail recorded between a pass's judgement and its flip is overwritten). These are
listed as hazards.

`StagedDeploy` is the abstract specification: `Build`, `Offer`, `GoLive` and `Collect` over the directories,
the candidate on offer and the live generation. `Publish` is the step that goes live; everything else of a
promotion stutters.

### PlanApply and CheckedStore

*State.* `store[s]` are the four files of operation `s`: service and timer unit, `automation.toml`,
`lifecycle.json`. `staged` is the `.mcpd-new` file beside each unit file, `enabled` and `active` are what systemd
says. `plans` are the tokens minted: what each saw, what it wants, or the unit state it observed. `job[c]` is how
far client `c` is in applying one; `answer[c]` is what it was told.

*Actions.* Planning is one step (it writes nothing, and apply compares again what matters). A token that fails to parse
(MAC, class, manager) is no plan; an expired one is in `expired`. `Present` parses the token and makes the
comparison that comes first: `automation.toml` or `lifecycle.json`, or the state of the unit. `CheckFiles` is
`apply_authoring`'s comparison of every unit file, and the second parse, of the token sealed inside an automation
plan. Then each `write_atomic` is `StageFile` and `RenameFile`, each `systemctl` phase a step, each unlink and
each record of an automation plan a step; `Abandon` may come between any two and is a failure as well as a kill.
Nothing takes a lock. `HandEdit` is somebody who removes a unit file or puts an unmarked one there.

*Data.* A spec is a model value with its schedule, `[Install]`, `enabled` and `start_now`; a file holds the spec it was rendered
from, or is `Foreign` (no managed marker). Titles, prefixes, agent roles and paths are left out. A create or
update is planned in a lane: the author's alone, with an agent (it writes `automation.toml`, with a parent or
none), or plain (it only looks at it).

`CheckedStore` is the abstract specification, of `Make`, `Apply`, `Break`, `Ask`, `Edit`: an apply replaces, at once, what the plan saw by
what it wants; one that answers an error replaced some parts of that, or none. The refinement maps the store to the files as
the apply in progress found them, until it answers; so `Finish` is `Apply`, `Abandon` is `Break`.

*Overlap* means what it does in `Deployment`: `FALSE` assumes that no apply or hand edit starts while an apply runs. That
plans are made at any time, presented late and again, and die half-way, is not assumed away. With `Overlap = TRUE`
TLC refutes `PlansAreChecked`, `MarkerRespected` and `CompletedWhenQuiet` within seconds; `ParentsHaveMetadata`, which no run checks,
is proved without it (`ParentsExist`).

### Authoring

*State.* The service and the timer file, line by line as far as `get_operation` reads them back, which of the two is
enabled (`linked`), and per author (`Agent`) the editable spec in hand (`draft`). `meant` and `intent` are history: what an author means
by a draft, and what the author of the last update meant. Arguments, paths and values are sequences over an alphabet `Char`; what
is compared but never taken apart (units, titles, times) is from a set `Name`.

*Actions.* `Create`, `Get` (`get_operation`), `Edit`, `Update`, `Toggle` (the switch), `Retire`. How a plan is applied is
`PlanApply`; here it is one step, for what is asked is whether the text survives: `QuoteWord` and `ExecLine` write a
command line, `SplitExec` reads it, character by character, because the property is about the conversion. Each loop of the
code is one step function folded over the text (`Scanned`): `UnescapeNext`, `SplitNext`, `PartNext`, `ReadLine`, `Noted`.

*Left out of the inputs* is what the conversion is known to lose, listed under known disagreements. Refused, as in the code, are programs
that are not absolute or not there (`Programs`, which stay) and path entries that are not absolute. `Fitting = TRUE` keeps the
updates to those whose set of unit files and `[Install]` is that of the files there are; with `FALSE` TLC refutes
`EditsKeepTheRest` at once.

### Intake and Admissions

*State.* The units of a capability, its pull request and a rival with the capability's tags, each by its `WorkingDirectory`;
`agent`, the operations with an `automation.toml`; `inputs`, the capability's `desired-inputs.json`; `trees`, the directories
there are; `noop`, those that are clean and hold the target already. `plans` are tokens, presented any time later, by
anybody, again and again.

*Actions.* `PlanAdmit` and its apply: `StartAdmit` makes the comparisons, `CreateUnit` and `DescribeUnit` are the nested creation,
`ReadInputs` and `WriteInputs` read the list once more and rename it. `SnapshotPr` and `SealPr` (the unit
files are read, then the bound worktree, which may be gone by then); `VerifyCapability` and `SealCapability` (a check of the tree, then
the plan); `StartNormalize`, `RetireUnit`, `RemoveWorktree`. `Stop` may come
between any two, as a failure or a kill. `Install`, `Update`, `Rebind` and `TreeChanges` are what others do meanwhile.

*Assumed:* every operation has registered directories of its own, none of them the scope root (`Worktrees`), the scope root
is no verified no-op (`NoopTrees`), and applies do not overlap (`Overlap`). The first two are premises the code does not
check; without them TLC refutes `TreesGoLast` and `ScopeRootStays`, without the third an entry is lost.

`Admissions` is the abstract specification: offers, each for one list, taken in some order.

### ScopeView

*State.* `files`, per operation home; `driver`, where each operation's driver is (observe, pass, judge, mark, checkpoint, as
`MaintainerPass` has them, but only their writes); `reader`, a `scope show` under way, `got`, what it has joined; `shown`, its
result. `held` is history: what held of an operation at some moment of its reading.

*Actions.* The reader resolves the manifest (`Start`), lists the units (`List`), reads the six files of each operation
one by one (`ReadLifecycle` to `ReadBlocker`, `JoinOperator`), and aggregates (`Show`). Drivers and operators write between
any two reads.

*Operators.* `OperationView`, `UnitHealth` (state and sub-state, last result, last and next trigger, per kind), `OwnState`, `Derived`, `Relations`, `Labels` and `Aggregate` are the functions of those
names in `operations.rs`, `automation.rs` and `scope.rs`. `Derived` asks each operation in turn (`Order`), depth first, and remembers
what it was told: a call of `derive` is its path, its operation and what is remembered, and `Visits` gives the answer of
every call for one level more at a time. `Grounded`, against which it is checked and proved, is the documented meaning, a set.

*What does not hold* is more than `ShownWasSo` says: operations are read one after the other, so READY of a parent and of
its children need not have been true at one moment; and `stale` may be shown although it never was (an observation
from before and a checkpoint from after an iteration).

### ViewCache and UnitReads

*State.* `world`, the version of each unit's properties; the cache of a view: `listed`, and per group the answers and
whether units are asked singly; `call`, the `systemctl show` under way, which reads its units one after the other.

*Actions.* Open, list and close a view, ask (from the cache, by one batch, or by itself), read, end or fail a call, change a unit.

`UnitReads` is the abstract specification: an answer is of the asked unit (whatever alias it was asked by), true at some
moment since the view was opened, never older than an earlier one of the view, and an error stays an error.

### Console

*State.* `app` (snapshot, filter, the rows they made, selection, drawer, pane), `gate` (`BackendCtl`), the two channels, the worker, `phase`. `sinceR` is
history: the refresh the worker last took was taken after the last key `r`.

*Actions.* The loop of the UI thread is `ApplyRefreshDone`, `ApplyLogsDone`, `EndDrain` (the frame is drawn), then an input or `Idle`; each
key is an action, the mouse wheel too. The worker is `TakeJob`, `RefreshDone`, `LogsDone`, and `LogsPanic`, which ends it.
Generations are counted modulo `Gens` and `LogGens`; the guard `AtPoll` refuses an input only where the number would be
confused with one in flight.

*The list.* `Joined` puts the pieces of units one after the other in an order; `Visit` lists a unit and, below it, its children's
trees, `Subtrees` does that one level more at a time, and `HierarchyRows` adds, by name (`NameOrder`; siblings go by
title, `TitleOrder`), those no root reaches because their parents form a circle.

## 3. What the runs check

| run | instance | shows |
|---|---|---|
| `maintainer_race` | two drivers, one input, all of crash, kill, release, edits, rebind, provision, failing checkpoints | the lock excludes through kills (`OnePassAtATime`); no agent runs on an input that is processed or parked, although it was found due before the lock (`NoPassOnSettledInput`); no park is unearned (`ParkIsEarned`); while the lock is free, the READY input has its checkpoint and shows no failure of its own, unless a driver was stopped on it between the two records, by a kill or a failing `checkpoint.json` (`ReadyUnlessCut`) |
| `maintainer_runtime` | one `runtime-run`, three inputs over two generations, flapping world, moving children | types; a checkpoint names the generation its input was observed at (`CheckpointAgrees`) |
| `maintainer_live` | fairness, a settling world, an agent that may do anything | an unchanged input ends processed or parked (`RetriesEnd`); a crash park is retried after its cooldown (`CrashParkIsRetried`); an input skipped as READY has a checkpoint and no blocker (`SkippedReadyIsCertified`) |
| `operator_clients` | two clients, start/report/finish/append, no lock | whatever stale copies are written back: reconsolidated iterations were reported with that outcome and finished with exit 0, closings are of the iteration named, the list stays newest first |
| `operator_alone` | one client, the verbs that differ, killed anywhere, legacy file or none | `operator.json` refines the ledger (`KeepsLedger`) |
| `deployment_stages` | two generations, midi, one operator and `runtime-run`, killed anywhere, not overlapping | `deployment.json`, the link and the pointer refine `StagedDeploy`; nothing goes live unacknowledged (`OnlyAckedGoesLive`) or while a failed canary holds (`NothingGoesLiveOnHold`); a ledger past `candidate` is live (`RolloutIsLive`); gc takes only what nothing refers to or executes (`OnlyGarbageIsCollected`) |
| `plan_apply` | one client, two plans about one operation of two, from nothing, an author's or an agent's operation, one event outside | applies refine `CheckedStore`: what a plan saw is what it replaces, also when it is presented twice, after another plan, after a hand edit or after a death half-way; an unmarked file is left alone (`MarkerRespected`); completed is recorded with the timer off (`CompletedWhenQuiet`) |
| `authoring` | two authors, two changes, five specs of all kinds, twelve edits, two of them refused | an edit of one field, however late, is the update its author meant (`EditsKeepTheRest`) |
| `intake` | two clients, three plans, two events outside, five admit specs of two works | `desired-inputs.json` refines `Admissions` (`AdmissionsKept`): in order, against the list its plan saw, once; a worktree is removed only when no unit works in it (`TreesGoLast`) |
| `scope_view` | an operation with a running driver, its parent (runtime integrator, which may be blocked, unreadable or its child's child), a watched unit, five answers of systemd | what is shown was so (`ShownWasSo`); READY is the documented fixpoint (`DerivedAsDocumented`); no illness is silent (`NeverSilent`) |
| `view_cache` | a unit with an alias, one that may be missing from the listing, a template, one group, two changes of each unit | the cached, batched view refines `UnitReads`; one wasted call at most per group (`ViewTypeOK`) |
| `console` | two operations, a cycle of parents or a watched operation, two refresh and two log generations | one job on its way, the one the gate remembers; a snapshot is newer than the key `r`; snapshots keep coming; the drawer catches up |

Two drivers are enough for the lock: the third would wait at the same `flock`. `FailureBudget = 2`
is the least budget at which the first failure does not park, so counts of two inputs can mix;
`MaxPasses = 2` lets the loop be re-entered in `maintainer_live`, 1 keeps the races small.
Three inputs are: one, one that flaps with it at the same generation, and one of the next
generation. `MaxIterations = 2` makes the list overflow, and `MaxStarts` is the number of
iterations ever started: a start at the bound is refused. `append` and `release` are left out of
`operator_alone` because they are the same `Noted` edit as `set`.

Two generations are a live one and its candidate, and either can be composed again when it is no longer
live; three, tried with one client to 7.5 million states, show nothing new. midi is the actor that matters: it is the
only one that starts on a candidate and the only one a hold waits for.

Two plans are a plan and the one that makes it stale; two specs are one with a timer that is enabled and started and one
without, whose service is started at once. The plans of `plan_apply` are about one operation, the other is there to be a parent.
With plans about both and no event (tried once), and with two clients overlapping, types hold too. The control verb is
`enable`; the proofs take all four. Of a configuration's constants a few are used by other instances only (`Overlap`, `Lanes`).

`MaxPlans = 3` of `intake` is an admission, the one that makes it stale, and a normalisation; `MaxEvents = 2` installs an operation
and rebinds it. Two worlds of `scope_view` are two observations, so that a record of the one can be laid beside the other;
its three starts of the parent are those where a record decides by itself. The five answers of systemd are: all well but a timer
that is enabled and not waiting; a critical operation gone, and another failed whose unit files nobody can read; a watched one down; a failed
operation with a timer, and one that crashes and is restarted for ever; a critical timer that never ran, and one whose service is not shown. `MaxVersion = 2` of `view_cache`: what
a unit was before, in and after a batch. In `console` two refresh generations are the wanted one and an old one; an old number is
reused only when nothing carries it (proved: one job is on its way).

### Fairness

`FairSpec` (in `maintainer_live`) assumes that the timer keeps waking the driver and that each of its
file operations returns (weak fairness of a driver's steps), that `--max-time` ends an agent that
does nothing, and that time passes. It assumes nothing of the agent's reports or edits, of the
operator's releases, or of the world, which may stop at any state. The run excludes kills (a kill
at every tick prevents any progress), and two failures that the code deliberately does not count:
refusals with exit 4 and a failing `checkpoint.json`; both repeat at every tick without bound.

`Console` assumes that the UI loop runs on (its poll times out), that every job ends (`BACKEND_TIMEOUT` bounds each call) and that
`REFRESH_EVERY` passes: weak fairness of `UIStep`, `WorkerStep` and `RefreshDue`, none of any key. `SnapshotsKeepComing` has the
premise that the user pauses again and again and does not ask for ever; without it the timer starves, because it looks only at an idle
poll at which nothing is in flight. Both properties except a worker that has panicked, which the code does not restart.

## 4. What is proved

All theorems hold for every value of the constants under the named assumptions of the modules.

`MaintainerPassProofs`, by an invariant per theorem on top of the type invariant:

- `TypeCorrect`. `TypeOK` is not inductive alone: that the pass counter stays within
  `MAX_INTELLIGENT_PASSES` needs `PassBegun`, that a driver in a pass has counted it.
- `PassesExclude`: `LockHeld`, every driver past the `flock` is its holder.
- `NoWastedPass`: `PassIsDue`, a locked driver's input is unprocessed and no park binds it, stable because
  only the lock's holder writes `processed.json` and only it parks.
- `ParksAreEarned`: `Earned`, the budget file counts no more failures than really happened to its
  input since the last clear (`CountsAgree`), and a driver about to park has counted them.
- `RuntimeCheckpointsAgree`: `Pinned`, for `runtime-run` the registers of a certifying driver name the
  generation of its post-input. It uses `GenerationsAdvance`, an assumption about the
  environment (the latest release never gets older), which release watch does not itself enforce.
- `ReadyStaysCertified` (`ReadyUnlessCut`), for both drivers, with every hazard and whatever the world does: `Shown` says of every state, locked or not, that
  the READY input is certified unless a driver is recording (`ReadyShows`); that the input a pass woke for is not processed until this pass
  processes it (`WakeIsUnprocessed`), so no failure is written over a READY input; and that between the two records nobody else writes
  `processed.json` (`RecordIsMine`). The exception is what really happens after a kill or a failing checkpoint: every later tick skips
  the input, so nothing mends it (hazards). `SkippedReadyIsCertified` says more (the generation, no blocker of any kind) where no driver is stopped
  there and the world settles; it is only model-checked.

`OperatorSurfaceProofs`. The idea of the first four is that every surface, in the file or in a
client's hands, is an earlier surface edited by one verb; so what every edit preserves holds of
all of them, however they interleave.

- `SurfaceTyped`; `ReconsolidationIsReported` and `FinishClosesItsOwn` from `Honest` (of the file and of all
  pending copies); `NewestFirst` from `Ordered`.
- `SurfaceKeepsLedger`: with one client, killed anywhere, `Spec` implements `IterationLedger`. `AloneInv`
  says a pending copy is still an edit of the file it will replace (`CopyFresh`), which is
  exactly what fails with two clients.

`DeploymentProofs`, for any generations, actors and operators:

- Whatever overlaps: `DeploymentTyped`, `LiveWasAcked` and `ConvergedMeansSettled` (a converged ledger has no live row on anything else than
  what it promoted; no run checks it), from the invariant `Safe`: every
  copy of the ledger in anybody's hands is as sound as the ledger itself (`Sound`), and a promotion under way
  carries an acknowledged candidate (`CallOK`). A write of a stale copy then cannot hurt.
- Assuming `~Overlap`: `RolloutStaysLive`, `HoldHolds`, `GarbageOnly` and the refinement `DeploymentIsStaged`, from `Alone`: one client at most is past its plan (`OneBusy`), it holds
  what the records say (`BusyOK`, step by step), and the link and the candidate never dangle (`Pointed`). `RolloutIsLive`
  is not inductive alone: that a pass which is not yet promoted finds the ledger in phase `candidate` needs `Pointed`.

`PlanApplyProofs`, for any operations, specs, clients, plans and events:

- However applies overlap: `PlanApplyTyped`, from `Typed`: what a token can carry (`PlanOK`), and how far an apply at
  some step can have come (`JobOK`). `ParentsExist`, from `Named`: a plan that may still be applied already names
  a parent with an `automation.toml`, and no step takes one away (`AutomationStays`).
- Assuming `~Overlap`: `MarkersRespected`, `CompletedQuiet` and the refinement `PlansReplaceWhatTheySaw`, from `Serial`: one client
  applies at a time (`Alone`), and the parts its plan looked at are as it saw them but for those it has
  replaced (`Half`). `CompletedQuiet` also needs `Hushed`, where a completion is with the timer. `View` says what the
  mapped store is in the middle of an apply.

`PlanApplyProofs` on `Authoring`, for any alphabet, specs, edits and authors and text of any length:

- `AuthoringTyped`: the types are inductive by themselves.
- `ExecReadBack`: `SplitExec(ExecLine(ws)) = ws` for arguments that are not empty and hold no quotation mark. What a fold makes of `s \o t` is
  what it makes of `t` after `s` (`ScannedOn`), so each loop is followed character by character, then word by word: escaping and unescaping one
  character gives it back and holds nothing, an escaped word in its quotes is one word to the splitter, a blank between two ends it.
  `PathReadBack`, `EnvironmentReadBack` and `AfterReadBack` do the same for the path, the variables and `After=`.
- `UpdatesKeepTheRest`, from `WrittenAsMeant`: drafts are what was meant by them, and the files and the enabled units are the intended spec, written
  out; then what `get_operation` gives is that spec (`EditableIsSpec`), not one that merely renders alike. Its premise `WellWritten` leaves out
  what is lost by the known disagreements below: empty arguments and quotation marks, a colon or a last blank in a path entry, a
  variable `PATH` and values that need quoting, units twice in `after` or the network's, updates that do not fit, operations
  created disabled that cannot be enabled. The run is wider in one case: one of its specs names the network target in `after`.

`IntakeProofs`, for any clients, specs, homes and events, with the premises `OneAtATime` (applies do not overlap) and, but for
the types, `OwnWorktrees` (each operation in registered directories of its own, none the scope root):

- `IntakeTyped`, from `IInv`: an apply's copy of the list is what its plan saw with the entry added (`JobSound`), and nobody
  else applies (`NobodyElse`).
- `TreesLast`: `Owns` adds that plans, units and verified no-ops are each of one operation's own directories, so whoever
  removes a directory has just retired the only unit in it.
- `AdmissionsKeptByPlans`: the refinement; `WriteInputs` is the ledger's step, everything else stutters or offers.

`ScopeViewProofs`, for any operations, drivers, files, manifests and answers:

- `ShownAlwaysWasSo`: `Seen` completes what the reader has by what the files say now, and `SInv` says that whatever that is was
  so at one moment. A write keeps it because a record that depends on another is written only when it fits that
  (`Honest`), and the reader reads the other first: it is the order of the reads that makes the view sound.
- `NothingIsSilent`: the aggregate raises the health exactly when it lists somebody to blame. Its premise is about systemd: no failed
  service has the result `success`, or none. What failed is what the code can know of (`HasFailed`): see the exception in section 5.

- `ViewsAreAsDocumented`: READY is the documented fixpoint, for any parents, circles included. `VisitsIs` says what each call of
  the search answers when it may go as many levels deeper as there are operations off its path (`Deep`), and `DerivedIs` that what is
  remembered in the end is each operation's documented state: neither the memo nor the order of the visits shows. `ReadyIsGrounded`
  and `CirclesAreNot` are about the documented meaning alone. `ScopeTypes` rests on the same invariant, `Derivation`.

`ViewCacheProofs`, for any names, aliases, templates, groups and listings: `CacheServes` (what the cache holds could be given out now),
`ViewReadsAsPromised` (the refinement of `UnitReads`), `ViewTyped`.

`ConsoleProofs`, for any units, views, filters and numbers of generations:

- `OneJob`, from `Flow`: the gate, the channels and the worker hold one job between them.
- `SnapshotsAnswerTheKey`, which needs in addition (`OwedOf`) that a refresh in flight under the wanted generation was asked
  for by the last key `r`.
- `DrawerKeepsUp` (`DrawerShowsOrAsks`, the safety half of `DrawerCatchesUp`): at every frame with the drawer open and no filter being typed, what
  is shown is the selected operation's, or it is asked for: `DInv` follows the flag `want_logs`, the pending request and the one on its way.
  A worker that panicked is the exception.
- `ConsoleTypes`: every operation of a snapshot that the filter lets through has one row in its section, and one is selected
  whenever there is one. What `Joined` makes of disjoint pieces without repetition has none (`JoinedIs`); the trees below two roots, or two
  children of a unit that a root reaches, are disjoint (`RootsApart`, `SiblingsApart`: each unit declares one parent, and no
  circle is reached from a root, `NoCircleReached`), so a tree of any depth has no repetition (`SubtreesFine`); what is left is added once.

What a function computes by recursion over numbers (the operations in an order, the levels of a tree or of a search) is proved
without the library's induction theorems, which take an operator: a set of numbers with a bad one has a least bad one (`Least`, from
`WFMin` and `NatLessThanWellFounded`), so what holds of 0 and is handed on holds up to N (`ByCounting`), and hence there is
a function that does what its recursive definition says (`RecursionExists`). These three lemmas stand in each of the modules that use them.

Only model-checked: liveness (`RetriesEnd`, `CrashParkIsRetried`, `SnapshotsKeepComing`, `DrawerCatchesUp`), which is beyond the
prover. The finiteness bounds `MaxStarts`, `MaxPasses`, `MaxPlans`, `MaxEvents` and
`MaxVersion` are constants of the proofs, not limits of them.

## 5. Known disagreements

Between the code and what its documents, comments or tests say. The properties named are defined in the modules; a configuration
with the change given makes TLC refute them. No run is kept for them.

| property | reproduce | the disagreement |
|---|---|---|
| `CheckpointAgrees` | `maintainer_runtime` with `DriverKind = "capability"` and `BlockedChildren = {}` | `capability-run:288` resolves the target generation before it observes the post-input, so its refusal of a moved target (`:312`) misses a move between the two, and the checkpoint binds the new input to the old generation. `runtime-run` reads in the other order |
| `OneAttemptThenRepark` | `maintainer_runtime` with `Input = {i1, i2}`, `MCFlatGeneration`, `MCFlapMoves`, `Hazards = {"crash", "release"}` | `README.md:153` and `automation-wrapper:671-672`: after a release or cooldown, one attempt, then re-park. The budget file (`:707`) belongs to whichever input failed last, so a failure of another input gives the parked one a full budget again |
| `ReportPlusExitZeroReconsolidates` | `operator_clients` | `README.md:226-227`: a report and exit 0 reconsolidate. An `append` that read before the report writes it away (`operator.rs:1014`) |
| `NewCandidateIsNotHeld` | `deployment_stages` | the hold after a failed canary is for the same candidate; composing another one keeps the recovery record (`runtime-run:130`), so its pass is refused for a failure that was not its own |
| `ParentTreeAcyclic` | `plan_apply` with `Moving = {a, b}` and `MaxEvents = 0` | `docs/SCOPES.md:157-159` calls the relation acyclic. The ancestry is walked at plan time only (`automation.rs:1683`): two updates planned side by side make a cycle |
| `ScopeRootStays` | `intake` with `Homes <- MCHomesInRoot`, `Worktrees <- MCWorktreesInRoot`, `MaxPlans = 1` | normalisation is to "remove the bound worktree" and "refuse to rm -rf anything else". A pull request may work in the scope root (`docs/SCOPES.md:185-186`), which git lists as a worktree and will not remove; the refusal is ignored and the directory removed (`automation.rs:3942`) |

Met while modelling, and left out of what the runs may do:

- `README.md:281-284` (`Authoring`): a value of `env` that needs quotes or escapes is read back with them, and every update doubles its `%`;
  an argument with `"` is read back as other words; a path entry with a colon as two (and refused, if the second is not absolute), and without a blank at its end; `PATH` in `env`
  comes back as `path`; `After=` loses duplicates; an update that drops the schedule leaves the `.timer` (the loop at `operations.rs:1935-1950` finds nothing), one that changes the kind away from an `[Install]`
  leaves the service enabled; a stale editable spec undoes a later update.
- Intake: creation killed between unit and `automation.toml` makes every later admission refuse; retirement keeps
  `automation.toml`; a child installed between a normalisation's plan and its apply is stranded; `verified_noop` does not look at the desired inputs.
- ScopeView: an operation with a timer none of whose unit files can be read is judged by its timer's state alone, so its service may fail in
  silence; a listing that fails counts as empty (`operations.rs:1593`), so a non-critical operation can vanish without attention; the
  deployment phase `composing` is read off the timer's state (`automation.rs:3516-3520`); an unreadable child is no longer a child, so its parent
  may be READY; `completed` suppresses attention but not the inspect labels (`docs/SCOPES.md:292`).
- Console: a panic in the log reader ends the worker (`tui.rs:1357-1390`), after which nothing is refreshed; `wait_output_timeout` joins the pipe
  readers after the kill (`systemd.rs:443`), which a grandchild can keep from ending.

## 6. Not modelled, and what is left

Not modelled: the parsers, `config.rs`, the CLI and MCP frontends (they read, call the functions above and print), `system-notify`
(no state, best effort), capability requests (a file nobody else reads), JSON and SHA-256 (fingerprints are the values they hash,
without collisions), varlink (another transport for the answers of `ViewCache`).

Left for later, in this order: `pr-run` as a third `DriverKind` with its attempts per head; `PrSettlement` with the quiet window, the
grace and the critical episodes, which `MaintainerPass` sees as the revisions at which a gate opens; the other control verbs
(restart, reload, mask, reset-failed), which keep no file; the composition of `Intake` with the driver that consumes the inputs.
