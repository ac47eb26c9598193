------------------------------- MODULE Intake --------------------------------
(* How work enters and leaves a scope (src/src/automation.rs): plan-admit and  *)
(* its apply put an artifact on a capability's desired inputs and create the   *)
(* capability if need be; plan-normalize-pr and plan-normalize-capability      *)
(* retire an operation that is done and remove its worktree.  A plan is a      *)
(* token (PlanApply): it may be applied any time later and any number of times.*)
(* An apply may fail or be killed between any two of its steps.                *)
EXTENDS Integers, SequencesExt

CONSTANTS
    Client,
    cap, pr,     \* a capability operation and the pr-maintainer that is its child
    Rival,       \* other operations, with the capability's tags
    Dir,         \* directories that may be an operation's WorkingDirectory
    Root,        \* the scope root, the main working tree of its repository
    Registered,  \* the directories git worktree list names, Root among them
    None,
    Overseer,    \* the one work that is refused
    AdmitSpecs,  \* the specs that are admitted
    Homes,       \* how the operations may be installed before: their units and inputs
    Worktrees,   \* the directories each operation may be installed in or rebound to
    NoopTrees,   \* the directories that may ever be a verified no-op
    MaxPlans,    \* bound: plans made
    MaxEvents,   \* bound: units installed, updated and rebound outside the plans
    Overlap      \* TRUE: an apply may start while an apply runs

Stem == {cap, pr} \cup Rival

\* A unit file, by its WorkingDirectory and the rest of its content.
UnitFile == [dir : Dir \cup {None}, rest : {0, 1}]

ASSUME IntakeAssumption ==
    /\ cap # pr /\ {cap, pr} \cap Rival = {}
    /\ Root \in Registered /\ Registered \subseteq Dir /\ NoopTrees \subseteq Dir
    /\ Worktrees \in [{cap, pr} \cup Rival -> SUBSET Dir]
    /\ None \notin Dir \cup UnitFile
    /\ MaxPlans \in Nat /\ MaxEvents \in Nat /\ Overlap \in BOOLEAN

VARIABLES
    unit,   \* the unit file of each operation
    agent,  \* the operations with an automation.toml
    inputs, \* the desired-inputs.json of the capability, a sequence
    trees,  \* the directories that exist
    noop,   \* those that are clean and hold the current generation already
    plans,
    job,    \* what each client is doing
    events

vars == <<unit, agent, inputs, trees, noop, plans, job, events>>

-----------------------------------------------------------------------------
(* Admit specs *)

\* A delta is a set of files, in whatever order the spec lists them.
Identity(spec) ==
    IF spec.kind = "commit" THEN spec.revision ELSE <<spec.base, Range(spec.delta)>>

\* parse_supersedes
SupersedesAnother(spec) == spec.over # Identity(spec)

\* parse_admit_spec
Parses(spec) ==
    /\ spec.work # Overseer
    /\ \/ /\ spec.kind = "commit"
          /\ spec.revision # None /\ spec.base = None /\ spec.delta = None
       \/ /\ spec.kind = "worktree-delta"
          /\ spec.revision = None /\ spec.base # None /\ spec.delta \notin {None, <<>>}
          /\ \A m, n \in DOMAIN spec.delta :
                spec.delta[m].path = spec.delta[n].path => m = n
    /\ SupersedesAnother(spec)

Entry(spec) == [work |-> spec.work, identity |-> Identity(spec)]

Entries == {Entry(spec) : spec \in {s \in AdmitSpecs : Parses(s)}}
InputFile == Seq(Entries) \cup {None}

ASSUME NoInputsAssumption == None \notin Seq(Entries)

\* How the operations may be installed: an input is listed once.
ASSUME HomesAssumption ==
    \A home \in Homes :
        /\ home.unit \in [Stem -> UnitFile \cup {None}]
        /\ \A s \in Stem : home.unit[s] # None => home.unit[s].dir \in Dir
        /\ home.inputs \in InputFile
        /\ home.inputs # None => IsInjective(home.inputs)

\* An absent file has no inputs.
Listed == IF inputs = None THEN <<>> ELSE inputs

Identities == {e.identity : e \in Range(Listed)}

-----------------------------------------------------------------------------
(* Plans *)

Idle == [at |-> "idle", plan |-> None, copy |-> <<>>]

ScopeThere == Root \in trees
Applying(c) == job[c].at \notin {"idle", "bind", "seal"}
MayStart(c) == job[c] = Idle /\ (Overlap \/ \A d \in Client : ~Applying(d))

\* refuse_capability_tag_collision
Collides == \E s \in Rival : unit[s] # None

Seal(plan) ==
    /\ Len(plans) < MaxPlans
    /\ plans' = Append(plans, plan)
    /\ UNCHANGED <<unit, agent, inputs, trees, noop, events>>

\* plan_admit
PlanAdmit(c, spec) ==
    LET e == Entry(spec)
    IN  /\ job[c] = Idle /\ ScopeThere /\ Parses(spec)
        /\ cap \in agent \/ ~Collides
        /\ spec.over # None =>
              /\ unit[cap] # None /\ inputs # None
              /\ spec.over \in Identities
              /\ e \notin Range(inputs)
        /\ Seal([verb |-> "admit", stem |-> cap, saw |-> inputs, entry |-> e,
                 over |-> spec.over, dir |-> None])
        /\ UNCHANGED job

Normalize(s, saw, dir) ==
    [verb |-> "normalize", stem |-> s, saw |-> saw, entry |-> None, over |-> None, dir |-> dir]

\* A plan half made, by its nested retire plan or by the directory it is to remove.
Prepare(c, at, plan) ==
    /\ job' = [job EXCEPT ![c] = [at |-> at, plan |-> plan, copy |-> <<>>]]
    /\ UNCHANGED <<unit, agent, inputs, trees, noop, plans, events>>

\* plan_normalize_pr: the nested retire plan takes its snapshot of the unit ...
SnapshotPr(c) ==
    /\ job[c] = Idle /\ ScopeThere /\ unit[pr] # None
    /\ Prepare(c, "bind", Normalize(pr, unit[pr], None))

\* ... and its WorkingDirectory is read after that, from the file as it is then; a
\* file that is gone binds none.
SealPr(c) ==
    /\ job[c].at = "bind"
    /\ Seal([job[c].plan EXCEPT !.dir = IF unit[pr] = None THEN None ELSE unit[pr].dir])
    /\ job' = [job EXCEPT ![c] = Idle]

\* capability_pass_is_verified_noop, against the current upstream generation.
VerifiedNoop(d) == d \in trees \cap noop

\* pr_maintainer_children
ChildRemains == pr \in agent /\ unit[pr] # None

\* plan_normalize_capability, up to the nested retire plan.
VerifyCapability(c) ==
    /\ job[c] = Idle /\ ScopeThere /\ unit[cap] # None
    /\ VerifiedNoop(unit[cap].dir)
    /\ ~ChildRemains
    /\ Prepare(c, "seal", Normalize(cap, None, unit[cap].dir))

\* plan_retire, and the token: the unit file is read a second time.
SealCapability(c) ==
    /\ job[c].at = "seal" /\ ScopeThere /\ unit[cap] # None
    /\ Seal([job[c].plan EXCEPT !.saw = unit[cap]])
    /\ job' = [job EXCEPT ![c] = Idle]

-----------------------------------------------------------------------------
(* Applies *)

\* Client c goes on to step `at`, with whatever it is to write.
Go(c, at, copy) == job' = [job EXCEPT ![c] = [at |-> at, plan |-> @.plan, copy |-> copy]]
End(c) == job' = [job EXCEPT ![c] = Idle]

\* The apply ends with an error, or is killed, at any step; so does a plan.
Stop(c) ==
    /\ job[c] # Idle
    /\ End(c)
    /\ UNCHANGED <<unit, agent, inputs, trees, noop, plans, events>>

\* Variant of StartAdmit that does not ask whether the inputs are still the ones
\* the plan saw.
StartAdmitAnyway(c, plan) ==
    /\ MayStart(c) /\ ScopeThere /\ plan.verb = "admit"
    /\ plan.over # None => unit[cap] # None /\ inputs # None
    /\ job' = [job EXCEPT ![c] = [at |-> IF cap \in agent THEN "read" ELSE "create",
                                  plan |-> plan, copy |-> <<>>]]
    /\ UNCHANGED <<unit, agent, inputs, trees, noop, plans, events>>

\* apply_admit, as far as it looks before it writes.
StartAdmit(c, plan) ==
    /\ MayStart(c) /\ ScopeThere /\ plan.verb = "admit"
    /\ plan.saw = inputs
    /\ plan.over # None => unit[cap] # None /\ inputs # None
    /\ job' = [job EXCEPT ![c] = [at |-> IF cap \in agent THEN "read" ELSE "create",
                                  plan |-> plan, copy |-> <<>>]]
    /\ UNCHANGED <<unit, agent, inputs, trees, noop, plans, events>>

\* The nested create plan and its apply: the unit works in the scope root ...
CreateUnit(c) ==
    /\ job[c].at = "create" /\ ScopeThere
    /\ ~Collides /\ unit[cap] = None /\ cap \notin agent
    /\ unit' = [unit EXCEPT ![cap] = [dir |-> Root, rest |-> 0]]
    /\ Go(c, "describe", <<>>)
    /\ UNCHANGED <<agent, inputs, trees, noop, plans, events>>

\* ... and gets its automation.toml last.
DescribeUnit(c) ==
    /\ job[c].at = "describe" /\ ScopeThere
    /\ agent' = agent \cup {cap}
    /\ Go(c, "read", <<>>)
    /\ UNCHANGED <<unit, inputs, trees, noop, plans, events>>

\* Variant of WithEntry that lists whatever is planned.
WithEntryAgain(plan) == {Append(Listed, plan.entry)}

\* What apply_admit makes of the inputs it reads; nothing, if it refuses or has
\* nothing to add.
WithEntry(plan) ==
    LET at == {n \in DOMAIN Listed : Listed[n].identity = plan.over}
        Elsewhere(n) == \E m \in DOMAIN Listed \ {n} : Listed[m] = plan.entry
    IN  IF plan.over = None
        THEN IF plan.entry \in Range(Listed) THEN {} ELSE {Append(Listed, plan.entry)}
        ELSE {ReplaceAt(Listed, n, plan.entry) :
                  n \in {k \in at : (\A m \in at : k <= m) /\ ~Elsewhere(k)}}

ReadInputs(c) ==
    /\ job[c].at = "read" /\ ScopeThere
    /\ \E copy \in WithEntry(job[c].plan) : Go(c, "write", copy)
    /\ UNCHANGED <<unit, agent, inputs, trees, noop, plans, events>>

\* Variant of WriteInputs that stores the plan beside its entry.
WriteInputsRaw(c) ==
    /\ job[c].at = "write" /\ ScopeThere
    /\ inputs' = Append(job[c].copy, job[c].plan)
    /\ End(c)
    /\ UNCHANGED <<unit, agent, trees, noop, plans, events>>

WriteInputs(c) ==
    /\ job[c].at = "write" /\ ScopeThere
    /\ inputs' = job[c].copy
    /\ End(c)
    /\ UNCHANGED <<unit, agent, trees, noop, plans, events>>

\* apply_normalize_pr, apply_normalize_capability: the lead is told first.
StartNormalize(c, plan) ==
    /\ MayStart(c) /\ ScopeThere /\ plan.verb = "normalize"
    /\ job' = [job EXCEPT ![c] = [at |-> "retire", plan |-> plan, copy |-> <<>>]]
    /\ UNCHANGED <<unit, agent, inputs, trees, noop, plans, events>>

\* Variant of RetireUnit that goes on when the nested plan is refused.
RetireUnitOrNot(c) ==
    LET s == job[c].plan.stem
    IN  /\ job[c].at = "retire" /\ ScopeThere
        /\ unit' = IF unit[s] = job[c].plan.saw THEN [unit EXCEPT ![s] = None] ELSE unit
        /\ Go(c, "remove", <<>>)
        /\ UNCHANGED <<agent, inputs, trees, noop, plans, events>>

\* The nested retire plan: the unit files as it saw them go, automation.toml stays.
RetireUnit(c) ==
    LET s == job[c].plan.stem
    IN  /\ job[c].at = "retire" /\ ScopeThere
        /\ unit[s] # None /\ unit[s] = job[c].plan.saw
        /\ unit' = [unit EXCEPT ![s] = None]
        /\ Go(c, "remove", <<>>)
        /\ UNCHANGED <<agent, inputs, trees, noop, plans, events>>

\* remove_registered_worktree: what git will not remove, remove_dir_all does, and
\* the operation homes are below the scope root.
RemoveWorktree(c) ==
    LET gone == {job[c].plan.dir} \cap trees \cap Registered
    IN  /\ job[c].at = "remove" /\ ScopeThere
        /\ trees' = trees \ gone
        /\ noop' = noop \ gone
        /\ agent' = IF Root \in gone THEN {} ELSE agent
        /\ inputs' = IF Root \in gone THEN None ELSE inputs
        /\ End(c)
        /\ UNCHANGED <<unit, plans, events>>

-----------------------------------------------------------------------------
(* What else happens in the scope *)

Event ==
    /\ events < MaxEvents /\ ScopeThere
    /\ Overlap \/ \A c \in Client : ~Applying(c)
    /\ events' = events + 1
    /\ UNCHANGED <<inputs, noop, plans, job>>

\* An operation is created, in the author lane or with its agent.
Install(s, d) ==
    /\ Event
    /\ unit[s] = None /\ d \in Worktrees[s]
    /\ unit' = [unit EXCEPT ![s] = [dir |-> d, rest |-> 0]]
    /\ agent' = IF s \in Rival THEN agent ELSE agent \cup {s}
    /\ trees' = trees \cup {d}

\* Its unit is updated ...
Update(s) ==
    /\ Event
    /\ unit[s] # None
    /\ unit' = [unit EXCEPT ![s].rest = 1 - @]
    /\ UNCHANGED <<agent, trees>>

\* ... or bound to a fresh worktree, by recover_worktree: the old one is kept.
Rebind(s, d) ==
    /\ Event
    /\ unit[s] # None /\ d \in Worktrees[s] \ trees
    /\ unit' = [unit EXCEPT ![s].dir = d]
    /\ trees' = trees \cup {d}
    /\ UNCHANGED agent

\* The generation moves on, the agent works.
TreeChanges(d) ==
    /\ d \in trees \cap NoopTrees
    /\ noop' = (noop \ {d}) \cup ({d} \ noop)
    /\ UNCHANGED <<unit, agent, inputs, trees, plans, job, events>>

Init ==
    /\ \E home \in Homes :
          /\ unit = home.unit /\ inputs = home.inputs
          /\ trees = {Root} \cup {unit[s].dir : s \in {r \in Stem : unit[r] # None}}
          /\ agent = {s \in {cap, pr} : unit[s] # None}
    /\ noop = {} /\ plans = <<>> /\ job = [c \in Client |-> Idle] /\ events = 0

Next ==
    \/ \E c \in Client :
          \/ \E spec \in AdmitSpecs : PlanAdmit(c, spec)
          \/ SnapshotPr(c) \/ SealPr(c) \/ VerifyCapability(c) \/ SealCapability(c)
          \/ \E plan \in Range(plans) : StartAdmit(c, plan) \/ StartNormalize(c, plan)
          \/ CreateUnit(c) \/ DescribeUnit(c) \/ ReadInputs(c) \/ WriteInputs(c)
          \/ RetireUnit(c) \/ RemoveWorktree(c) \/ Stop(c)
    \/ \E s \in Stem : Update(s) \/ \E d \in Dir : Install(s, d) \/ Rebind(s, d)
    \/ \E d \in Dir : TreeChanges(d)

Spec == Init /\ [][Next]_vars

-----------------------------------------------------------------------------
(* Properties *)

Plan ==
    [verb : {"admit"}, stem : {cap}, saw : InputFile, entry : Entries,
     over : {Identity(s) : s \in {r \in AdmitSpecs : Parses(r)}} \cup {None}, dir : {None}]
    \cup [verb : {"normalize"}, stem : {cap, pr}, saw : UnitFile \cup {None}, entry : {None},
          over : {None}, dir : Dir \cup {None}]

\* Every variable has its type.
IntakeTypeOK ==
    /\ unit \in [Stem -> UnitFile \cup {None}] /\ agent \subseteq {cap, pr}
    /\ inputs \in InputFile
    /\ noop \subseteq trees /\ trees \subseteq Dir
    /\ plans \in Seq(Plan)
    /\ job \in [Client -> [at : {"idle", "bind", "seal", "create", "describe", "read", "write", "retire", "remove"},
                           plan : Plan \cup {None}, copy : Seq(Entries)]]

AdmitPlans == {plan \in Range(plans) : plan.verb = "admit"}

Offers ==
    {[saw |-> IF plan.saw = None THEN <<>> ELSE plan.saw,
      entry |-> plan.entry, over |-> plan.over] : plan \in AdmitPlans}

Ledger == INSTANCE Admissions WITH listed <- Listed, offers <- Offers

\* Admissions that do not overlap, planned in any number and any order, applied
\* late, again or after a creation that failed half-way, keep the list as the spec
\* of 2026-09-17 has it (D1, lines 281-290): each entry once, each against the list
\* its plan saw, a superseded one replaced in place and nothing else touched.
AdmissionsKept == Ledger!Spec

\* D6, D7: a worktree goes after the operation that works in it, never from under
\* one whose unit is still there because its retirement was refused.
TreesGoLast ==
    [][\A d \in trees \ trees', s \in Stem : unit[s] # None => unit[s].dir # d]_vars

\* D6, "refuse to `rm -rf` anything else" than the bound worktree: the scope root,
\* the WorkingDirectory of pull-request units (docs/SCOPES.md:185-186) and of
\* every capability that plan-admit creates, stays.
ScopeRootStays == Root \in trees
=============================================================================
