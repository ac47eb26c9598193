---------------------------- MODULE IntakeProofs ----------------------------
(***************************************************************************)
(* Proofs about Intake, for any clients, operations, directories, specs    *)
(* and installations, under what its run assumes too: applies do not       *)
(* overlap (OneAtATime), and each operation works in directories of its    *)
(* own, the scope root not among them (OwnWorktrees).                      *)
(*                                                                         *)
(* The argument: while an apply runs nobody else writes, so between its    *)
(* check and its write the desired inputs are still the ones its plan saw, *)
(* and between the retirement and the removal the operation's unit is      *)
(* still gone (JobSound); and a plan's directory is one that only its own  *)
(* operation may work in (PlansOwn).                                       *)
(***************************************************************************)
EXTENDS Intake, TLAPS

OneAtATime == ~Overlap

OwnWorktrees ==
    /\ \A s, t \in Stem : s # t => Worktrees[s] \cap Worktrees[t] \cap Registered = {}
    /\ \A s \in Stem : Root \notin Worktrees[s]
    /\ Root \notin NoopTrees
    /\ \A home \in Homes, s \in Stem : home.unit[s] # None => home.unit[s].dir \in Worktrees[s]

Parsed == {s \in AdmitSpecs : Parses(s)}
OverOrNone == {Identity(s) : s \in Parsed} \cup {None}
Step == {"idle", "bind", "seal", "create", "describe", "read", "write", "retire", "remove"}
Job == [at : Step, plan : Plan \cup {None}, copy : Seq(Entries)]

AdmitSteps == {"create", "describe", "read", "write"}

\* What the job of an apply, or of a plan half made, relies on.
JobSound(j) ==
    /\ j.at # "idle" => j.plan \in Plan
    /\ j.at \in AdmitSteps =>
          j.plan \in Range(plans) /\ j.plan.verb = "admit" /\ j.plan.saw = inputs
    /\ j.at = "write" => j.copy \in WithEntry(j.plan)
    /\ j.at \in {"retire", "remove", "bind", "seal"} => j.plan.verb = "normalize"
    /\ j.at = "bind" => j.plan.stem = pr
    /\ j.at = "remove" => unit[j.plan.stem] = None

NobodyElse == \A c, d \in Client : Applying(c) /\ Applying(d) => c = d

\* A directory that a normalisation may remove.
Owned(s, d) == d \in Registered => d \in Worktrees[s]

PlansOwn ==
    /\ \A plan \in Range(plans) : plan.verb = "normalize" => Owned(plan.stem, plan.dir)
    /\ \A c \in Client : job[c].at \in {"seal", "retire", "remove"} =>
           Owned(job[c].plan.stem, job[c].plan.dir)

\* Only the capability that plan-admit creates works in the scope root.
UnitsOwn ==
    \A s \in Stem : unit[s] # None =>
        unit[s].dir \in Worktrees[s] \/ (s = cap /\ unit[s].dir = Root)

NoopOwn == noop \subseteq NoopTrees

IInv ==
    /\ IntakeTypeOK
    /\ \A c \in Client : JobSound(job[c])
    /\ NobodyElse

Owns == PlansOwn /\ UnitsOwn /\ NoopOwn

-----------------------------------------------------------------------------
(* Facts about sequences, entries and plans *)

LEMMA Appended ==
    ASSUME NEW S, NEW s \in Seq(S), NEW e \in S
    PROVE  Append(s, e) \in Seq(S) /\ Range(Append(s, e)) = Range(s) \cup {e}
  <1>1. Append(s, e) \in Seq(S) /\ DOMAIN Append(s, e) = 1..Len(s) + 1
    OBVIOUS
  <1>2. \A n \in 1..Len(s) : Append(s, e)[n] = s[n]
    OBVIOUS
  <1>3. Append(s, e)[Len(s) + 1] = e
    OBVIOUS
  <1>4. Len(s) \in Nat /\ DOMAIN s = 1..Len(s)
    OBVIOUS
  <1> QED
    BY <1>1, <1>2, <1>3, <1>4 DEF Range

LEMMA InRange ==
    ASSUME NEW S, NEW s \in Seq(S)
    PROVE  Range(s) \subseteq S
  BY DEF Range

LEMMA Stems ==
    cap \in Stem /\ pr \in Stem
  BY DEF Stem

LEMMA ListedIsASequence ==
    ASSUME inputs \in InputFile
    PROVE  Listed \in Seq(Entries)
  BY DEF InputFile, Listed

LEMMA EntriesAreEntries ==
    \A spec \in AdmitSpecs : Parses(spec) => Entry(spec) \in Entries
  BY DEF Entries

LEMMA EntryFields ==
    \A e \in Entries : e.identity \in {Identity(s) : s \in Parsed}
  BY DEF Entries, Entry, Parsed

LEMMA PlanFields ==
    ASSUME NEW plan \in Plan
    PROVE  /\ plan.verb \in {"admit", "normalize"}
           /\ plan.verb = "admit" =>
                 /\ plan.saw \in InputFile /\ plan.entry \in Entries /\ plan.over \in OverOrNone
                 /\ plan.stem = cap
           /\ plan.verb = "normalize" =>
                 /\ plan.stem \in {cap, pr} /\ plan.saw \in UnitFile \cup {None}
                 /\ plan.dir \in Dir \cup {None}
  BY DEF Plan, OverOrNone, Parsed

\* What apply_admit writes is a list of entries again.
LEMMA WithEntryIsAList ==
    ASSUME inputs \in InputFile, NEW plan, plan.entry \in Entries
    PROVE  WithEntry(plan) \subseteq Seq(Entries)
  <1>1. Listed \in Seq(Entries)
    BY ListedIsASequence
  <1>2. Append(Listed, plan.entry) \in Seq(Entries)
    BY <1>1
  <1>3. \A n \in DOMAIN Listed : ReplaceAt(Listed, n, plan.entry) \in Seq(Entries)
    BY <1>1 DEF ReplaceAt
  <1> QED
    BY <1>2, <1>3 DEF WithEntry

-----------------------------------------------------------------------------
(* Types and jobs *)

\* A step of one client's job that leaves units, inputs and plans alone.
LEMMA JobStep ==
    ASSUME IInv, NEW c \in Client, NEW j \in Job, JobSound(j),
           job' = [job EXCEPT ![c] = j],
           UNCHANGED <<unit, inputs, plans>>,
           noop' \subseteq trees', trees' \subseteq Dir, agent' \subseteq {cap, pr},
           j.at \notin {"idle", "bind", "seal"} => \A d \in Client : Applying(d) => c = d
    PROVE  IInv'
  <1> USE DEF IInv
  <1>1. IntakeTypeOK'
    BY DEF IntakeTypeOK, Job, Step
  <1>2. \A d \in Client : job'[d] = IF d = c THEN j ELSE job[d]
    BY DEF IntakeTypeOK
  <1>3. ASSUME NEW d \in Client
        PROVE  JobSound(job[d])'
    <2>1. PICK k : k = job'[d]
      OBVIOUS
    <2>2. JobSound(k)
      BY <1>2, <2>1
    <2>3. JobSound(k)'
      BY <2>2 DEF JobSound, WithEntry, Listed
    <2> QED
      BY <2>1, <2>3 DEF JobSound, WithEntry, Listed
  <1>4. NobodyElse'
    BY <1>2 DEF NobodyElse, Applying
  <1> QED
    BY <1>1, <1>3, <1>4

LEMMA IdleIsAJob ==
    Idle \in Job /\ JobSound(Idle) /\ Idle.at = "idle"
  BY DEF Idle, Job, Step, JobSound, AdmitSteps

\* A step of the one apply that runs.
LEMMA ApplyStep ==
    ASSUME IInv, NEW c \in Client, Applying(c), NEW j \in Job,
           job' = [job EXCEPT ![c] = j], UNCHANGED plans,
           IntakeTypeOK', JobSound(j)'
    PROVE  IInv'
  <1> USE DEF IInv
  <1>1. \A d \in Client : job'[d] = IF d = c THEN j ELSE job[d]
    BY DEF IntakeTypeOK
  <1>2. ASSUME NEW d \in Client
        PROVE  JobSound(job[d])'
    <2>1. CASE d = c
      BY <1>1, <2>1 DEF JobSound, WithEntry, Listed
    <2>2. CASE d # c
      <3>1. job'[d] = job[d]
        BY <1>1, <2>2
      <3>2. job[d].at \in {"idle", "bind", "seal"} /\ JobSound(job[d])
        BY <2>2 DEF NobodyElse, Applying
      <3> QED
        BY <3>1, <3>2 DEF JobSound, AdmitSteps
    <2> QED
      BY <2>1, <2>2
  <1>3. NobodyElse'
    BY <1>1 DEF NobodyElse, Applying
  <1> QED
    BY <1>2, <1>3

\* A plan is sealed, by a client that writes nothing.
LEMMA SealKeeps ==
    ASSUME IInv, NEW plan \in Plan, Seal(plan), NEW c \in Client,
           job' = job \/ job' = [job EXCEPT ![c] = Idle]
    PROVE  IInv'
  <1> USE DEF IInv
  <1>1. /\ UNCHANGED <<unit, agent, inputs, trees, noop>>
        /\ plans' = Append(plans, plan)
    BY DEF Seal
  <1>2. plans' \in Seq(Plan) /\ Range(plans') = Range(plans) \cup {plan}
    BY <1>1, Appended DEF IntakeTypeOK
  <1>3. job' \in [Client -> Job]
    <2>1. job \in [Client -> Job]
      BY DEF IntakeTypeOK, Job, Step
    <2> QED
      BY <2>1, IdleIsAJob
  <1>4. IntakeTypeOK'
    BY <1>1, <1>2, <1>3 DEF IntakeTypeOK, Job, Step
  <1>5. \A d \in Client : job'[d] = job[d] \/ job'[d] = Idle
    BY DEF IntakeTypeOK
  <1>6. ASSUME NEW d \in Client
        PROVE  JobSound(job[d])'
    <2>1. PICK k : k = job'[d]
      OBVIOUS
    <2>2. JobSound(k)
      BY <1>5, <2>1, IdleIsAJob
    <2>3. JobSound(k)'
      BY <1>1, <1>2, <2>2 DEF JobSound, WithEntry, Listed
    <2> QED
      BY <2>1, <2>3 DEF JobSound, WithEntry, Listed
  <1>7. NobodyElse'
    BY <1>5, IdleIsAJob DEF NobodyElse, Applying
  <1> QED
    BY <1>4, <1>6, <1>7

LEMMA PlanKeeps ==
    ASSUME IInv, NEW c \in Client,
           \/ \E spec \in AdmitSpecs : PlanAdmit(c, spec)
           \/ SealPr(c) \/ SealCapability(c)
    PROVE  IInv'
  <1> USE DEF IInv
  <1>1. ASSUME NEW spec \in AdmitSpecs, PlanAdmit(c, spec)
        PROVE  IInv'
    <2> DEFINE plan == [verb |-> "admit", stem |-> cap, saw |-> inputs, entry |-> Entry(spec),
                        over |-> spec.over, dir |-> None]
    <2>1. Entry(spec) \in Entries
      BY <1>1, EntriesAreEntries DEF PlanAdmit
    <2>2. spec.over \in OverOrNone
      <3>1. CASE spec.over = None
        BY <3>1 DEF OverOrNone
      <3>2. CASE spec.over # None
        <4>1. spec.over \in Identities
          BY <1>1, <3>2 DEF PlanAdmit
        <4>2. Range(Listed) \subseteq Entries
          BY ListedIsASequence, InRange DEF IntakeTypeOK
        <4> QED
          BY <4>1, <4>2, EntryFields DEF Identities, OverOrNone
      <3> QED
        BY <3>1, <3>2
    <2>3. plan \in Plan
      BY <2>1, <2>2 DEF Plan, OverOrNone, Parsed, IntakeTypeOK
    <2> QED
      BY <1>1, <2>3, SealKeeps DEF PlanAdmit
  <1>2. CASE SealPr(c)
    <2>1. PICK k \in Plan : k = job[c].plan /\ k.verb = "normalize"
      BY <1>2 DEF SealPr, JobSound
    <2>2. PICK d : d = IF unit[pr] = None THEN None ELSE unit[pr].dir
      OBVIOUS
    <2>3. d \in Dir \cup {None}
      BY <2>2, Stems DEF IntakeTypeOK, UnitFile
    <2>4. [k EXCEPT !.dir = d] \in Plan
      BY <2>1, <2>3 DEF Plan
    <2>5. Seal([k EXCEPT !.dir = d]) /\ job' = [job EXCEPT ![c] = Idle]
      BY <1>2, <2>1, <2>2 DEF SealPr
    <2> QED
      BY <2>4, <2>5, SealKeeps
  <1>3. CASE SealCapability(c)
    <2> DEFINE plan == [job[c].plan EXCEPT !.saw = unit[cap]]
    <2>1. job[c].plan \in Plan /\ job[c].plan.verb = "normalize"
      BY <1>3 DEF SealCapability, JobSound
    <2>2. unit[cap] \in UnitFile
      BY <1>3, Stems DEF SealCapability, IntakeTypeOK
    <2>3. plan \in Plan
      BY <2>1, <2>2 DEF Plan
    <2> QED
      BY <1>3, <2>3, SealKeeps DEF SealCapability
  <1> QED
    BY <1>1, <1>2, <1>3

\* A job begins, or ends.
LEMMA JobsKeep ==
    ASSUME OneAtATime, IInv, NEW c \in Client,
           \/ SnapshotPr(c) \/ VerifyCapability(c) \/ Stop(c)
           \/ \E plan \in Range(plans) : StartAdmit(c, plan) \/ StartNormalize(c, plan)
    PROVE  IInv'
  <1> USE DEF IInv
  <1>1. CASE VerifyCapability(c)
    <2> DEFINE j == [at |-> "seal", plan |-> Normalize(cap, None, unit[cap].dir), copy |-> <<>>]
    <2>1. unit[cap] \in UnitFile
      BY <1>1, Stems DEF VerifyCapability, IntakeTypeOK
    <2>2. Normalize(cap, None, unit[cap].dir) \in Plan
      BY <2>1 DEF Normalize, Plan, UnitFile
    <2>3. j \in Job /\ JobSound(j) /\ j.at = "seal"
      BY <2>2 DEF Job, Step, JobSound, AdmitSteps, Normalize
    <2>4. job' = [job EXCEPT ![c] = j] /\ UNCHANGED <<unit, agent, inputs, trees, noop, plans>>
      BY <1>1 DEF VerifyCapability, Prepare
    <2> HIDE DEF j
    <2> QED
      BY <2>3, <2>4, JobStep DEF IntakeTypeOK
  <1>2. CASE Stop(c)
    BY <1>2, IdleIsAJob, JobStep DEF Stop, End, IntakeTypeOK
  <1>3. ASSUME NEW plan \in Range(plans), StartAdmit(c, plan)
        PROVE  IInv'
    <2> DEFINE j == [at |-> IF cap \in agent THEN "read" ELSE "create",
                     plan |-> plan, copy |-> <<>>]
    <2>1. plan \in Plan
      BY InRange DEF IntakeTypeOK
    <2>2. j \in Job /\ JobSound(j) /\ j.at \in {"read", "create"}
      BY <1>3, <2>1 DEF Job, Step, JobSound, StartAdmit
    <2>3. job' = [job EXCEPT ![c] = j] /\ UNCHANGED <<unit, agent, inputs, trees, noop, plans>>
      BY <1>3 DEF StartAdmit
    <2>4. \A d \in Client : ~Applying(d)
      BY <1>3 DEF StartAdmit, MayStart, OneAtATime
    <2> HIDE DEF j
    <2> QED
      BY <2>2, <2>3, <2>4, JobStep DEF IntakeTypeOK
  <1>4. ASSUME NEW plan \in Range(plans), StartNormalize(c, plan)
        PROVE  IInv'
    <2> DEFINE j == [at |-> "retire", plan |-> plan, copy |-> <<>>]
    <2>1. plan \in Plan
      BY InRange DEF IntakeTypeOK
    <2>2. j \in Job /\ JobSound(j)
      BY <1>4, <2>1 DEF Job, Step, JobSound, StartNormalize, AdmitSteps
    <2>3. job' = [job EXCEPT ![c] = j] /\ UNCHANGED <<unit, agent, inputs, trees, noop, plans>>
      BY <1>4 DEF StartNormalize
    <2>4. \A d \in Client : ~Applying(d)
      BY <1>4 DEF StartNormalize, MayStart, OneAtATime
    <2> HIDE DEF j
    <2> QED
      BY <2>2, <2>3, <2>4, JobStep DEF IntakeTypeOK
  <1>5. CASE SnapshotPr(c)
    <2> DEFINE j == [at |-> "bind", plan |-> Normalize(pr, unit[pr], None), copy |-> <<>>]
    <2>1. unit[pr] \in UnitFile
      BY <1>5, Stems DEF SnapshotPr, IntakeTypeOK
    <2>2. Normalize(pr, unit[pr], None) \in Plan
      BY <2>1 DEF Normalize, Plan
    <2>3. j \in Job /\ JobSound(j) /\ j.at = "bind"
      BY <2>2 DEF Job, Step, JobSound, AdmitSteps, Normalize
    <2>4. job' = [job EXCEPT ![c] = j] /\ UNCHANGED <<unit, agent, inputs, trees, noop, plans>>
      BY <1>5 DEF SnapshotPr, Prepare
    <2> HIDE DEF j
    <2> QED
      BY <2>3, <2>4, JobStep DEF IntakeTypeOK
  <1> QED
    BY <1>1, <1>2, <1>3, <1>4, <1>5

LEMMA GoIsAJob ==
    ASSUME IInv, NEW c \in Client, NEW at \in Step, NEW copy, Go(c, at, copy),
           copy \in Seq(Entries)
    PROVE  LET j == [at |-> at, plan |-> job[c].plan, copy |-> copy]
           IN  j \in Job /\ job' = [job EXCEPT ![c] = j]
  <1>1. job \in [Client -> Job]
    BY DEF IInv, IntakeTypeOK, Job, Step
  <1>2. job[c].plan \in Plan \cup {None}
    BY <1>1 DEF Job
  <1>3. [at |-> at, plan |-> job[c].plan, copy |-> copy] \in Job
    BY <1>2 DEF Job
  <1> QED
    BY <1>3 DEF Go

\* IntakeTypeOK with the jobs as one set.
Typed ==
    /\ unit \in [Stem -> UnitFile \cup {None}] /\ agent \subseteq {cap, pr}
    /\ inputs \in InputFile
    /\ noop \subseteq trees /\ trees \subseteq Dir
    /\ plans \in Seq(Plan)
    /\ job \in [Client -> Job]

LEMMA Types == IntakeTypeOK <=> Typed
  BY DEF IntakeTypeOK, Typed, Job, Step

LEMMA TypesNext == (IntakeTypeOK <=> Typed)'
  BY Types, PTL

LEMMA IdleSoundNext == JobSound(Idle)'
  BY DEF Idle, JobSound, AdmitSteps

LEMMA AppliesKeep ==
    ASSUME IInv, NEW c \in Client,
           \/ CreateUnit(c) \/ DescribeUnit(c) \/ ReadInputs(c) \/ WriteInputs(c)
           \/ RetireUnit(c) \/ RemoveWorktree(c)
    PROVE  IInv'
  <1> USE DEF IInv
  <1>1. UNCHANGED plans /\ Applying(c)
    BY DEF CreateUnit, DescribeUnit, ReadInputs, WriteInputs, RetireUnit, RemoveWorktree, Applying
  <1>2. /\ <<>> \in Seq(Entries) /\ job[c].plan \in Plan /\ job \in [Client -> Job]
        /\ JobSound(job[c])
    BY <1>1 DEF Applying, JobSound, IntakeTypeOK, Job, Step
  <1>0. PICK pl : pl = job[c].plan
    OBVIOUS
  <1>3. CASE CreateUnit(c)
    <2> DEFINE j == [at |-> "describe", plan |-> pl, copy |-> <<>>]
    <2>1. j \in Job /\ job' = [job EXCEPT ![c] = j]
      BY <1>2, <1>3, <1>0, GoIsAJob DEF CreateUnit, Step
    <2>2. job' \in [Client -> Job]
      BY <1>2, <2>1
    <2>3. [dir |-> Root, rest |-> 0] \in UnitFile
      BY IntakeAssumption DEF UnitFile
    <2>4. IntakeTypeOK'
      BY Types, TypesNext, <1>1, <1>3, <2>2, <2>3 DEF CreateUnit, Typed
    <2>5. JobSound(j)'
      BY <1>0, <1>1, <1>2, <1>3 DEF CreateUnit, JobSound, AdmitSteps
    <2> QED
      BY <1>1, <2>1, <2>4, <2>5, ApplyStep
  <1>4. CASE DescribeUnit(c)
    <2> DEFINE j == [at |-> "read", plan |-> pl, copy |-> <<>>]
    <2>1. j \in Job /\ job' = [job EXCEPT ![c] = j]
      BY <1>2, <1>4, <1>0, GoIsAJob DEF DescribeUnit, Step
    <2>2. job' \in [Client -> Job]
      BY <1>2, <2>1
    <2>3. IntakeTypeOK'
      BY Types, TypesNext, <1>1, <1>4, <2>2 DEF DescribeUnit, Typed
    <2>4. JobSound(j)'
      BY <1>0, <1>1, <1>2, <1>4 DEF DescribeUnit, JobSound, AdmitSteps
    <2> QED
      BY <1>1, <2>1, <2>3, <2>4, ApplyStep
  <1>5. CASE ReadInputs(c)
    <2>1. PICK copy \in WithEntry(job[c].plan) : Go(c, "write", copy)
      BY <1>5 DEF ReadInputs
    <2>2. /\ job[c].plan.verb = "admit" /\ job[c].plan \in Range(plans)
          /\ job[c].plan.saw = inputs
      BY <1>2, <1>5 DEF ReadInputs, JobSound, AdmitSteps
    <2>3. copy \in Seq(Entries)
      BY <1>2, <2>1, <2>2, PlanFields, WithEntryIsAList DEF IntakeTypeOK
    <2> DEFINE j == [at |-> "write", plan |-> pl, copy |-> copy]
    <2>4. j \in Job /\ job' = [job EXCEPT ![c] = j]
      BY <2>1, <2>3, <1>0, GoIsAJob DEF Step
    <2>5. job' \in [Client -> Job]
      BY <1>2, <2>4
    <2>6. IntakeTypeOK'
      BY Types, TypesNext, <1>1, <1>5, <2>5 DEF ReadInputs, Typed
    <2>7. JobSound(j)
      BY <1>0, <1>2, <2>1, <2>2 DEF JobSound, AdmitSteps
    <2>8. JobSound(j)'
      BY <1>0, <1>1, <1>5, <2>7 DEF ReadInputs, JobSound, WithEntry, Listed
    <2> QED
      BY <1>1, <2>4, <2>6, <2>8, ApplyStep
  <1>6. CASE WriteInputs(c)
    <2>1. job[c].copy \in Seq(Entries)
      BY <1>2 DEF Job
    <2>2. job' \in [Client -> Job]
      BY <1>2, <1>6, IdleIsAJob DEF WriteInputs, End
    <2>3. IntakeTypeOK'
      BY Types, TypesNext, <1>1, <1>6, <2>1, <2>2 DEF WriteInputs, Typed, InputFile
    <2> QED
      BY <1>1, <1>6, <2>3, IdleIsAJob, IdleSoundNext, ApplyStep DEF WriteInputs, End
  <1>7. CASE RetireUnit(c)
    <2> DEFINE j == [at |-> "remove", plan |-> pl, copy |-> <<>>]
    <2>1. j \in Job /\ job' = [job EXCEPT ![c] = j]
      BY <1>2, <1>7, <1>0, GoIsAJob DEF RetireUnit, Step
    <2>2. job' \in [Client -> Job]
      BY <1>2, <2>1
    <2>3. pl.verb = "normalize" /\ pl.stem \in Stem
      BY <1>0, <1>2, <1>7, PlanFields, Stems DEF RetireUnit, JobSound
    <2>4. IntakeTypeOK'
      BY Types, TypesNext, <1>1, <1>7, <2>2 DEF RetireUnit, Typed
    <2>5. unit'[pl.stem] = None
      BY <1>0, <1>7, <2>3 DEF RetireUnit, IntakeTypeOK
    <2>6. JobSound(j)'
      BY <1>0, <1>2, <2>3, <2>5 DEF JobSound, AdmitSteps
    <2> QED
      BY <1>1, <2>1, <2>4, <2>6, ApplyStep
  <1>8. CASE RemoveWorktree(c)
    <2>1. /\ UNCHANGED unit /\ End(c)
          /\ noop' \subseteq trees' /\ trees' \subseteq Dir
          /\ agent' \subseteq {cap, pr} /\ inputs' \in InputFile
      BY <1>8 DEF RemoveWorktree, IntakeTypeOK, InputFile
    <2>2. job' \in [Client -> Job]
      BY <1>2, <2>1, IdleIsAJob DEF End
    <2>3. IntakeTypeOK'
      BY Types, TypesNext, <1>1, <2>1, <2>2 DEF Typed
    <2> QED
      BY <1>1, <2>1, <2>3, IdleIsAJob, IdleSoundNext, ApplyStep DEF End
  <1> QED
    BY <1>3, <1>4, <1>5, <1>6, <1>7, <1>8

\* What happens in the scope while no apply runs, or to what no apply looks at.
LEMMA ScopeKeeps ==
    ASSUME OneAtATime, IInv,
           \/ \E s \in Stem : Update(s) \/ \E d \in Dir : Install(s, d) \/ Rebind(s, d)
           \/ \E d \in Dir : TreeChanges(d)
    PROVE  IInv'
  <1> USE DEF IInv
  <1>1. ASSUME NEW d \in Dir, TreeChanges(d)
        PROVE  IInv'
    <2>1. noop' \subseteq trees' /\ UNCHANGED <<unit, agent, inputs, trees, plans, job>>
      BY <1>1 DEF TreeChanges, IntakeTypeOK
    <2>2. IntakeTypeOK'
      BY <2>1 DEF IntakeTypeOK
    <2>3. ASSUME NEW c \in Client
          PROVE  JobSound(job[c])'
      <3>1. JobSound(job[c])
        OBVIOUS
      <3> QED
        BY <2>1, <3>1 DEF JobSound, WithEntry, Listed
    <2>4. NobodyElse'
      BY <2>1 DEF NobodyElse, Applying
    <2> QED
      BY <2>2, <2>3, <2>4
  <1>2. ASSUME NEW s \in Stem, Update(s) \/ \E d \in Dir : Install(s, d) \/ Rebind(s, d)
        PROVE  IInv'
    <2>1. Event /\ UNCHANGED <<inputs, noop, plans, job>>
      BY <1>2 DEF Update, Install, Rebind, Event
    <2>2. \A c \in Client : ~Applying(c)
      BY <2>1 DEF Event, OneAtATime
    <2>3. unit' \in [Stem -> UnitFile \cup {None}]
      <3>1. CASE Update(s)
        <4>1. unit[s] \in UnitFile
          BY <3>1 DEF Update, IntakeTypeOK
        <4>2. [unit[s] EXCEPT !.rest = 1 - @] \in UnitFile
          BY <4>1 DEF UnitFile
        <4>3. unit' = [unit EXCEPT ![s] = [unit[s] EXCEPT !.rest = 1 - @]]
          BY <3>1 DEF Update
        <4> QED
          BY <4>2, <4>3 DEF IntakeTypeOK
      <3>2. CASE \E d \in Dir : Install(s, d)
        <4>1. PICK d \in Dir : unit' = [unit EXCEPT ![s] = [dir |-> d, rest |-> 0]]
          BY <3>2 DEF Install
        <4>2. [dir |-> d, rest |-> 0] \in UnitFile
          BY DEF UnitFile
        <4> QED
          BY <4>1, <4>2 DEF IntakeTypeOK
      <3>3. CASE \E d \in Dir : Rebind(s, d)
        <4>1. PICK d \in Dir : Rebind(s, d)
          BY <3>3
        <4>2. unit[s] \in UnitFile
          BY <4>1 DEF Rebind, IntakeTypeOK
        <4>3. [unit[s] EXCEPT !.dir = d] \in UnitFile
          BY <4>2 DEF UnitFile
        <4>4. unit' = [unit EXCEPT ![s] = [unit[s] EXCEPT !.dir = d]]
          BY <4>1 DEF Rebind
        <4> QED
          BY <4>3, <4>4 DEF IntakeTypeOK
      <3> QED
        BY <1>2, <3>1, <3>2, <3>3
    <2>4. agent' \subseteq {cap, pr} /\ trees \subseteq trees' /\ trees' \subseteq Dir
      BY <1>2 DEF Update, Install, Rebind, IntakeTypeOK, Stem
    <2>5. IntakeTypeOK'
      BY <2>1, <2>3, <2>4 DEF IntakeTypeOK
    <2>6. ASSUME NEW c \in Client
          PROVE  JobSound(job[c])'
      <3>1. job[c].at \in {"idle", "bind", "seal"}
        BY <2>2 DEF Applying
      <3> QED
        BY <2>1, <3>1 DEF JobSound, AdmitSteps
    <2>7. NobodyElse'
      BY <2>1, <2>2 DEF NobodyElse, Applying
    <2> QED
      BY <2>5, <2>6, <2>7
  <1> QED
    BY <1>1, <1>2

LEMMA InitHolds ==
    ASSUME Init
    PROVE  IInv
  <1>1. PICK home \in Homes : unit = home.unit /\ inputs = home.inputs
    BY DEF Init
  <1>2. unit \in [Stem -> UnitFile \cup {None}] /\ inputs \in InputFile
    BY <1>1, HomesAssumption
  <1>3. job \in [Client -> Job]
    BY IdleIsAJob DEF Init
  <1>4. trees \subseteq Dir
    <2>1. \A s \in Stem : unit[s] # None => unit[s].dir \in Dir
      BY <1>1, HomesAssumption
    <2> QED
      BY <2>1, IntakeAssumption DEF Init
  <1>5. IntakeTypeOK
    BY <1>2, <1>3, <1>4 DEF Init, IntakeTypeOK, Job, Step
  <1> QED
    BY <1>5, IdleIsAJob DEF Init, IInv, NobodyElse, Applying

LEMMA StepKeeps ==
    ASSUME OneAtATime, IInv, [Next]_vars
    PROVE  IInv'
  <1>1. CASE UNCHANGED vars
    <2> USE DEF IInv
    <2>1. UNCHANGED <<unit, agent, inputs, trees, noop, plans, job>>
      BY <1>1 DEF vars
    <2>2. IntakeTypeOK'
      BY <2>1 DEF IntakeTypeOK
    <2>3. ASSUME NEW c \in Client
          PROVE  JobSound(job[c])'
      <3>1. JobSound(job[c])
        OBVIOUS
      <3> QED
        BY <2>1, <3>1 DEF JobSound, WithEntry, Listed
    <2>4. NobodyElse'
      BY <2>1 DEF NobodyElse, Applying
    <2> QED
      BY <2>2, <2>3, <2>4
  <1>2. CASE Next
    BY <1>2, PlanKeeps, JobsKeep, AppliesKeep, ScopeKeeps DEF Next
  <1> QED
    BY <1>1, <1>2

-----------------------------------------------------------------------------
(* Who owns a directory *)

LEMMA InitOwns ==
    ASSUME OwnWorktrees, Init
    PROVE  Owns
  <1>1. UnitsOwn
    BY DEF Init, UnitsOwn, OwnWorktrees
  <1>2. PlansOwn
    BY IdleIsAJob DEF Init, PlansOwn, Range
  <1> QED
    BY <1>1, <1>2 DEF Owns, NoopOwn, Init

\* The units and the verified no-ops.
LEMMA UnitsStayOwn ==
    ASSUME OwnWorktrees, IInv, Owns, [Next]_vars
    PROVE  UnitsOwn' /\ NoopOwn'
  <1> USE DEF Owns
  <1>1. unit \in [Stem -> UnitFile \cup {None}] /\ cap \in Stem
    BY Stems DEF IInv, IntakeTypeOK
  <1>2. CASE \E s \in Stem : Update(s) \/ \E d \in Dir : Install(s, d) \/ Rebind(s, d)
    <2>1. PICK s \in Stem : Update(s) \/ \E d \in Dir : Install(s, d) \/ Rebind(s, d)
      BY <1>2
    <2>2. UNCHANGED noop /\ \A t \in Stem : t # s => unit'[t] = unit[t]
      BY <2>1, <1>1 DEF Update, Install, Rebind, Event
    <2>3. CASE Update(s)
      <3>1. unit[s] \in UnitFile /\ unit[s] # None
        BY <2>3, <1>1 DEF Update
      <3>2. unit'[s] = [unit[s] EXCEPT !.rest = 1 - @]
        BY <2>3, <1>1 DEF Update
      <3>3. unit'[s].dir = unit[s].dir
        BY <3>1, <3>2 DEF UnitFile
      <3> QED
        BY <2>2, <3>1, <3>3 DEF UnitsOwn, NoopOwn
    <2>4. CASE \E d \in Dir : Install(s, d)
      <3>1. PICK d \in Dir : Install(s, d)
        BY <2>4
      <3>2. unit'[s].dir = d /\ d \in Worktrees[s]
        BY <3>1, <1>1 DEF Install
      <3> QED
        BY <2>2, <3>2 DEF UnitsOwn, NoopOwn
    <2>5. CASE \E d \in Dir : Rebind(s, d)
      <3>1. PICK d \in Dir : Rebind(s, d)
        BY <2>5
      <3>2. unit[s] \in UnitFile
        BY <3>1, <1>1 DEF Rebind
      <3>3. unit'[s] = [unit[s] EXCEPT !.dir = d] /\ d \in Worktrees[s]
        BY <3>1, <1>1 DEF Rebind
      <3>4. unit'[s].dir = d
        BY <3>2, <3>3 DEF UnitFile
      <3> QED
        BY <2>2, <3>3, <3>4 DEF UnitsOwn, NoopOwn
    <2> QED
      BY <2>1, <2>3, <2>4, <2>5
  <1>3. CASE \E c \in Client : CreateUnit(c)
    <2>1. unit' = [unit EXCEPT ![cap] = [dir |-> Root, rest |-> 0]] /\ UNCHANGED noop
      BY <1>3 DEF CreateUnit
    <2> QED
      BY <1>1, <2>1 DEF UnitsOwn, NoopOwn
  <1>4. CASE \E c \in Client : RetireUnit(c)
    <2>1. \A s \in Stem : unit'[s] = unit[s] \/ unit'[s] = None
      BY <1>1, <1>4 DEF RetireUnit
    <2> QED
      BY <1>4, <2>1 DEF UnitsOwn, NoopOwn, RetireUnit
  <1>5. CASE \/ UNCHANGED vars
             \/ \E d \in Dir : TreeChanges(d)
             \/ \E c \in Client : RemoveWorktree(c)
    BY <1>5 DEF UnitsOwn, NoopOwn, vars, TreeChanges, RemoveWorktree
  <1>6. CASE \E c \in Client :
                \/ \E spec \in AdmitSpecs : PlanAdmit(c, spec)
                \/ SnapshotPr(c) \/ SealPr(c) \/ VerifyCapability(c) \/ SealCapability(c)
                \/ \E plan \in Range(plans) : StartAdmit(c, plan) \/ StartNormalize(c, plan)
                \/ DescribeUnit(c) \/ ReadInputs(c) \/ WriteInputs(c) \/ Stop(c)
    BY <1>6 DEF UnitsOwn, NoopOwn, PlanAdmit, SnapshotPr, SealPr, Prepare, VerifyCapability, SealCapability,
                StartAdmit, StartNormalize, DescribeUnit, ReadInputs, WriteInputs, Stop, Seal
  <1> QED
    BY <1>2, <1>3, <1>4, <1>5, <1>6 DEF Next

\* The plans, and the jobs made from them.
LEMMA PlansStayOwn ==
    ASSUME OwnWorktrees, IInv, Owns, [Next]_vars
    PROVE  PlansOwn'
  <1> USE DEF Owns
  <1>1. /\ unit \in [Stem -> UnitFile \cup {None}] /\ cap \in Stem /\ pr \in Stem
        /\ plans \in Seq(Plan) /\ job \in [Client -> Job]
    BY Stems, Types DEF IInv, Typed
  <1> DEFINE OwnedPlan(p) == p.verb = "normalize" => Owned(p.stem, p.dir)
             OwnedJob(j) == j.at \in {"seal", "retire", "remove"} => Owned(j.plan.stem, j.plan.dir)
  <1>2. ASSUME NEW c \in Client, NEW j, job' = [job EXCEPT ![c] = j], OwnedJob(j), UNCHANGED plans
        PROVE  PlansOwn'
    <2>1. \A d \in Client : job'[d] = IF d = c THEN j ELSE job[d]
      BY <1>1, <1>2
    <2> QED
      BY <1>2, <2>1 DEF PlansOwn, Owned
  <1>3. ASSUME NEW p \in Plan, OwnedPlan(p), plans' = Append(plans, p),
               \A d \in Client : job'[d] = job[d] \/ job'[d] = Idle
        PROVE  PlansOwn'
    <2>1. Range(plans') = Range(plans) \cup {p}
      BY <1>1, <1>3, Appended
    <2> QED
      BY <1>3, <2>1, IdleIsAJob DEF PlansOwn, Owned
  <1>4. ASSUME NEW c \in Client, NEW spec \in AdmitSpecs, PlanAdmit(c, spec)
        PROVE  PlansOwn'
    <2> DEFINE p == [verb |-> "admit", stem |-> cap, saw |-> inputs, entry |-> Entry(spec),
                     over |-> spec.over, dir |-> None]
    <2>1. plans' = Append(plans, p) /\ UNCHANGED job /\ p.verb # "normalize"
      BY <1>4 DEF PlanAdmit, Seal
    <2>2. \A q \in Range(plans') : q \in Range(plans) \/ q = p
      BY <2>1, <1>1 DEF Range
    <2> HIDE DEF p
    <2> QED
      BY <2>1, <2>2 DEF PlansOwn, Owned
  <1>5. ASSUME NEW c \in Client, SealPr(c)
        PROVE  PlansOwn'
    <2>1. PICK k \in Plan : k = job[c].plan /\ k.stem = pr /\ k.verb = "normalize"
      BY <1>5 DEF SealPr, IInv, JobSound
    <2>2. PICK dir : dir = IF unit[pr] = None THEN None ELSE unit[pr].dir
      OBVIOUS
    <2>3. dir \in Dir \cup {None} /\ Owned(pr, dir)
      BY <1>1, <2>2, IntakeAssumption DEF UnitFile, UnitsOwn, Owned
    <2> DEFINE p == [k EXCEPT !.dir = dir]
    <2>4. plans' = Append(plans, p) /\ job' = [job EXCEPT ![c] = Idle]
      BY <1>5, <2>1, <2>2 DEF SealPr, Seal
    <2>5. p \in Plan /\ p.stem = pr /\ p.dir = dir
      BY <2>1, <2>3 DEF Plan
    <2>6. \A d \in Client : job'[d] = job[d] \/ job'[d] = Idle
      BY <1>1, <2>4
    <2> HIDE DEF p
    <2> QED
      BY <1>3, <2>3, <2>4, <2>5, <2>6
  <1>6. ASSUME NEW c \in Client, VerifyCapability(c)
        PROVE  PlansOwn'
    <2> DEFINE j == [at |-> "seal", plan |-> Normalize(cap, None, unit[cap].dir), copy |-> <<>>]
    <2>1. job' = [job EXCEPT ![c] = j] /\ UNCHANGED plans /\ unit[cap] # None
      BY <1>6 DEF VerifyCapability, Prepare
    <2>2. unit[cap].dir \in NoopTrees
      BY <1>6 DEF VerifyCapability, VerifiedNoop, NoopOwn
    <2>3. unit[cap].dir \in Worktrees[cap]
      BY <1>1, <2>1, <2>2 DEF UnitsOwn, OwnWorktrees
    <2>4. OwnedJob(j)
      BY <2>3 DEF Normalize, Owned
    <2> HIDE DEF j
    <2> QED
      BY <1>2, <2>1, <2>4
  <1>7. ASSUME NEW c \in Client, SealCapability(c)
        PROVE  PlansOwn'
    <2>1. PICK k \in Plan : k = job[c].plan /\ k.verb = "normalize"
      BY <1>7 DEF SealCapability, IInv, JobSound
    <2> DEFINE p == [k EXCEPT !.saw = unit[cap]]
    <2>2. /\ plans' = Append(plans, p) /\ job' = [job EXCEPT ![c] = Idle] /\ unit[cap] # None
          /\ Owned(k.stem, k.dir)
      BY <1>7, <2>1 DEF SealCapability, Seal, PlansOwn
    <2>3. unit[cap] \in UnitFile
      BY <1>1, <2>2
    <2>4. p \in Plan /\ p.stem = k.stem /\ p.dir = k.dir
      BY <2>1, <2>3 DEF Plan
    <2>5. \A d \in Client : job'[d] = job[d] \/ job'[d] = Idle
      BY <1>1, <2>2
    <2> HIDE DEF p
    <2> QED
      BY <1>3, <2>2, <2>4, <2>5
  <1>8. ASSUME NEW c \in Client, NEW plan \in Range(plans), StartAdmit(c, plan) \/ StartNormalize(c, plan)
        PROVE  PlansOwn'
    <2>1. PICK at \in {"read", "create", "retire"} :
              /\ job' = [job EXCEPT ![c] = [at |-> at, plan |-> plan, copy |-> <<>>]]
              /\ UNCHANGED plans
              /\ at = "retire" => plan.verb = "normalize"
      BY <1>8 DEF StartAdmit, StartNormalize
    <2>2. OwnedJob([at |-> at, plan |-> plan, copy |-> <<>>])
      BY <2>1 DEF PlansOwn
    <2> QED
      BY <1>2, <2>1, <2>2
  <1>9. ASSUME NEW c \in Client,
               CreateUnit(c) \/ DescribeUnit(c) \/ ReadInputs(c) \/ RetireUnit(c)
        PROVE  PlansOwn'
    <2>1. PICK pl : pl = job[c].plan
      OBVIOUS
    <2>2. ASSUME NEW at, NEW copy, Go(c, at, copy), UNCHANGED plans,
                 at \in {"seal", "retire", "remove"} => job[c].at = "retire"
          PROVE  PlansOwn'
      <3>1. job' = [job EXCEPT ![c] = [at |-> at, plan |-> pl, copy |-> copy]]
        BY <2>1, <2>2 DEF Go
      <3>2. OwnedJob([at |-> at, plan |-> pl, copy |-> copy])
        BY <2>1, <2>2 DEF PlansOwn
      <3> QED
        BY <1>2, <2>2, <3>1, <3>2
    <2>3. CASE CreateUnit(c)
      BY <2>2, <2>3 DEF CreateUnit
    <2>4. CASE DescribeUnit(c)
      BY <2>2, <2>4 DEF DescribeUnit
    <2>5. CASE ReadInputs(c)
      BY <2>2, <2>5 DEF ReadInputs
    <2>6. CASE RetireUnit(c)
      BY <2>2, <2>6 DEF RetireUnit
    <2> QED
      BY <1>9, <2>3, <2>4, <2>5, <2>6
  <1>10. ASSUME NEW c \in Client, WriteInputs(c) \/ RemoveWorktree(c) \/ Stop(c)
         PROVE  PlansOwn'
    <2>1. job' = [job EXCEPT ![c] = Idle] /\ UNCHANGED plans
      BY <1>10 DEF WriteInputs, RemoveWorktree, Stop, End
    <2> QED
      BY <1>2, <2>1, IdleIsAJob
  <1>11. ASSUME NEW c \in Client, SnapshotPr(c)
         PROVE  PlansOwn'
    <2>1. PICK k : job' = [job EXCEPT ![c] = [at |-> "bind", plan |-> k, copy |-> <<>>]]
                   /\ UNCHANGED plans
      BY <1>11 DEF SnapshotPr, Prepare
    <2> QED
      BY <1>2, <2>1
  <1>12. CASE \/ UNCHANGED vars \/ \E d \in Dir : TreeChanges(d)
              \/ \E s \in Stem : Update(s) \/ \E d \in Dir : Install(s, d) \/ Rebind(s, d)
    <2>1. UNCHANGED <<plans, job>>
      BY <1>12 DEF vars, TreeChanges, Update, Install, Rebind, Event
    <2> QED
      BY <2>1 DEF PlansOwn, Owned
  <1> QED
    BY <1>4, <1>5, <1>6, <1>7, <1>8, <1>9, <1>10, <1>11, <1>12 DEF Next

-----------------------------------------------------------------------------
(* The theorems *)

LEMMA AlwaysSound ==
    ASSUME OneAtATime
    PROVE  Spec => []IInv
  <1>1. Init => IInv
    BY InitHolds
  <1>2. IInv /\ [Next]_vars => IInv'
    BY StepKeeps
  <1> QED
    BY <1>1, <1>2, PTL DEF Spec

LEMMA AlwaysOwn ==
    ASSUME OneAtATime, OwnWorktrees
    PROVE  Spec => []Owns
  <1>1. Init => Owns
    BY InitOwns
  <1>2. IInv /\ Owns /\ [Next]_vars => Owns'
    BY UnitsStayOwn, PlansStayOwn DEF Owns
  <1> QED
    BY <1>1, <1>2, AlwaysSound, PTL DEF Spec

\* The types, which need the argument about overlapping applies: a list that is
\* written is the one that was made of the inputs read.
THEOREM IntakeTyped == OneAtATime => (Spec => []IntakeTypeOK)
  <1> SUFFICES ASSUME OneAtATime PROVE Spec => []IntakeTypeOK
    OBVIOUS
  <1>1. IInv => IntakeTypeOK
    BY DEF IInv
  <1> QED
    BY <1>1, AlwaysSound, PTL

\* Only the last step of a normalisation removes a directory: one of its own
\* operation, whose unit is gone.
LEMMA RemovedIsOwn ==
    ASSUME OwnWorktrees, IInv, Owns, NEW c \in Client, RemoveWorktree(c), NEW d \in trees \ trees'
    PROVE  \E s \in Stem : unit[s] = None /\ d \in Worktrees[s] \cap Registered
  <1>1. PICK pl : pl = job[c].plan
    OBVIOUS
  <1>2. d = pl.dir /\ d \in Registered
    BY <1>1 DEF RemoveWorktree
  <1>3. /\ Owned(pl.stem, pl.dir) /\ unit[pl.stem] = None
        /\ pl \in Plan /\ pl.verb = "normalize"
    BY <1>1 DEF RemoveWorktree, IInv, JobSound, Owns, PlansOwn
  <1>4. pl.stem \in Stem
    BY <1>3, PlanFields, Stems
  <1> QED
    BY <1>2, <1>3, <1>4 DEF Owned

\* By then no unit names it.
LEMMA RemovalIsLast ==
    ASSUME OwnWorktrees, IInv, Owns, NEW c \in Client, RemoveWorktree(c),
           NEW d \in trees \ trees', NEW s \in Stem, unit[s] # None
    PROVE  unit[s].dir # d
  <1>1. PICK t \in Stem : unit[t] = None /\ d \in Worktrees[t] \cap Registered
    BY RemovedIsOwn
  <1>2. unit[s].dir \in Worktrees[s] \/ unit[s].dir = Root
    BY DEF Owns, UnitsOwn
  <1> QED
    BY <1>1, <1>2 DEF OwnWorktrees

\* No step but that one removes a directory.
LEMMA TreesStay ==
    ASSUME [Next]_vars
    PROVE  trees \subseteq trees' \/ \E c \in Client : RemoveWorktree(c)
  BY DEF Next, vars, PlanAdmit, SnapshotPr, SealPr, Prepare, VerifyCapability, SealCapability, Seal, StartAdmit,
         StartNormalize, CreateUnit, DescribeUnit, ReadInputs, WriteInputs, RetireUnit, Stop,
         Update, Install, Rebind, TreeChanges

\* D6, D7 (TreesGoLast), for operations with directories of their own.
THEOREM TreesLast == OneAtATime /\ OwnWorktrees => (Spec => TreesGoLast)
  <1> SUFFICES ASSUME OneAtATime, OwnWorktrees PROVE Spec => TreesGoLast
    OBVIOUS
  <1>1. IInv /\ Owns /\ [Next]_vars =>
            [\A d \in trees \ trees', s \in Stem : unit[s] # None => unit[s].dir # d]_vars
    BY TreesStay, RemovalIsLast
  <1> QED
    BY <1>1, AlwaysSound, AlwaysOwn, PTL DEF Spec, TreesGoLast

\* The scope root is nobody's directory.
LEMMA RootIsKept ==
    ASSUME OwnWorktrees, IInv, Owns, NEW c \in Client, RemoveWorktree(c)
    PROVE  Root \in trees /\ Root \in trees' /\ UNCHANGED <<inputs, plans>>
  <1>1. Root \notin trees \ trees'
    BY RemovedIsOwn DEF OwnWorktrees
  <1> QED
    BY <1>1 DEF RemoveWorktree, ScopeThere

-----------------------------------------------------------------------------
(* Admissions *)

LEMMA LedgerStarts ==
    ASSUME Init
    PROVE  Ledger!Init
  <1>1. PICK home \in Homes : inputs = home.inputs
    BY DEF Init
  <1>2. IsInjective(Listed)
    BY <1>1, HomesAssumption DEF Listed, IsInjective
  <1>3. Offers = {}
    BY DEF Init, Offers, AdmitPlans, Range
  <1> QED
    BY <1>2, <1>3 DEF Ledger!Init, Ledger!IsInjective, IsInjective

LEMMA SameOffers ==
    ASSUME UNCHANGED <<inputs, plans>>
    PROVE  UNCHANGED <<Listed, Offers>>
  BY DEF Listed, Offers, AdmitPlans

\* A plan sealed is an offer at most.
LEMMA SealOffers ==
    ASSUME IInv, IInv', NEW plan, Seal(plan)
    PROVE  Ledger!Offer
  <1>1. plans' = Append(plans, plan) /\ UNCHANGED inputs
    BY DEF Seal
  <1>2. plans \in Seq(Plan)
    BY DEF IInv, IntakeTypeOK
  <1>3. Range(plans) \subseteq Range(plans')
    BY <1>1, <1>2 DEF Range
  <1>4. AdmitPlans \subseteq AdmitPlans'
    BY <1>3 DEF AdmitPlans
  <1>5. Offers \subseteq Offers'
    BY <1>4 DEF Offers
  <1> QED
    BY <1>1, <1>5 DEF Ledger!Offer, Listed

\* The list written is what the offer of its plan makes of the list as it is.
LEMMA WriteTakes ==
    ASSUME IInv, NEW c \in Client, WriteInputs(c)
    PROVE  Ledger!Next
  <1>1. PICK pl : pl = job[c].plan
    OBVIOUS
  <1>2. /\ pl \in AdmitPlans /\ pl.saw = inputs /\ job[c].copy \in WithEntry(pl)
    BY <1>1 DEF WriteInputs, IInv, JobSound, AdmitSteps, AdmitPlans
  <1>3. PICK copy : copy = job[c].copy
    OBVIOUS
  <1>4. copy \in Seq(Entries)
    BY <1>3 DEF IInv, IntakeTypeOK
  <1>5. Listed' = copy
    BY <1>3, <1>4, NoInputsAssumption DEF WriteInputs, Listed
  <1>6. UNCHANGED Offers
    BY DEF WriteInputs, Offers, AdmitPlans
  <1>7. PICK o : o = [saw |-> IF pl.saw = None THEN <<>> ELSE pl.saw,
                      entry |-> pl.entry, over |-> pl.over]
    OBVIOUS
  <1>8. o \in Offers /\ o.saw = Listed /\ o.entry = pl.entry /\ o.over = pl.over
    BY <1>2, <1>7 DEF Offers, Listed
  <1>9. copy \in WithEntry(pl)
    BY <1>2, <1>3
  <1>10. CASE pl.over = None
    BY <1>5, <1>6, <1>8, <1>9, <1>10 DEF WithEntry, Ledger!Next, Ledger!TakeNew,
                                                     Ledger!Range, Range
  <1>11. CASE pl.over # None
    <2>1. PICK n \in DOMAIN Listed :
              /\ Listed[n].identity = pl.over
              /\ \A m \in {k \in DOMAIN Listed : Listed[k].identity = pl.over} : n <= m
              /\ ~\E m \in DOMAIN Listed \ {n} : Listed[m] = pl.entry
              /\ copy = ReplaceAt(Listed, n, pl.entry)
      BY <1>9, <1>11 DEF WithEntry
    <2>2. Ledger!TakeOver(o)
      BY <1>5, <1>8, <1>11, <2>1 DEF Ledger!TakeOver, Ledger!ReplaceAt, ReplaceAt
    <2> QED
      BY <1>6, <1>8, <2>2 DEF Ledger!Next
  <1> QED
    BY <1>10, <1>11

LEMMA StepAdmits ==
    ASSUME OwnWorktrees, IInv, IInv', Owns, [Next]_vars
    PROVE  [Ledger!Next]_(Ledger!vars)
  <1>1. UNCHANGED <<inputs, plans>> => [Ledger!Next]_(Ledger!vars)
    BY SameOffers DEF Ledger!vars
  <1>2. ASSUME NEW c \in Client,
               \/ \E spec \in AdmitSpecs : PlanAdmit(c, spec)
               \/ SealPr(c) \/ SealCapability(c)
        PROVE  Ledger!Next
    BY <1>2, SealOffers DEF PlanAdmit, SealPr, SealCapability, Ledger!Next
  <1>3. ASSUME NEW c \in Client, WriteInputs(c)
        PROVE  Ledger!Next
    BY <1>3, WriteTakes
  <1>4. ASSUME NEW c \in Client, RemoveWorktree(c)
        PROVE  UNCHANGED <<inputs, plans>>
    BY <1>4, RootIsKept
  <1>5. CASE \/ UNCHANGED vars
             \/ \E c \in Client :
                   \/ SnapshotPr(c) \/ VerifyCapability(c) \/ CreateUnit(c) \/ DescribeUnit(c) \/ ReadInputs(c)
                   \/ RetireUnit(c) \/ Stop(c)
                   \/ \E plan \in Range(plans) : StartAdmit(c, plan) \/ StartNormalize(c, plan)
             \/ \E s \in Stem : Update(s) \/ \E d \in Dir : Install(s, d) \/ Rebind(s, d)
             \/ \E d \in Dir : TreeChanges(d)
    <2>1. UNCHANGED <<inputs, plans>>
      BY <1>5 DEF vars, SnapshotPr, Prepare, VerifyCapability, CreateUnit, DescribeUnit, ReadInputs, RetireUnit, Stop,
                  StartAdmit, StartNormalize, Update, Install, Rebind, Event, TreeChanges
    <2> QED
      BY <1>1, <2>1
  <1> QED
    BY <1>1, <1>2, <1>3, <1>4, <1>5 DEF Next

\* D1 (AdmissionsKept): plans made, applied late, again, or after a creation that
\* failed half-way, implement the list that takes each offer once.
THEOREM AdmissionsKeptByPlans == OneAtATime /\ OwnWorktrees => (Spec => AdmissionsKept)
  <1> SUFFICES ASSUME OneAtATime, OwnWorktrees PROVE Spec => AdmissionsKept
    OBVIOUS
  <1>1. Init => Ledger!Init
    BY LedgerStarts
  <1>2. IInv /\ IInv' /\ Owns /\ [Next]_vars => [Ledger!Next]_(Ledger!vars)
    BY StepAdmits
  <1> QED
    BY <1>1, <1>2, AlwaysSound, AlwaysOwn, PTL DEF Spec, AdmissionsKept, Ledger!Spec
=============================================================================
