------------------------ MODULE MaintainerPassProofs ------------------------
(***************************************************************************)
(* Proofs about MaintainerPass for every set of drivers and inputs, every  *)
(* movement of the world and the children, and every failure budget.       *)
(***************************************************************************)
EXTENDS MaintainerPass, TLAPS

-----------------------------------------------------------------------------
(* Types.  Registers bounds passes by MAX_INTELLIGENT_PASSES, which Launch     *)
(* keeps only because the loop condition was true when the pass began.         *)

PassBegun ==
    \A d \in Driver :
        pc[d] \in {"observed", "launch"} => reg[d].passes < MaxPasses

\* An absent file is a file of its own format.
LEMMA NullRecords ==
    /\ NoProcessed \in Processed
    /\ NoCheckpoint \in Checkpoint
    /\ NoBlocker \in Blocker
    /\ NoBudget \in Budget
    /\ NoPark \in Park
    /\ NoSession \in Session
    /\ NoRelease \in Release
    /\ NoRegisters \in Registers
BY BoundsAssumption DEF NoProcessed, Processed, NoCheckpoint, Checkpoint, NoBlocker,
   Blocker, NoBudget, Budget, NoPark, Park, NoSession, Session, NoRelease,
   Release, NoRegisters, Registers, InputOrNone, Outcome, BlockerKind,
   FailureKind, FailureKindOrNone

\* A driver that goes to a label of the script is at a label of the script.
LEMMA GotoType ==
    ASSUME pc \in [Driver -> Label], NEW d \in Driver, NEW l \in Label, Goto(d, l)
    PROVE  pc' \in [Driver -> Label]
BY DEF Goto

\* A driver that leaves does so with nothing but what its process held.
LEMMA LeaveType ==
    ASSUME TypeOK, NEW d \in Driver, Leave(d)
    PROVE  /\ pc' \in [Driver -> Label]
           /\ reg' \in [Driver -> Registers]
           /\ lock' \in Driver \union {Nobody}
           /\ lost' \in SUBSET Driver
<1>1. "idle" \in Label
  BY DEF Label
<1>2. NoRegisters \in Registers
  BY NullRecords
<1> QED
  BY <1>1, <1>2 DEF Leave, TypeOK

\* A count of failures saturates at the budget.
LEMMA CappedType ==
    ASSUME NEW n \in Nat
    PROVE  Capped(n) \in 0..FailureBudget
BY BoundsAssumption DEF Capped

\* A blocker of a known kind for an input, or for none, is a blocker.
LEMMA BlockerType ==
    ASSUME NEW k \in BlockerKind, NEW i \in InputOrNone, RecordBlocker(k, i)
    PROVE  blocker' \in Blocker
BY DEF RecordBlocker, Blocker

\* The input a driver is about to record is an input, or none yet.
LEMMA PostType ==
    ASSUME TypeOK, NEW d \in Driver
    PROVE  reg[d].post \in InputOrNone
BY DEF TypeOK, Registers

\* Initially every file is absent and every driver idle.
LEMMA InitType == Init => TypeOK
<1> SUFFICES ASSUME Init PROVE TypeOK
  OBVIOUS
<1>1. "idle" \in Label /\ 0 \in 0..FailureBudget
  BY BoundsAssumption DEF Label
<1> QED
  BY <1>1, NullRecords DEF Init, TypeOK, InputOrNone

\* The steps of a tick up to the launch of the agent.
LEMMA BeforePassType ==
    ASSUME TypeOK, PassBegun, NEW d \in Driver, BeforePass(d)
    PROVE  TypeOK'
<1> USE DEF files, environment, Stay
<1>1. CASE Wake(d)
  <2>1. pc' \in [Driver -> Label]
    BY <1>1, GotoType DEF Wake, TypeOK, Label, BeforeLock
  <2> QED
    BY <1>1, <2>1 DEF Wake, TypeOK
<1>2. CASE FindClean(d)
  <2>1. pc' \in [Driver -> Label]
    BY <1>2, GotoType DEF FindClean, TypeOK, Label, BeforeLock
  <2> QED
    BY <1>2, <2>1 DEF FindClean, TypeOK
<1>3. CASE Rebind(d)
  <2>1. pc' \in [Driver -> Label]
    BY <1>3, GotoType DEF Rebind, TypeOK, Label, BeforeLock
  <2> QED
    BY <1>3, <2>1 DEF Rebind, TypeOK
<1>4. CASE RecoverClearsBlocker(d)
  <2>1. pc' \in [Driver -> Label]
    BY <1>4, GotoType DEF RecoverClearsBlocker, TypeOK, Label, BeforeLock
  <2> QED
    BY <1>4, <2>1, NullRecords DEF RecoverClearsBlocker, TypeOK
<1>5. CASE RecoverRemovesPark(d)
  <2>1. pc' \in [Driver -> Label]
    BY <1>5, GotoType DEF RecoverRemovesPark, TypeOK, Label, BeforeLock
  <2> QED
    BY <1>5, <2>1, NullRecords DEF RecoverRemovesPark, TypeOK
<1>6. CASE EnsureFails(d)
  <2>1. blocker' \in Blocker
    BY <1>6, BlockerType DEF EnsureFails, TypeOK, BlockerKind
  <2>2. Leave(d)
    BY <1>6 DEF EnsureFails
  <2> QED
    BY <1>6, <2>1, <2>2, LeaveType DEF EnsureFails, TypeOK
<1>7. CASE Precheck(d)
  <2>1. CASE IsDue(world)
    <3>1. pc' \in [Driver -> Label]
      BY <1>7, <2>1, GotoType DEF Precheck, TypeOK, Label, BeforeLock
    <3> QED
      BY <1>7, <2>1, <3>1 DEF Precheck, TypeOK, InputOrNone
  <2>2. CASE ~IsDue(world)
    BY <1>7, <2>2, LeaveType DEF Precheck, TypeOK, InputOrNone
  <2> QED
    BY <2>1, <2>2
<1>8. CASE TryLock(d)
  <2>1. CASE lock = Nobody
    <3>1. pc' \in [Driver -> Label]
      BY <1>8, <2>1, GotoType DEF TryLock, TypeOK, Label, Locked
    <3> QED
      BY <1>8, <2>1, <3>1 DEF TryLock, TypeOK
  <2>2. CASE lock # Nobody
    BY <1>8, <2>2, LeaveType DEF TryLock, TypeOK
  <2> QED
    BY <2>1, <2>2
<1>9. CASE LoopHead(d)
  <2>1. CASE PassesLeft(d)
    <3>1. pc' \in [Driver -> Label]
      BY <1>9, <2>1, GotoType DEF LoopHead, TypeOK, Label, Locked
    <3>2. GenerationOf[world] \in Nat
      BY SetsAssumption DEF TypeOK
    <3>3. [NoRegisters EXCEPT !.passes = reg[d].passes,
                              !.generation = GenerationOf[world],
                              !.child = children] \in Registers
      BY <3>2, NullRecords DEF TypeOK, Registers
    <3>4. reg' \in [Driver -> Registers]
      BY <1>9, <2>1, <3>3 DEF LoopHead, TypeOK
    <3> QED
      BY <1>9, <2>1, <3>1, <3>4 DEF LoopHead, TypeOK
  <2>2. CASE ~PassesLeft(d)
    BY <1>9, <2>2, LeaveType DEF LoopHead, TypeOK
  <2> QED
    BY <2>1, <2>2
<1>10. CASE LoopObserve(d)
  <2>1. CASE IsDue(world)
    <3>1. pc' \in [Driver -> Label]
      BY <1>10, <2>1, GotoType DEF LoopObserve, TypeOK, Label, Locked, InPass
    <3>2. [reg[d] EXCEPT !.wake = world] \in Registers
      BY DEF TypeOK, Registers, InputOrNone
    <3>3. reg' \in [Driver -> Registers]
      BY <1>10, <2>1, <3>2 DEF LoopObserve, TypeOK
    <3> QED
      BY <1>10, <2>1, <3>1, <3>3 DEF LoopObserve, TypeOK, InputOrNone
  <2>2. CASE ~IsDue(world)
    BY <1>10, <2>2, LeaveType DEF LoopObserve, TypeOK, InputOrNone
  <2> QED
    BY <2>1, <2>2
<1>11. CASE Launch(d)
  <2>1. CASE GateOpens(reg[d].child)
    <3>1. pc' \in [Driver -> Label]
      BY <1>11, <2>1, GotoType DEF Launch, TypeOK, Label, Locked, InPass
    <3>2. reg[d].passes + 1 \in 0..MaxPasses
      BY <1>11, BoundsAssumption DEF Launch, PassBegun, TypeOK, Registers
    <3>3. reg' \in [Driver -> Registers]
      BY <1>11, <2>1, <3>2 DEF Launch, TypeOK, Registers
    <3>4. session' \in Session
      BY <1>11, <2>1 DEF Launch, Session, Outcome
    <3> QED
      BY <1>11, <2>1, <3>1, <3>3, <3>4 DEF Launch, TypeOK
  <2>2. CASE ~GateOpens(reg[d].child)
    BY <1>11, <2>2, LeaveType DEF Launch, TypeOK
  <2> QED
    BY <2>1, <2>2
<1> QED
  BY <1>1, <1>2, <1>3, <1>4, <1>5, <1>6, <1>7, <1>8, <1>9, <1>10, <1>11
  DEF BeforePass

\* The agent's own steps, and the steps that close its iteration.
LEMMA AgentType ==
    ASSUME TypeOK, NEW d \in Driver,
           \/ Agent(d) \/ SelfReport(d)
           \/ \E closes \in BOOLEAN : Finish(d, closes)
    PROVE  TypeOK'
<1> USE DEF files, environment
<1>1. CASE AgentEdits(d)
  BY <1>1 DEF AgentEdits, TypeOK
<1>2. CASE AgentReports(d)
  <2>1. session' \in Session
    BY <1>2 DEF AgentReports, TypeOK, Session, Outcome
  <2> QED
    BY <1>2, <2>1 DEF AgentReports, TypeOK
<1>3. CASE AgentExits(d)
  <2>1. pc' \in [Driver -> Label]
    BY <1>3, GotoType DEF AgentExits, TypeOK, Label, Locked, InPass
  <2>2. PICK k \in FailureKindOrNone : reg' = [reg EXCEPT ![d].kind = k]
    BY <1>3 DEF AgentExits, FailureKindOrNone, FailureKind
  <2>3. reg' \in [Driver -> Registers]
    BY <2>2 DEF TypeOK, Registers
  <2> QED
    BY <1>3, <2>1, <2>3 DEF AgentExits, TypeOK
<1>4. CASE SelfReport(d)
  <2>1. session' \in Session
    BY <1>4 DEF SelfReport, TypeOK, Session, Outcome
  <2> QED
    BY <1>4, <2>1 DEF SelfReport, TypeOK
<1>5. ASSUME NEW closes \in BOOLEAN, Finish(d, closes)
      PROVE  TypeOK'
  <2> DEFINE kind == CASE reg[d].kind # "none" -> reg[d].kind
                       [] ~closes -> "crash"
                       [] session.report = "none" -> "contract-failure"
                       [] OTHER -> "none"
  <2>1. kind \in FailureKindOrNone
    BY DEF TypeOK, Registers, FailureKindOrNone, FailureKind
  <2> DEFINE outcome == IF kind = "none" THEN session.report ELSE "none"
  <2>2. outcome \in Outcome
    BY DEF TypeOK, Session, Outcome
  <2>3. session' \in Session
    BY <1>5, NullRecords DEF Finish, TypeOK
  <2>4. reg' \in [Driver -> Registers]
    <3>1. reg' = [reg EXCEPT ![d].kind = kind, ![d].outcome = outcome]
      BY <1>5 DEF Finish
    <3> HIDE DEF kind, outcome
    <3>2. [reg[d] EXCEPT !.kind = kind, !.outcome = outcome] \in Registers
      BY <2>1, <2>2 DEF TypeOK, Registers
    <3> QED
      BY <3>1, <3>2 DEF TypeOK
  <2>5. pc' \in [Driver -> Label]
    <3>1. "context" \in Label /\ "count" \in Label
      BY DEF Label, Locked, Failing, Judging
    <3> QED
      BY <1>5, <3>1 DEF Finish, Goto, TypeOK
  <2>6. failed' \in [Input -> 0..FailureBudget]
    <3>1. \A i \in Input : Capped(failed[i] + 1) \in 0..FailureBudget
      BY CappedType DEF TypeOK
    <3> QED
      BY <1>5, <3>1 DEF Finish, TypeOK
  <2> QED
    BY <1>5, <2>3, <2>4, <2>5, <2>6 DEF Finish, TypeOK
<1> QED
  BY <1>1, <1>2, <1>3, <1>4, <1>5 DEF Agent

\* The steps that count a failed pass and park its input.
LEMMA FailPassType ==
    ASSUME TypeOK, NEW d \in Driver, FailPass(d)
    PROVE  TypeOK'
<1> USE DEF files, environment, Stay
<1>1. CASE CountFailure(d)
  <2>1. pc' \in [Driver -> Label]
    BY <1>1, GotoType DEF CountFailure, TypeOK, Label, Locked, Failing
  <2>2. FailureCount(reg[d].wake) \in Nat
    BY DEF FailureCount, TypeOK, Budget
  <2>3. Capped(FailureCount(reg[d].wake) + 1) \in 0..FailureBudget
    BY <2>2, CappedType
  <2>4. budget' \in Budget
    BY <1>1, <2>3 DEF CountFailure, TypeOK, Registers, Budget
  <2> QED
    BY <1>1, <2>1, <2>4 DEF CountFailure, TypeOK
<1>2. CASE Complain(d)
  <2>1. blocker' \in Blocker
    BY <1>2, BlockerType DEF Complain, TypeOK, Registers, BlockerKind
  <2>2. CASE budget.failures >= FailureBudget
    <3>1. pc' \in [Driver -> Label]
      BY <1>2, <2>2, GotoType DEF Complain, TypeOK, Label, Locked, Failing
    <3> QED
      BY <1>2, <2>1, <2>2, <3>1 DEF Complain, TypeOK
  <2>3. CASE ~(budget.failures >= FailureBudget)
    BY <1>2, <2>1, <2>3, LeaveType DEF Complain, TypeOK
  <2> QED
    BY <2>2, <2>3
<1>3. CASE Concede(d)
  <2>1. pc' \in [Driver -> Label]
    BY <1>3, GotoType DEF Concede, TypeOK, Label, Locked, Failing
  <2>2. blocker' \in Blocker
    BY <1>3, BlockerType DEF Concede, TypeOK, Registers, BlockerKind
  <2> QED
    BY <1>3, <2>1, <2>2 DEF Concede, TypeOK
<1>4. CASE RecordPark(d)
  <2>1. park' \in Park
    BY <1>4, BoundsAssumption DEF RecordPark, TypeOK, Registers, Park
  <2> QED
    BY <1>4, <2>1, LeaveType DEF RecordPark, TypeOK
<1> QED
  BY <1>1, <1>2, <1>3, <1>4 DEF FailPass

\* A refusal leaves a blocker of a known kind for the input it judged.
LEMMA RefuseType ==
    ASSUME TypeOK, NEW d \in Driver, NEW k \in BlockerKind, Refuse(d, k),
           cut' \in SUBSET InputOrNone
    PROVE  TypeOK'
<1>1. blocker' \in Blocker
  BY BlockerType DEF Refuse, TypeOK, Registers
<1> QED
  BY <1>1, LeaveType DEF Refuse, TypeOK

\* The steps that judge a reconsolidated pass.
LEMMA JudgePassType ==
    ASSUME TypeOK, NEW d \in Driver, JudgePass(d)
    PROVE  TypeOK'
<1> USE DEF files, environment
<1>0. {"stale-generation", "postcondition-failed"} \subseteq BlockerKind
  BY DEF BlockerKind
<1>1. CASE PostContext(d)
  <2>1. pc' \in [Driver -> Label]
    BY <1>1, GotoType DEF PostContext, TypeOK, Label, Locked, Judging
  <2>2. PICK b \in BOOLEAN : reg' = [reg EXCEPT ![d].childMoved = b]
    BY <1>1, Zenon DEF PostContext
  <2>3. reg' \in [Driver -> Registers]
    BY <2>2 DEF TypeOK, Registers
  <2> QED
    BY <1>1, <2>1, <2>3 DEF PostContext, TypeOK
<1>2. CASE PostGeneration(d)
  <2>1. pc' \in [Driver -> Label]
    BY <1>2, GotoType DEF PostGeneration, TypeOK, Label, Locked, Judging
  <2>2. PICK b \in BOOLEAN : reg' = [reg EXCEPT ![d].generationMoved = b]
    BY <1>2, Zenon DEF PostGeneration, TargetMoved
  <2>3. reg' \in [Driver -> Registers]
    BY <2>2 DEF TypeOK, Registers
  <2> QED
    BY <1>2, <2>1, <2>3 DEF PostGeneration, TypeOK
<1>3. CASE PostObserve(d)
  <2>1. pc' \in [Driver -> Label]
    BY <1>3, GotoType DEF PostObserve, TypeOK, Label, Locked, Judging
  <2>2. reg' \in [Driver -> Registers]
    BY <1>3 DEF PostObserve, TypeOK, Registers, InputOrNone
  <2> QED
    BY <1>3, <2>1, <2>2 DEF PostObserve, TypeOK, InputOrNone
<1>4. CASE Judge(d)
  <2>1. PICK l \in {"loop", "processed", "certify", "upstream"} : Goto(d, l)
    BY <1>4 DEF Judge
  <2>2. l \in Label
    BY <2>1 DEF Label, Locked, Judging, Certifying
  <2>3. pc' \in [Driver -> Label]
    BY <2>1, <2>2, GotoType DEF TypeOK
  <2> QED
    BY <1>4, <2>3 DEF Judge, TypeOK
<1>5. CASE RefuseChildren(d)
  BY <1>0, <1>5, RefuseType DEF RefuseChildren, TypeOK
<1>6. CASE RefuseGeneration(d)
  BY <1>0, <1>6, RefuseType DEF RefuseGeneration, TypeOK
<1>7. CASE RefusePostcondition(d)
  BY <1>0, <1>7, RefuseType DEF RefusePostcondition, TypeOK
<1>8. CASE Accept(d)
  <2>1. pc' \in [Driver -> Label]
    BY <1>8, GotoType DEF Accept, TypeOK, Label, Locked, Certifying
  <2> QED
    BY <1>8, <2>1 DEF Accept, TypeOK
<1> QED
  BY <1>1, <1>2, <1>3, <1>4, <1>5, <1>6, <1>7, <1>8 DEF JudgePass

\* The steps that certify a pass, and the checkpoint that fails.
LEMMA CertifyPassType ==
    ASSUME TypeOK, NEW d \in Driver, CertifyPass(d)
    PROVE  TypeOK'
<1> USE DEF files, environment
<1>1. CASE MarkProcessed(d)
  <2>1. pc' \in [Driver -> Label]
    BY <1>1, GotoType DEF MarkProcessed, TypeOK, Label, Locked, Certifying
  <2>2. processed' \in Processed
    BY <1>1 DEF MarkProcessed, TypeOK, Registers, Processed
  <2> QED
    BY <1>1, <2>1, <2>2 DEF MarkProcessed, TypeOK
<1>2. CASE WriteCheckpoint(d)
  <2>1. pc' \in [Driver -> Label]
    BY <1>2, GotoType DEF WriteCheckpoint, TypeOK, Label, Locked, Certifying
  <2>2. checkpoint' \in Checkpoint
    BY <1>2 DEF WriteCheckpoint, TypeOK, Registers, Checkpoint
  <2> QED
    BY <1>2, <2>1, <2>2 DEF WriteCheckpoint, TypeOK
<1>3. CASE CheckpointDropsBlocker(d)
  <2>1. pc' \in [Driver -> Label]
    BY <1>3, GotoType DEF CheckpointDropsBlocker, TypeOK, Label, Locked,
       Certifying
  <2> QED
    BY <1>3, <2>1, NullRecords DEF CheckpointDropsBlocker, TypeOK
<1>4. CASE CheckpointFails(d)
  <2>1. cut' \in SUBSET InputOrNone
    BY <1>4, PostType DEF CheckpointFails, TypeOK
  <2>2. Refuse(d, "postcondition-failed") /\ "postcondition-failed" \in BlockerKind
    BY <1>4 DEF CheckpointFails, BlockerKind
  <2> QED
    BY <2>1, <2>2, RefuseType
<1>5. CASE RecordSemanticBlocker(d)
  <2>1. pc' \in [Driver -> Label]
    BY <1>5, GotoType DEF RecordSemanticBlocker, TypeOK, Label, Locked,
       Certifying
  <2>2. blocker' \in Blocker
    BY <1>5, BlockerType DEF RecordSemanticBlocker, TypeOK, Registers,
       BlockerKind
  <2> QED
    BY <1>5, <2>1, <2>2 DEF RecordSemanticBlocker, TypeOK
<1>6. CASE ClearBudget(d)
  <2>1. pc' \in [Driver -> Label]
    BY <1>6, GotoType DEF ClearBudget, TypeOK, Label, Locked, Certifying
  <2> QED
    BY <1>6, <2>1, NullRecords DEF ClearBudget, TypeOK
<1>7. CASE ClearPark(d)
  <2>1. failed' \in [Input -> 0..FailureBudget]
    BY <1>7, BoundsAssumption DEF ClearPark
  <2> QED
    BY <1>7, <2>1, LeaveType, NullRecords DEF ClearPark, TypeOK
<1> QED
  BY <1>1, <1>2, <1>3, <1>4, <1>5, <1>6, <1>7 DEF CertifyPass

\* Kills, the operator's verb, and everything that moves by itself.
LEMMA OutsideType ==
    ASSUME TypeOK,
           \/ \E d \in Driver : Kill(d)
           \/ OperatorStep \/ WorldMovesOn \/ ChildrenMoveOn \/ ClockTicks
    PROVE  TypeOK'
<1> USE DEF files, environment
<1>1. ASSUME NEW d \in Driver, Kill(d)
      PROVE  TypeOK'
  <2>1. budget' \in Budget /\ park' \in Park
    BY <1>1, NullRecords DEF Kill, TypeOK
  <2>2. cut' \in SUBSET InputOrNone
    BY <1>1, PostType DEF Kill, TypeOK
  <2> QED
    BY <1>1, <2>1, <2>2, LeaveType DEF Kill, TypeOK
<1>2. CASE ReleaseReads
  <2>1. release' \in Release
    BY <1>2 DEF ReleaseReads, Release, ParkOwnsBlocker
  <2> QED
    BY <1>2, <2>1 DEF ReleaseReads, TypeOK
<1>3. CASE ReleaseClearsBlocker
  <2>1. release' \in Release
    BY <1>3, NullRecords DEF ReleaseClearsBlocker, TypeOK, Release
  <2>2. blocker' \in Blocker
    BY <1>3, NullRecords DEF ReleaseClearsBlocker, TypeOK
  <2> QED
    BY <1>3, <2>1, <2>2 DEF ReleaseClearsBlocker, TypeOK
<1>4. CASE ReleaseRemovesPark
  BY <1>4, NullRecords DEF ReleaseRemovesPark, TypeOK
<1>5. CASE WorldMovesOn
  BY <1>5 DEF WorldMovesOn, TypeOK
<1>6. CASE ChildrenMoveOn
  BY <1>6 DEF ChildrenMoveOn, TypeOK
<1>7. CASE ClockTicks
  <2>1. park' \in Park
    BY <1>7, BoundsAssumption DEF ClockTicks, TypeOK, Park
  <2> QED
    BY <1>7, <2>1 DEF ClockTicks, TypeOK
<1> QED
  BY <1>1, <1>2, <1>3, <1>4, <1>5, <1>6, <1>7 DEF OperatorStep

\* Every step keeps every variable in its type.
LEMMA NextType ==
    ASSUME TypeOK, PassBegun, [Next]_vars
    PROVE  TypeOK'
<1>1. CASE UNCHANGED vars
  BY <1>1 DEF vars, files, environment, TypeOK
<1>2. ASSUME NEW d \in Driver, DriverStep(d)
      PROVE  TypeOK'
  BY <1>2, BeforePassType, AgentType, FailPassType, JudgePassType,
     CertifyPassType DEF DriverStep
<1>3. CASE \/ \E d \in Driver : Kill(d)
           \/ OperatorStep \/ WorldMovesOn \/ ChildrenMoveOn \/ ClockTicks
  BY <1>3, OutsideType
<1> QED
  BY <1>1, <1>2, <1>3 DEF Next

-----------------------------------------------------------------------------
(* Who moves, and who holds .wake.lock *)

\* No driver moves another.
LEMMA OthersStay ==
    ASSUME TypeOK, NEW d \in Driver, DriverStep(d) \/ Kill(d),
           NEW e \in Driver, e # d
    PROVE  pc'[e] = pc[e] /\ reg'[e] = reg[e]
<1> USE DEF TypeOK, Goto, Leave, Refuse, Stay
<1>1. CASE BeforePass(d)
  BY <1>1 DEF BeforePass, Wake, FindClean, Rebind, RecoverClearsBlocker,
     RecoverRemovesPark, EnsureFails, Precheck, TryLock, LoopHead, LoopObserve,
     Launch
<1>2. CASE Agent(d) \/ SelfReport(d) \/ \E closes \in BOOLEAN : Finish(d, closes)
  BY <1>2 DEF Agent, AgentEdits, AgentReports, AgentExits, SelfReport, Finish
<1>3. CASE FailPass(d)
  BY <1>3 DEF FailPass, CountFailure, Complain, Concede, RecordPark
<1>4. CASE JudgePass(d)
  BY <1>4 DEF JudgePass, PostContext, PostGeneration, PostObserve, Judge,
     RefuseChildren, RefuseGeneration, RefusePostcondition, Accept
<1>5. CASE CertifyPass(d)
  BY <1>5 DEF CertifyPass, MarkProcessed, WriteCheckpoint,
     CheckpointDropsBlocker, CheckpointFails, RecordSemanticBlocker,
     ClearBudget, ClearPark
<1>6. CASE Kill(d)
  BY <1>6 DEF Kill
<1> QED
  BY <1>1, <1>2, <1>3, <1>4, <1>5, <1>6 DEF DriverStep

\* What is outside the drivers moves none of them and takes no lock.
LEMMA OutsideStays ==
    ASSUME OperatorStep \/ WorldMovesOn \/ ChildrenMoveOn \/ ClockTicks
           \/ UNCHANGED vars
    PROVE  UNCHANGED <<pc, reg, lock>>
BY DEF OperatorStep, ReleaseReads, ReleaseClearsBlocker, ReleaseRemovesPark,
   WorldMovesOn, ChildrenMoveOn, ClockTicks, vars, files, environment

\* A driver is inside the lock only while it holds it.
LockHeld == \A d \in Driver : pc[d] \in Locked => lock = d

\* A driver enters the locked part only by taking a free lock, and leaves it
\* only by ending.
LEMMA LockStep ==
    ASSUME TypeOK, NEW d \in Driver, DriverStep(d) \/ Kill(d)
    PROVE  \/ pc'[d] = "idle" /\ lock' = (IF lock = d THEN Nobody ELSE lock)
           \/ lock' = lock /\ (pc'[d] \in Locked => pc[d] \in Locked)
           \/ lock = Nobody /\ lock' = d
<1> USE DEF TypeOK, Goto, Leave, Refuse, Stay, Locked, InPass, Failing, Judging,
        Certifying
<1>1. CASE BeforePass(d)
  BY <1>1 DEF BeforePass, Wake, FindClean, Rebind, RecoverClearsBlocker,
     RecoverRemovesPark, EnsureFails, Precheck, TryLock, LoopHead, LoopObserve,
     Launch
<1>2. CASE Agent(d) \/ SelfReport(d) \/ \E closes \in BOOLEAN : Finish(d, closes)
  BY <1>2 DEF Agent, AgentEdits, AgentReports, AgentExits, SelfReport, Finish
<1>3. CASE FailPass(d)
  BY <1>3 DEF FailPass, CountFailure, Complain, Concede, RecordPark
<1>4. CASE JudgePass(d)
  BY <1>4 DEF JudgePass, PostContext, PostGeneration, PostObserve, Judge,
     RefuseChildren, RefuseGeneration, RefusePostcondition, Accept
<1>5. CASE CertifyPass(d)
  BY <1>5 DEF CertifyPass, MarkProcessed, WriteCheckpoint,
     CheckpointDropsBlocker, CheckpointFails, RecordSemanticBlocker,
     ClearBudget, ClearPark
<1>6. CASE Kill(d)
  BY <1>6 DEF Kill
<1> QED
  BY <1>1, <1>2, <1>3, <1>4, <1>5, <1>6 DEF DriverStep

LEMMA LockHeldStep ==
    ASSUME TypeOK, LockHeld, [Next]_vars
    PROVE  LockHeld'
<1>1. ASSUME NEW d \in Driver, DriverStep(d) \/ Kill(d)
      PROVE  LockHeld'
  <2> SUFFICES ASSUME NEW e \in Driver, pc'[e] \in Locked
               PROVE  lock' = e
    BY DEF LockHeld
  <2>1. "idle" \notin Locked
    BY DEF Locked, InPass, Failing, Judging, Certifying
  <2>2. CASE e = d
    BY <1>1, <2>1, <2>2, LockStep DEF LockHeld
  <2>3. CASE e # d
    <3>1. pc'[e] = pc[e]
      BY <1>1, <2>3, OthersStay
    <3>2. lock = e
      BY <3>1 DEF LockHeld
    <3> QED
      BY <1>1, <2>3, <3>2, LockStep, SetsAssumption
  <2> QED
    BY <2>2, <2>3
<1>2. CASE \/ OperatorStep \/ WorldMovesOn \/ ChildrenMoveOn \/ ClockTicks
           \/ UNCHANGED vars
  BY <1>2, OutsideStays DEF LockHeld
<1> QED
  BY <1>1, <1>2 DEF Next

\* Two drivers inside the lock are the same driver.
LEMMA LockHeldIsExclusive == LockHeld => OnePassAtATime
BY DEF LockHeld, OnePassAtATime

\* The loop condition is still true when iteration-start counts the pass.
LEMMA PassBegunStep ==
    ASSUME TypeOK, PassBegun, [Next]_vars
    PROVE  PassBegun'
<1>1. ASSUME NEW d \in Driver, DriverStep(d) \/ Kill(d)
      PROVE  PassBegun'
  <2>1. pc'[d] \in {"observed", "launch"} => reg'[d].passes < MaxPasses
    <3> USE DEF TypeOK, Goto, Leave, Refuse, Stay, Registers
    <3>1. CASE BeforePass(d)
      <4>1. CASE LoopHead(d) /\ PassesLeft(d)
        <5> DEFINE fresh == [NoRegisters EXCEPT !.passes = reg[d].passes,
                                                !.generation = GenerationOf[world],
                                                !.child = children]
        <5>1. fresh.passes = reg[d].passes
          BY DEF NoRegisters
        <5>2. reg' = [reg EXCEPT ![d] = fresh]
          BY <4>1 DEF LoopHead
        <5> HIDE DEF fresh
        <5>3. reg'[d] = fresh
          BY <5>2
        <5> QED
          BY <4>1, <5>1, <5>3 DEF PassesLeft
      <4>2. CASE LoopHead(d) /\ ~PassesLeft(d)
        BY <4>2 DEF LoopHead
      <4>3. CASE LoopObserve(d)
        BY <4>3 DEF LoopObserve, PassBegun
      <4> QED
        BY <3>1, <4>1, <4>2, <4>3 DEF BeforePass, Wake, FindClean, Rebind,
           RecoverClearsBlocker, RecoverRemovesPark, EnsureFails, Precheck,
           TryLock, Launch
    <3>2. CASE Agent(d) \/ SelfReport(d)
               \/ \E closes \in BOOLEAN : Finish(d, closes)
      BY <3>2 DEF Agent, AgentEdits, AgentReports, AgentExits, SelfReport, Finish
    <3>3. CASE FailPass(d)
      BY <3>3 DEF FailPass, CountFailure, Complain, Concede, RecordPark
    <3>4. CASE JudgePass(d)
      BY <3>4 DEF JudgePass, PostContext, PostGeneration, PostObserve, Judge,
         RefuseChildren, RefuseGeneration, RefusePostcondition, Accept
    <3>5. CASE CertifyPass(d)
      BY <3>5 DEF CertifyPass, MarkProcessed, WriteCheckpoint,
         CheckpointDropsBlocker, CheckpointFails, RecordSemanticBlocker,
         ClearBudget, ClearPark
    <3>6. CASE Kill(d)
      BY <3>6 DEF Kill
    <3> QED
      BY <1>1, <3>1, <3>2, <3>3, <3>4, <3>5, <3>6 DEF DriverStep
  <2> QED
    BY <1>1, <2>1, OthersStay DEF PassBegun
<1>2. CASE \/ OperatorStep \/ WorldMovesOn \/ ChildrenMoveOn \/ ClockTicks
           \/ UNCHANGED vars
  BY <1>2, OutsideStays DEF PassBegun
<1> QED
  BY <1>1, <1>2 DEF Next

-----------------------------------------------------------------------------
(* Theorems about types and the lock *)

\* The base of every later induction.
Base == TypeOK /\ PassBegun /\ LockHeld

LEMMA BaseInvariant == Spec => []Base
<1>1. Init => Base
  <2> SUFFICES ASSUME Init PROVE Base
    OBVIOUS
  <2>1. "idle" \notin Locked \union {"observed", "launch"}
    BY DEF Locked, InPass, Failing, Judging, Certifying
  <2> QED
    BY <2>1, InitType DEF Init, Base, PassBegun, LockHeld
<1>2. Base /\ [Next]_vars => Base'
  BY NextType, PassBegunStep, LockHeldStep DEF Base
<1> QED
  BY <1>1, <1>2, PTL DEF Spec

\* Every file always holds a record of its format and every driver is at a
\* label of the script, with no more passes than MAX_INTELLIGENT_PASSES.
THEOREM TypeCorrect == Spec => []TypeOK
BY BaseInvariant, PTL DEF Base

\* However many drivers are started, killed and restarted, at most one is ever
\* past the flock of .wake.lock.
THEOREM PassesExclude == Spec => []OnePassAtATime
<1>1. Base => OnePassAtATime
  BY LockHeldIsExclusive DEF Base
<1> QED
  BY <1>1, BaseInvariant, PTL

-----------------------------------------------------------------------------
(* What the lock protects *)

\* While one driver is inside the lock, another touches processed.json,
\* checkpoint.json and the failure budget not at all, and of the park it can at
\* most remove it.
LEMMA FilesOwned ==
    ASSUME Base, NEW d \in Driver, DriverStep(d) \/ Kill(d),
           NEW e \in Driver, e # d, pc[e] \in Locked
    PROVE  /\ UNCHANGED <<world, processed, checkpoint, budget, failed>>
           /\ park' \in {park, NoPark}
<1>1. pc[d] \notin Locked
  BY DEF Base, LockHeld
<1> USE <1>1 DEF files, environment, Refuse, Locked, InPass, Failing, Judging,
        Certifying
<1>2. CASE BeforePass(d)
  BY <1>2 DEF BeforePass, Wake, FindClean, Rebind, RecoverClearsBlocker,
     RecoverRemovesPark, EnsureFails, Precheck, TryLock, LoopHead, LoopObserve,
     Launch
<1>3. CASE Agent(d) \/ SelfReport(d) \/ \E closes \in BOOLEAN : Finish(d, closes)
  BY <1>3 DEF Agent, AgentEdits, AgentReports, AgentExits, SelfReport, Finish
<1>4. CASE FailPass(d)
  BY <1>4 DEF FailPass, CountFailure, Complain, Concede, RecordPark
<1>5. CASE JudgePass(d)
  BY <1>5 DEF JudgePass, PostContext, PostGeneration, PostObserve, Judge,
     RefuseChildren, RefuseGeneration, RefusePostcondition, Accept
<1>6. CASE CertifyPass(d)
  BY <1>6 DEF CertifyPass, MarkProcessed, WriteCheckpoint,
     CheckpointDropsBlocker, CheckpointFails, RecordSemanticBlocker,
     ClearBudget, ClearPark
<1>7. CASE Kill(d)
  BY <1>7 DEF Kill
<1> QED
  BY <1>2, <1>3, <1>4, <1>5, <1>6, <1>7 DEF DriverStep

\* Nor does anything outside the drivers, where a park can also age.
LEMMA FilesOutside ==
    ASSUME Base,
           OperatorStep \/ WorldMovesOn \/ ChildrenMoveOn \/ ClockTicks
           \/ UNCHANGED vars
    PROVE  /\ UNCHANGED <<processed, checkpoint, budget, failed>>
           /\ \/ park' \in {park, NoPark}
              \/ /\ park.kind = "crash" /\ park.age < Cooldown
                 /\ park'.input = park.input
<1>1. park \in Park
  BY DEF Base, TypeOK
<1> QED
  BY <1>1 DEF OperatorStep, ReleaseReads, ReleaseClearsBlocker,
     ReleaseRemovesPark, WorldMovesOn, ChildrenMoveOn, ClockTicks, vars, files,
     environment, Park

-----------------------------------------------------------------------------
(* No agent runs on a settled input *)

\* The pass knows the input it woke for, and that input is due.
PassIsDue(d) ==
    pc[d] \in InPass => reg[d].wake \in Input /\ IsDue(reg[d].wake)

\* A park that is gone or has only aged does not start to bind.
LEMMA DueIsStable ==
    ASSUME TypeOK, NEW i \in Input, IsDue(i), processed' = processed,
           \/ park' \in {park, NoPark}
           \/ /\ park.kind = "crash" /\ park.age < Cooldown
              /\ park'.input = park.input
    PROVE  IsDue(i)'
BY SetsAssumption DEF IsDue, IsProcessed, ParkBinds, NoPark, TypeOK

LEMMA PassIsDueStep ==
    ASSUME Base, \A d \in Driver : PassIsDue(d), [Next]_vars
    PROVE  \A d \in Driver : PassIsDue(d)'
<1> SUFFICES ASSUME NEW e \in Driver
             PROVE  PassIsDue(e)'
  OBVIOUS
<1>0. InPass \subseteq Locked
  BY DEF Locked
<1>1. ASSUME DriverStep(e) \/ Kill(e)
      PROVE  PassIsDue(e)'
  <2> USE DEF PassIsDue, Goto, Leave, Refuse, Stay, InPass
  <2>0. TypeOK /\ PassIsDue(e)
    BY DEF Base
  <2>1. CASE BeforePass(e)
    <3>1. CASE LoopObserve(e) /\ IsDue(world)
      <4>1. pc'[e] = "launch" /\ reg'[e].wake = world
        BY <2>0, <3>1 DEF LoopObserve, TypeOK, Registers
      <4>2. IsDue(world)'
        BY <3>1 DEF LoopObserve, IsDue, IsProcessed, ParkBinds
      <4>3. world' = world /\ world \in Input
        BY <2>0, <3>1 DEF LoopObserve, TypeOK
      <4> QED
        BY <4>1, <4>2, <4>3 DEF IsDue, IsProcessed, ParkBinds
    <3>2. CASE LoopObserve(e) /\ ~IsDue(world)
      BY <2>0, <3>2 DEF LoopObserve, TypeOK
    <3>3. CASE Launch(e)
      <4>1. pc[e] = "launch" /\ UNCHANGED <<processed, park>>
        BY <3>3 DEF Launch
      <4>2. pc'[e] = "idle" \/ reg'[e].wake = reg[e].wake
        BY <2>0, <3>3 DEF Launch, TypeOK, Registers
      <4> QED
        BY <2>0, <4>1, <4>2 DEF IsDue, IsProcessed, ParkBinds
    <3> QED
      BY <2>0, <2>1, <3>1, <3>2, <3>3 DEF BeforePass, Wake, FindClean, Rebind,
         RecoverClearsBlocker, RecoverRemovesPark, EnsureFails, Precheck,
         TryLock, LoopHead, TypeOK
  <2>2. CASE Agent(e) \/ SelfReport(e)
    <3>1. pc[e] \in InPass /\ UNCHANGED <<processed, park>>
          /\ reg'[e].wake = reg[e].wake
      BY <2>0, <2>2 DEF Agent, AgentEdits, AgentReports, AgentExits, SelfReport,
         files, TypeOK, Registers
    <3> QED
      BY <2>0, <3>1 DEF IsDue, IsProcessed, ParkBinds
  <2>3. CASE \E closes \in BOOLEAN : Finish(e, closes)
    BY <2>0, <2>3 DEF Finish, TypeOK
  <2>4. CASE FailPass(e)
    BY <2>0, <2>4 DEF FailPass, CountFailure, Complain, Concede, RecordPark,
       TypeOK
  <2>5. CASE JudgePass(e)
    BY <2>0, <2>5 DEF JudgePass, PostContext, PostGeneration, PostObserve, Judge,
       RefuseChildren, RefuseGeneration, RefusePostcondition, Accept, TypeOK
  <2>6. CASE CertifyPass(e)
    BY <2>0, <2>6 DEF CertifyPass, MarkProcessed, WriteCheckpoint,
       CheckpointDropsBlocker, CheckpointFails, RecordSemanticBlocker,
       ClearBudget, ClearPark, TypeOK
  <2>7. CASE Kill(e)
    BY <2>0, <2>7 DEF Kill, TypeOK
  <2> QED
    BY <1>1, <2>1, <2>2, <2>3, <2>4, <2>5, <2>6, <2>7 DEF DriverStep
<1>2. ASSUME NEW d \in Driver, DriverStep(d) \/ Kill(d), d # e, pc'[e] \in InPass
      PROVE  PassIsDue(e)'
  <2>1. pc'[e] = pc[e] /\ reg'[e] = reg[e]
    BY <1>2, OthersStay DEF Base
  <2>2. processed' = processed /\ park' \in {park, NoPark}
    BY <1>0, <1>2, <2>1, FilesOwned
  <2>3. reg[e].wake \in Input /\ IsDue(reg[e].wake)
    BY <1>2, <2>1 DEF PassIsDue
  <2>4. \A i \in Input : IsDue(i) => IsDue(i)'
    BY <2>2, DueIsStable DEF Base
  <2> QED
    BY <2>1, <2>3, <2>4 DEF PassIsDue, IsDue, IsProcessed, ParkBinds
<1>3. ASSUME \/ OperatorStep \/ WorldMovesOn \/ ChildrenMoveOn \/ ClockTicks
             \/ UNCHANGED vars
      PROVE  PassIsDue(e)'
  <2>1. pc'[e] = pc[e] /\ reg'[e] = reg[e]
    BY <1>3, OutsideStays
  <2>2. \A i \in Input : IsDue(i) => IsDue(i)'
    BY <1>3, FilesOutside, DueIsStable DEF Base
  <2> QED
    BY <2>1, <2>2 DEF PassIsDue, IsDue, IsProcessed, ParkBinds
<1> QED
  BY <1>1, <1>2, <1>3 DEF Next, PassIsDue

\* Whatever interleaving of ticks, kills and releases: an agent runs only on an
\* input that is neither processed nor bound by a park, from launch to finish.
THEOREM NoWastedPass == Spec => []NoPassOnSettledInput
<1> DEFINE AllDue == \A d \in Driver : PassIsDue(d)
<1>1. Init => AllDue
  BY DEF Init, PassIsDue, InPass
<1>2. Base /\ AllDue /\ [Next]_vars => AllDue'
  BY PassIsDueStep
<1>3. AllDue => NoPassOnSettledInput
  BY DEF PassIsDue, NoPassOnSettledInput
<1> QED
  BY <1>1, <1>2, <1>3, BaseInvariant, PTL DEF Spec

-----------------------------------------------------------------------------
(* Parks are earned.  The budget file may lose failures (another input's count *)
(* overwrites it, a kill truncates it) but never invents one, so what reaches  *)
(* FAILURE_BUDGET in it has really failed that often.                          *)

\* The file never counts more failures of an input than there were.
CountsAgree ==
    \A i \in Input : FailureCount(i) <= failed[i]

\* What a driver knows about its failed input at each step of parking it.
FailureIsReal(d) ==
    /\ pc[d] \in InPass \union Failing => reg[d].wake \in Input
    /\ pc[d] = "count" =>
          \/ FailureCount(reg[d].wake) < failed[reg[d].wake]
          \/ failed[reg[d].wake] = FailureBudget
    /\ pc[d] = "complain" => budget.input = reg[d].wake
    /\ pc[d] \in {"concede", "park"} => failed[reg[d].wake] = FailureBudget
    /\ pc[d] = "parked" => budget = NoBudget

Earned ==
    /\ CountsAgree
    /\ \A d \in Driver : FailureIsReal(d)
    /\ ParkIsEarned

\* No park, no count, no obligation.
LEMMA NothingToEarn ==
    ASSUME TypeOK
    PROVE  /\ NoPark.input \notin Input
           /\ NoBudget.input \notin Input
           /\ \A i \in Input : failed[i] \in 0..FailureBudget
BY SetsAssumption DEF NoPark, NoBudget, TypeOK

\* Steps that leave the counts alone and at most remove or age the park keep
\* the park earned.
LEMMA EarnedStays ==
    ASSUME TypeOK, CountsAgree, ParkIsEarned, UNCHANGED <<budget, failed>>,
           \/ park' \in {park, NoPark}
           \/ park'.input = park.input
    PROVE  CountsAgree' /\ ParkIsEarned'
BY DEF CountsAgree, FailureCount, ParkIsEarned, NoPark

LEMMA EarnedStep ==
    ASSUME Base, Earned, [Next]_vars
    PROVE  Earned'
<1>0. TypeOK /\ CountsAgree /\ ParkIsEarned
  BY DEF Base, Earned
<1>a. InPass \union Failing \union {"parked"} \subseteq Locked
  BY DEF Locked, Certifying
<1>1. ASSUME NEW e \in Driver, DriverStep(e) \/ Kill(e)
      PROVE  CountsAgree' /\ ParkIsEarned' /\ FailureIsReal(e)'
  <2> USE DEF Goto, Leave, Refuse, Stay, InPass, Failing
  <2>0. FailureIsReal(e)
    BY DEF Earned
  <2>1. CASE BeforePass(e)
    <3>1. UNCHANGED <<budget, failed>> /\ park' \in {park, NoPark}
      BY <2>1 DEF BeforePass, Wake, FindClean, Rebind, RecoverClearsBlocker,
         RecoverRemovesPark, EnsureFails, Precheck, TryLock, LoopHead,
         LoopObserve, Launch, files
    <3>2. pc'[e] \in InPass \union Failing \union {"parked"} =>
             pc'[e] \in InPass /\ reg'[e].wake \in Input
      <4>1. CASE Launch(e)
        BY <1>0, <2>0, <4>1 DEF Launch, FailureIsReal, TypeOK, Registers
      <4>2. CASE LoopObserve(e)
        BY <1>0, <4>2 DEF LoopObserve, TypeOK, Registers
      <4> QED
        BY <1>0, <2>1, <4>1, <4>2 DEF BeforePass, Wake, FindClean, Rebind,
           RecoverClearsBlocker, RecoverRemovesPark, EnsureFails, Precheck,
           TryLock, LoopHead, TypeOK
    <3> QED
      BY <1>0, <3>1, <3>2, EarnedStays DEF FailureIsReal
  <2>2. CASE Agent(e) \/ SelfReport(e)
    <3>1. UNCHANGED <<budget, failed, park>>
      BY <2>2 DEF Agent, AgentEdits, AgentReports, AgentExits, SelfReport, files
    <3>2. pc[e] \in InPass /\ pc'[e] \in InPass /\ reg'[e].wake = reg[e].wake
      BY <1>0, <2>2 DEF Agent, AgentEdits, AgentReports, AgentExits, SelfReport,
         TypeOK, Registers
    <3> QED
      BY <1>0, <2>0, <3>1, <3>2, EarnedStays DEF FailureIsReal
  <2>3. ASSUME NEW closes \in BOOLEAN, Finish(e, closes)
        PROVE  CountsAgree' /\ ParkIsEarned' /\ FailureIsReal(e)'
    <3>1. reg[e].wake \in Input /\ UNCHANGED <<budget, park>>
          /\ reg'[e].wake = reg[e].wake
      BY <1>0, <2>0, <2>3 DEF Finish, FailureIsReal, TypeOK, Registers
    <3> DEFINE i == reg[e].wake
    <3>2. CASE pc'[e] = "context" /\ failed' = failed
      BY <1>0, <3>1, <3>2, EarnedStays DEF FailureIsReal
    <3>3. CASE pc'[e] = "count"
               /\ failed' = [failed EXCEPT ![i] = Capped(failed[i] + 1)]
      <4>1. \A j \in Input : failed[j] \in 0..FailureBudget
        BY <1>0, NothingToEarn
      <4>2. \A j \in Input : j # i => failed'[j] = failed[j]
        BY <1>0, <3>3 DEF TypeOK
      <4>3. failed'[i] = Capped(failed[i] + 1)
        BY <1>0, <3>1, <3>3 DEF TypeOK
      <4>4. failed[i] < failed'[i] \/ failed'[i] = FailureBudget
        BY <3>1, <4>1, <4>3, BoundsAssumption DEF Capped
      <4>5. failed[i] <= failed'[i]
            /\ (failed[i] = FailureBudget => failed'[i] = FailureBudget)
        BY <3>1, <4>1, <4>3, BoundsAssumption DEF Capped
      <4>6. \A j \in Input : FailureCount(j)' = FailureCount(j)
                               /\ FailureCount(j) \in Nat
        BY <1>0, <3>1 DEF FailureCount, TypeOK, Budget
      <4>7. failed'[i] \in 0..FailureBudget
        BY <3>1, <4>1, <4>3, CappedType
      <4>8. CountsAgree'
        BY <1>0, <3>1, <4>1, <4>2, <4>5, <4>6, <4>7, BoundsAssumption
        DEF CountsAgree
      <4>9. ParkIsEarned'
        <5>1. park.input = Absent \/ park.input \in Input
          BY <1>0 DEF TypeOK, Park, InputOrNone
        <5> QED
          BY <1>0, <3>1, <4>2, <4>5, <5>1 DEF ParkIsEarned
      <4>10. FailureCount(i) < failed'[i] \/ failed'[i] = FailureBudget
        BY <1>0, <3>1, <4>1, <4>4, <4>6, <4>7, BoundsAssumption DEF CountsAgree
      <4>11. FailureIsReal(e)'
        BY <3>1, <3>3, <4>6, <4>10 DEF FailureIsReal
      <4> QED
        BY <4>8, <4>9, <4>11
    <3> QED
      BY <1>0, <2>3, <3>2, <3>3 DEF Finish, TypeOK
  <2>4. CASE FailPass(e)
    <3>1. CASE CountFailure(e)
      <4> DEFINE i == reg[e].wake
      <4>1. /\ i \in Input /\ UNCHANGED <<park, failed>>
            /\ reg'[e] = reg[e] /\ pc'[e] = "complain"
        BY <1>0, <2>0, <3>1 DEF CountFailure, FailureIsReal, TypeOK
      <4>2. budget'.input = i /\ budget'.failures = Capped(FailureCount(i) + 1)
        BY <3>1 DEF CountFailure
      <4>3. FailureCount(i) \in Nat /\ failed[i] \in 0..FailureBudget
        BY <1>0, <4>1, NothingToEarn DEF FailureCount, TypeOK, Budget
      <4>4. FailureCount(i) < failed[i] \/ failed[i] = FailureBudget
        BY <2>0, <3>1 DEF CountFailure, FailureIsReal
      <4>5. Capped(FailureCount(i) + 1) <= failed[i]
        BY <4>3, <4>4, BoundsAssumption DEF Capped
      <4>6. CountsAgree'
        BY <1>0, <4>1, <4>2, <4>5, NothingToEarn, BoundsAssumption
        DEF CountsAgree, FailureCount
      <4> QED
        BY <1>0, <4>1, <4>2, <4>6 DEF ParkIsEarned, FailureIsReal
    <3>2. CASE Complain(e)
      <4>1. UNCHANGED <<budget, failed, park>>
        BY <3>2 DEF Complain
      <4>2. CASE budget.failures >= FailureBudget
        <5>1. pc'[e] = "concede" /\ reg'[e] = reg[e] /\ pc[e] = "complain"
          BY <1>0, <3>2, <4>2 DEF Complain, TypeOK
        <5>2. reg[e].wake \in Input /\ budget.input = reg[e].wake
          BY <2>0, <5>1 DEF FailureIsReal
        <5>3. budget.failures <= failed[reg[e].wake]
          BY <1>0, <5>2 DEF CountsAgree, FailureCount
        <5>4. failed[reg[e].wake] = FailureBudget
          BY <1>0, <4>2, <5>2, <5>3, BoundsAssumption DEF TypeOK, Budget
        <5> QED
          BY <1>0, <4>1, <5>1, <5>2, <5>4, EarnedStays DEF FailureIsReal
      <4>3. CASE ~(budget.failures >= FailureBudget)
        <5>1. pc'[e] = "idle"
          BY <1>0, <3>2, <4>3 DEF Complain, TypeOK
        <5> QED
          BY <1>0, <4>1, <5>1, EarnedStays DEF FailureIsReal
      <4> QED
        BY <4>2, <4>3
    <3>3. CASE Concede(e)
      <4>1. /\ UNCHANGED <<budget, failed, park>>
            /\ pc[e] = "concede" /\ pc'[e] = "park" /\ reg'[e] = reg[e]
        BY <1>0, <3>3 DEF Concede, TypeOK
      <4> QED
        BY <1>0, <2>0, <4>1, EarnedStays DEF FailureIsReal
    <3>4. CASE RecordPark(e)
      <4>1. /\ UNCHANGED <<budget, failed>> /\ park'.input = reg[e].wake
            /\ pc[e] = "park" /\ pc'[e] = "idle"
        BY <1>0, <3>4 DEF RecordPark, TypeOK
      <4>2. failed[reg[e].wake] = FailureBudget
        BY <2>0, <4>1 DEF FailureIsReal
      <4> QED
        BY <1>0, <4>1, <4>2 DEF CountsAgree, FailureCount, ParkIsEarned,
           FailureIsReal
    <3> QED
      BY <2>4, <3>1, <3>2, <3>3, <3>4 DEF FailPass
  <2>5. CASE JudgePass(e)
    <3>1. UNCHANGED <<budget, failed, park>>
      BY <2>5 DEF JudgePass, PostContext, PostGeneration, PostObserve, Judge,
         RefuseChildren, RefuseGeneration, RefusePostcondition, Accept, files
    <3>2. pc'[e] \notin InPass \union Failing \union {"parked"}
      BY <1>0, <2>5 DEF JudgePass, PostContext, PostGeneration, PostObserve,
         Judge, RefuseChildren, RefuseGeneration, RefusePostcondition, Accept,
         TypeOK
    <3> QED
      BY <1>0, <3>1, <3>2, EarnedStays DEF FailureIsReal
  <2>6. CASE CertifyPass(e)
    <3>1. CASE ClearBudget(e)
      <4>1. /\ budget' = NoBudget /\ UNCHANGED <<failed, park>>
            /\ pc'[e] = "parked"
        BY <1>0, <3>1 DEF ClearBudget, TypeOK
      <4>2. CountsAgree'
        BY <1>0, <4>1, NothingToEarn, BoundsAssumption
        DEF CountsAgree, FailureCount, NoBudget
      <4> QED
        BY <1>0, <4>1, <4>2 DEF ParkIsEarned, FailureIsReal
    <3>2. CASE ClearPark(e)
      <4>1. /\ budget' = NoBudget /\ park' = NoPark
            /\ failed' = [i \in Input |-> 0] /\ pc'[e] = "idle"
        BY <1>0, <2>0, <3>2 DEF ClearPark, TypeOK, FailureIsReal
      <4>2. CountsAgree'
        BY <4>1 DEF CountsAgree, FailureCount, NoBudget
      <4> QED
        BY <4>1, <4>2 DEF ParkIsEarned, NoPark, FailureIsReal
    <3>3. CASE ~ClearBudget(e) /\ ~ClearPark(e)
      <4>1. UNCHANGED <<budget, failed, park>>
        BY <2>6, <3>3 DEF CertifyPass, MarkProcessed, WriteCheckpoint,
           CheckpointDropsBlocker, CheckpointFails, RecordSemanticBlocker, files
      <4>2. pc'[e] \notin InPass \union Failing \union {"parked"}
        BY <1>0, <2>6, <3>3 DEF CertifyPass, MarkProcessed, WriteCheckpoint,
           CheckpointDropsBlocker, CheckpointFails, RecordSemanticBlocker, TypeOK
      <4> QED
        BY <1>0, <4>1, <4>2, EarnedStays DEF FailureIsReal
    <3> QED
      BY <3>1, <3>2, <3>3
  <2>7. CASE Kill(e)
    <3>1. /\ budget' \in {budget, NoBudget} /\ park' \in {park, NoPark}
          /\ failed' = failed /\ pc'[e] = "idle"
      BY <1>0, <2>7 DEF Kill, TypeOK
    <3>2. CountsAgree'
      BY <1>0, <3>1, NothingToEarn, BoundsAssumption
      DEF CountsAgree, FailureCount, NoBudget
    <3> QED
      BY <1>0, <3>1, <3>2 DEF ParkIsEarned, NoPark, FailureIsReal
  <2> QED
    BY <1>1, <2>1, <2>2, <2>3, <2>4, <2>5, <2>6, <2>7 DEF DriverStep
<1>2. ASSUME NEW d \in Driver, DriverStep(d) \/ Kill(d), NEW e \in Driver, e # d
      PROVE  FailureIsReal(e)'
  <2>1. pc'[e] = pc[e] /\ reg'[e] = reg[e]
    BY <1>0, <1>2, OthersStay
  <2>2. pc[e] \in Locked => UNCHANGED <<budget, failed>>
    BY <1>2, FilesOwned
  <2>3. FailureIsReal(e)
    BY DEF Earned
  <2> QED
    BY <1>a, <2>1, <2>2, <2>3 DEF FailureIsReal, FailureCount, Failing
<1>3. ASSUME \/ OperatorStep \/ WorldMovesOn \/ ChildrenMoveOn \/ ClockTicks
             \/ UNCHANGED vars
      PROVE  Earned'
  <2>1. /\ UNCHANGED <<pc, reg, budget, failed>>
        /\ park' \in {park, NoPark} \/ park'.input = park.input
    BY <1>3, OutsideStays, FilesOutside
  <2>2. CountsAgree' /\ ParkIsEarned'
    BY <1>0, <2>1, EarnedStays
  <2>3. \A d \in Driver : FailureIsReal(d)'
    BY <2>1 DEF Earned, FailureIsReal, FailureCount
  <2> QED
    BY <2>2, <2>3 DEF Earned
<1> QED
  BY <1>1, <1>2, <1>3 DEF Next, Earned

\* A park is recorded only for an input that failed FAILURE_BUDGET passes since
\* the budget was last cleared, whatever kills, torn files, releases and moves of
\* the world came between them.
THEOREM ParksAreEarned == Spec => []ParkIsEarned
<1>1. Init => Earned
  <2> SUFFICES ASSUME Init PROVE Earned
    OBVIOUS
  <2>1. "idle" \notin InPass \union Failing
    BY DEF InPass, Failing
  <2> QED
    BY <2>1, BoundsAssumption DEF Init, Earned, CountsAgree, FailureCount,
       NoBudget, FailureIsReal, ParkIsEarned, NoPark
<1>2. Base /\ Earned /\ [Next]_vars => Earned'
  BY EarnedStep
<1>3. Earned => ParkIsEarned
  BY DEF Earned
<1> QED
  BY <1>1, <1>2, <1>3, BaseInvariant, PTL DEF Spec

-----------------------------------------------------------------------------
(* Who writes checkpoint.json *)

\* WriteCheckpoint is the only step that changes checkpoint.json.
LEMMA CheckpointWriter ==
    ASSUME Base, [Next]_vars, checkpoint' # checkpoint
    PROVE  \E d \in Driver : WriteCheckpoint(d)
<1>1. ASSUME NEW d \in Driver, DriverStep(d) \/ Kill(d)
      PROVE  WriteCheckpoint(d)
  <2> USE DEF files, Refuse
  <2>1. CASE BeforePass(d)
    BY <2>1 DEF BeforePass, Wake, FindClean, Rebind, RecoverClearsBlocker,
       RecoverRemovesPark, EnsureFails, Precheck, TryLock, LoopHead, LoopObserve,
       Launch
  <2>2. CASE Agent(d) \/ SelfReport(d) \/ \E closes \in BOOLEAN : Finish(d, closes)
    BY <2>2 DEF Agent, AgentEdits, AgentReports, AgentExits, SelfReport, Finish
  <2>3. CASE FailPass(d)
    BY <2>3 DEF FailPass, CountFailure, Complain, Concede, RecordPark
  <2>4. CASE JudgePass(d)
    BY <2>4 DEF JudgePass, PostContext, PostGeneration, PostObserve, Judge,
       RefuseChildren, RefuseGeneration, RefusePostcondition, Accept
  <2>5. CASE CertifyPass(d)
    BY <2>5 DEF CertifyPass, MarkProcessed, CheckpointDropsBlocker,
       CheckpointFails, RecordSemanticBlocker, ClearBudget, ClearPark
  <2>6. CASE Kill(d)
    BY <2>6 DEF Kill
  <2> QED
    BY <1>1, <2>1, <2>2, <2>3, <2>4, <2>5, <2>6 DEF DriverStep
<1>2. ~(\/ OperatorStep \/ WorldMovesOn \/ ChildrenMoveOn \/ ClockTicks
        \/ UNCHANGED vars)
  BY FilesOutside
<1> QED
  BY <1>1, <1>2 DEF Next

-----------------------------------------------------------------------------
(* Checkpoints name the generation of their input.  runtime-run resolves the   *)
(* target before the pass and again after the post-input was observed; since   *)
(* the target only advances, equal answers pin the post-input between them.    *)

GenerationIsPinned(d) ==
    /\ pc[d] \in Locked \ {"loop"} => reg[d].generation <= GenerationOf[world]
    /\ pc[d] \in {"judge", "upstream"} =>
          /\ reg[d].post \in Input
          /\ reg[d].generation <= GenerationOf[reg[d].post]
          /\ GenerationOf[reg[d].post] <= GenerationOf[world]
    /\ pc[d] = "certify" /\ ~reg[d].generationMoved =>
          reg[d].generation = GenerationOf[reg[d].post]
    /\ pc[d] = "processed" /\ reg[d].outcome = "ready" =>
          reg[d].generation = GenerationOf[reg[d].post]
    /\ pc[d] = "checkpoint" =>
          reg[d].generation = GenerationOf[reg[d].post]

Pinned ==
    /\ CheckpointAgrees
    /\ \A d \in Driver : GenerationIsPinned(d)

\* Where a driver is pinned it stays pinned while only the world advances.
LEMMA PinnedStays ==
    ASSUME TypeOK, NEW d \in Driver, GenerationIsPinned(d),
           pc'[d] = pc[d], reg'[d] = reg[d],
           world' \in Input, GenerationOf[world] <= GenerationOf[world']
    PROVE  GenerationIsPinned(d)'
<1>1. /\ GenerationOf[world] \in Nat /\ GenerationOf[world'] \in Nat
      /\ \A i \in Input : GenerationOf[i] \in Nat
      /\ reg[d].generation \in Nat
  BY SetsAssumption DEF TypeOK, Registers
<1> QED
  BY <1>1 DEF GenerationIsPinned

\* Nothing a driver does moves the world.
LEMMA DriversKeepWorld ==
    ASSUME NEW d \in Driver, DriverStep(d) \/ Kill(d)
    PROVE  world' = world
<1> USE DEF environment, Refuse
<1>1. CASE BeforePass(d)
  BY <1>1 DEF BeforePass, Wake, FindClean, Rebind, RecoverClearsBlocker,
     RecoverRemovesPark, EnsureFails, Precheck, TryLock, LoopHead, LoopObserve,
     Launch
<1>2. CASE Agent(d) \/ SelfReport(d) \/ \E closes \in BOOLEAN : Finish(d, closes)
  BY <1>2 DEF Agent, AgentEdits, AgentReports, AgentExits, SelfReport, Finish
<1>3. CASE FailPass(d)
  BY <1>3 DEF FailPass, CountFailure, Complain, Concede, RecordPark
<1>4. CASE JudgePass(d)
  BY <1>4 DEF JudgePass, PostContext, PostGeneration, PostObserve, Judge,
     RefuseChildren, RefuseGeneration, RefusePostcondition, Accept
<1>5. CASE CertifyPass(d)
  BY <1>5 DEF CertifyPass, MarkProcessed, WriteCheckpoint,
     CheckpointDropsBlocker, CheckpointFails, RecordSemanticBlocker,
     ClearBudget, ClearPark
<1>6. CASE Kill(d)
  BY <1>6 DEF Kill
<1> QED
  BY <1>1, <1>2, <1>3, <1>4, <1>5, <1>6 DEF DriverStep

\* Nor does anything else but WorldMovesOn.
LEMMA WorldMover ==
    ASSUME [Next]_vars
    PROVE  WorldMovesOn \/ world' = world
<1>1. CASE OperatorStep \/ ChildrenMoveOn \/ ClockTicks \/ UNCHANGED vars
  BY <1>1 DEF OperatorStep, ReleaseReads, ReleaseClearsBlocker,
     ReleaseRemovesPark, ChildrenMoveOn, ClockTicks, vars, environment
<1> QED
  BY <1>1, DriversKeepWorld DEF Next

\* The target generation the world carries never goes back.
LEMMA WorldAdvances ==
    ASSUME TypeOK, [Next]_vars
    PROVE  world' \in Input /\ GenerationOf[world] <= GenerationOf[world']
<1>0. world \in Input /\ \A i \in Input : GenerationOf[i] \in Nat
  BY SetsAssumption DEF TypeOK
<1>1. CASE WorldMovesOn
  <2>1. PICK i \in Input : <<world, i>> \in WorldMoves /\ world' = i
    BY <1>1 DEF WorldMovesOn
  <2>2. GenerationOf[<<world, i>>[1]] <= GenerationOf[<<world, i>>[2]]
    BY <2>1, GenerationsAdvance
  <2> QED
    BY <2>1, <2>2
<1>2. CASE world' = world
  BY <1>0, <1>2
<1>3. WorldMovesOn \/ world' = world
  BY WorldMover
<1> QED
  BY <1>1, <1>2, <1>3

\* Past the loop head a driver keeps the generation it resolved there.
LEMMA GenerationKept ==
    ASSUME TypeOK, NEW d \in Driver, DriverStep(d) \/ Kill(d),
           pc'[d] \in Locked \ {"loop"}, ~LoopHead(d)
    PROVE  /\ pc[d] \in Locked \ {"loop"}
           /\ reg'[d].generation = reg[d].generation
<1> USE DEF TypeOK, Goto, Leave, Refuse, Stay, Registers, Locked, InPass, Failing,
        Judging, Certifying
<1>1. CASE BeforePass(d)
  <2>1. CASE LoopObserve(d)
    BY <2>1 DEF LoopObserve
  <2>2. CASE Launch(d)
    BY <2>2 DEF Launch
  <2> QED
    BY <1>1, <2>1, <2>2 DEF BeforePass, Wake, FindClean, Rebind,
       RecoverClearsBlocker, RecoverRemovesPark, EnsureFails, Precheck, TryLock
<1>2. CASE Agent(d) \/ SelfReport(d)
  BY <1>2 DEF Agent, AgentEdits, AgentReports, AgentExits, SelfReport
<1>3. CASE \E closes \in BOOLEAN : Finish(d, closes)
  BY <1>3 DEF Finish
<1>4. CASE FailPass(d)
  BY <1>4 DEF FailPass, CountFailure, Complain, Concede, RecordPark
<1>5. CASE JudgePass(d)
  BY <1>5 DEF JudgePass, PostContext, PostGeneration, PostObserve, Judge,
     RefuseChildren, RefuseGeneration, RefusePostcondition, Accept
<1>6. CASE CertifyPass(d)
  BY <1>6 DEF CertifyPass, MarkProcessed, WriteCheckpoint,
     CheckpointDropsBlocker, CheckpointFails, RecordSemanticBlocker,
     ClearBudget, ClearPark
<1>7. CASE Kill(d)
  BY <1>7 DEF Kill
<1> QED
  BY <1>1, <1>2, <1>3, <1>4, <1>5, <1>6, <1>7 DEF DriverStep

\* Which steps of runtime-run lead to a label that certifies, and what each of
\* them knows.
LEMMA ToCertifying ==
    ASSUME TypeOK, DriverKind = "runtime", NEW d \in Driver,
           DriverStep(d) \/ Kill(d)
    PROVE  /\ pc'[d] = "judge" =>
                 world' = world /\ reg'[d].post = world
           /\ pc'[d] = "upstream" =>
                 UNCHANGED world /\ pc[d] = "judge" /\ reg'[d] = reg[d]
           /\ pc'[d] = "certify" =>
                 /\ UNCHANGED world /\ pc[d] = "upstream"
                 /\ reg'[d].post = reg[d].post
                 /\ reg'[d].generation = reg[d].generation
                 /\ ~reg'[d].generationMoved =>
                       GenerationOf[world] = reg[d].generation
           /\ pc'[d] = "processed" /\ reg'[d].outcome = "ready" =>
                 /\ pc[d] = "certify" /\ ~reg[d].generationMoved
                 /\ reg'[d] = reg[d]
           /\ pc'[d] = "checkpoint" =>
                 /\ pc[d] = "processed" /\ reg[d].outcome = "ready"
                 /\ reg'[d] = reg[d]
<1> USE DEF TypeOK, Goto, Leave, Refuse, Stay, environment
<1>1. CASE BeforePass(d)
  BY <1>1 DEF BeforePass, Wake, FindClean, Rebind, RecoverClearsBlocker,
     RecoverRemovesPark, EnsureFails, Precheck, TryLock, LoopHead, LoopObserve,
     Launch
<1>2. CASE Agent(d) \/ SelfReport(d) \/ \E closes \in BOOLEAN : Finish(d, closes)
  BY <1>2 DEF Agent, AgentEdits, AgentReports, AgentExits, SelfReport, Finish
<1>3. CASE FailPass(d)
  BY <1>3 DEF FailPass, CountFailure, Complain, Concede, RecordPark
<1>4. CASE JudgePass(d)
  <2>1. CASE PostGeneration(d)
    <3>1. PICK b \in BOOLEAN : /\ reg' = [reg EXCEPT ![d].generationMoved = b]
                               /\ b <=> GenerationOf[world] # reg[d].generation
      BY <2>1, Zenon DEF PostGeneration, TargetMoved
    <3>2. /\ reg'[d].generationMoved = b
          /\ reg'[d].post = reg[d].post
          /\ reg'[d].generation = reg[d].generation
      BY <3>1 DEF Registers
    <3>3. /\ pc'[d] = "certify" => pc[d] = "upstream"
          /\ pc'[d] \in {"certify", "observe"} /\ UNCHANGED world
      BY <2>1 DEF PostGeneration
    <3> QED
      BY <3>1, <3>2, <3>3
  <2>2. CASE PostObserve(d)
    BY <2>2 DEF PostObserve, Registers
  <2>3. CASE Judge(d)
    BY <2>3 DEF Judge
  <2>4. CASE PostContext(d)
    BY <2>4 DEF PostContext
  <2> QED
    BY <1>4, <2>1, <2>2, <2>3, <2>4 DEF JudgePass, RefuseChildren,
       RefuseGeneration, RefusePostcondition, Accept
<1>5. CASE CertifyPass(d)
  BY <1>5 DEF CertifyPass, MarkProcessed, WriteCheckpoint,
     CheckpointDropsBlocker, CheckpointFails, RecordSemanticBlocker,
     ClearBudget, ClearPark
<1>6. CASE Kill(d)
  BY <1>6 DEF Kill
<1> QED
  BY <1>1, <1>2, <1>3, <1>4, <1>5, <1>6 DEF DriverStep

LEMMA PinnedStep ==
    ASSUME Base, DriverKind = "runtime", Pinned, [Next]_vars
    PROVE  Pinned'
<1>0. TypeOK
  BY DEF Base
<1>a. /\ world' \in Input /\ GenerationOf[world] <= GenerationOf[world']
      /\ world \in Input /\ \A i \in Input : GenerationOf[i] \in Nat
      /\ \A d \in Driver : reg[d].generation \in Nat
  BY <1>0, WorldAdvances, SetsAssumption DEF TypeOK, Registers
<1>1. CheckpointAgrees'
  <2>1. CASE checkpoint' = checkpoint
    BY <2>1 DEF Pinned, CheckpointAgrees
  <2>2. CASE checkpoint' # checkpoint
    <3>1. PICK d \in Driver : WriteCheckpoint(d)
      BY <2>2, CheckpointWriter
    <3>2. pc[d] = "checkpoint" /\ GenerationIsPinned(d)
          /\ checkpoint' = [input |-> reg[d].post,
                            generation |-> reg[d].generation]
      BY <3>1 DEF WriteCheckpoint, Pinned
    <3> QED
      BY <3>2 DEF GenerationIsPinned, CheckpointAgrees
  <2> QED
    BY <2>1, <2>2
<1>2. ASSUME NEW e \in Driver, DriverStep(e) \/ Kill(e)
      PROVE  GenerationIsPinned(e)'
  <2>0. GenerationIsPinned(e)
    BY DEF Pinned
  <2>1. pc'[e] \in Locked \ {"loop"} =>
           reg'[e].generation <= GenerationOf[world']
    <3>1. CASE LoopHead(e) /\ PassesLeft(e)
      <4> DEFINE fresh == [NoRegisters EXCEPT !.passes = reg[e].passes,
                                              !.generation = GenerationOf[world],
                                              !.child = children]
      <4>1. fresh.generation = GenerationOf[world]
        BY DEF NoRegisters
      <4>2. reg' = [reg EXCEPT ![e] = fresh] /\ world' = world
        BY <3>1 DEF LoopHead
      <4> HIDE DEF fresh
      <4>3. reg'[e] = fresh
        BY <1>0, <4>2 DEF TypeOK
      <4> QED
        BY <1>a, <4>1, <4>2, <4>3
    <3>2. CASE LoopHead(e) /\ ~PassesLeft(e)
      BY <1>0, <3>2 DEF LoopHead, Leave, TypeOK, Locked, InPass, Failing,
         Judging, Certifying
    <3>3. CASE ~LoopHead(e) /\ pc'[e] \in Locked \ {"loop"}
      <4>1. /\ pc[e] \in Locked \ {"loop"}
            /\ reg'[e].generation = reg[e].generation
        BY <1>0, <1>2, <3>3, GenerationKept
      <4> QED
        BY <1>a, <2>0, <4>1 DEF GenerationIsPinned
    <3> QED
      BY <3>1, <3>2, <3>3
  <2>2. {"judge", "upstream"} \subseteq Locked \ {"loop"}
    BY DEF Locked, Judging
  <2>3. pc'[e] = "judge" =>
          /\ reg'[e].post \in Input
          /\ reg'[e].generation <= GenerationOf[reg'[e].post]
          /\ GenerationOf[reg'[e].post] <= GenerationOf[world']
    BY <1>0, <1>2, <1>a, <2>1, <2>2, ToCertifying
  <2>4. pc'[e] = "upstream" =>
          /\ reg'[e].post \in Input
          /\ reg'[e].generation <= GenerationOf[reg'[e].post]
          /\ GenerationOf[reg'[e].post] <= GenerationOf[world']
    BY <1>0, <1>2, <2>0, ToCertifying DEF GenerationIsPinned
  <2>5. pc'[e] = "certify" /\ ~reg'[e].generationMoved =>
          reg'[e].generation = GenerationOf[reg'[e].post]
    <3> SUFFICES ASSUME pc'[e] = "certify", ~reg'[e].generationMoved
                 PROVE  reg'[e].generation = GenerationOf[reg'[e].post]
      OBVIOUS
    <3>1. /\ pc[e] = "upstream" /\ GenerationOf[world] = reg[e].generation
          /\ reg'[e].post = reg[e].post
          /\ reg'[e].generation = reg[e].generation
      BY <1>0, <1>2, ToCertifying
    <3>2. /\ reg[e].post \in Input
          /\ reg[e].generation <= GenerationOf[reg[e].post]
          /\ GenerationOf[reg[e].post] <= GenerationOf[world]
      BY <2>0, <3>1 DEF GenerationIsPinned
    <3> QED
      BY <1>a, <3>1, <3>2
  <2>6. pc'[e] = "processed" /\ reg'[e].outcome = "ready" =>
          reg'[e].generation = GenerationOf[reg'[e].post]
    BY <1>0, <1>2, <2>0, ToCertifying DEF GenerationIsPinned
  <2>7. ASSUME pc'[e] = "checkpoint"
        PROVE  reg'[e].generation = GenerationOf[reg'[e].post]
    <3>1. /\ pc[e] = "processed" /\ reg[e].outcome = "ready"
          /\ reg'[e] = reg[e]
      BY <1>0, <1>2, <2>7, ToCertifying
    <3>2. reg[e].generation = GenerationOf[reg[e].post]
      BY <2>0, <3>1 DEF GenerationIsPinned
    <3> QED
      BY <3>1, <3>2
  <2> QED
    BY <2>1, <2>3, <2>4, <2>5, <2>6, <2>7 DEF GenerationIsPinned
<1>3. ASSUME NEW d \in Driver, DriverStep(d) \/ Kill(d), NEW e \in Driver, e # d
      PROVE  GenerationIsPinned(e)'
  BY <1>0, <1>3, <1>a, OthersStay, PinnedStays DEF Pinned
<1>4. ASSUME \/ OperatorStep \/ WorldMovesOn \/ ChildrenMoveOn \/ ClockTicks
             \/ UNCHANGED vars
      PROVE  \A e \in Driver : GenerationIsPinned(e)'
  BY <1>0, <1>4, <1>a, OutsideStays, PinnedStays DEF Pinned
<1> QED
  BY <1>1, <1>2, <1>3, <1>4 DEF Next, Pinned

\* runtime-run never checkpoints an input at a generation that is not the one
\* the input was observed at, however the target advances during maintenance.
THEOREM RuntimeCheckpointsAgree ==
    DriverKind = "runtime" => (Spec => []CheckpointAgrees)
<1> SUFFICES ASSUME DriverKind = "runtime"
             PROVE  Spec => []CheckpointAgrees
  OBVIOUS
<1>1. Init => Pinned
  <2> SUFFICES ASSUME Init PROVE Pinned
    OBVIOUS
  <2>1. "idle" \notin Locked
    BY DEF Locked, InPass, Failing, Judging, Certifying
  <2> QED
    BY <2>1 DEF Init, Pinned, CheckpointAgrees, NoCheckpoint, GenerationIsPinned
<1>2. Base /\ Pinned /\ [Next]_vars => Pinned'
  BY PinnedStep
<1>3. Pinned => CheckpointAgrees
  BY DEF Pinned
<1> QED
  BY <1>1, <1>2, <1>3, BaseInvariant, PTL DEF Spec

-----------------------------------------------------------------------------
(* What ticks skip as READY shows as READY.  From the processed record to the  *)
(* end of the checkpoint the holder of the lock is the only one that can put   *)
(* that right, and `cut` remembers the inputs it was stopped on.  Otherwise a  *)
(* READY input is safe: a failed pass blames the input it woke for, which was  *)
(* not processed, and only a BLOCKED record is followed by a semantic blocker. *)

Ended == {"iteration-failed", "semantic-blocked"}

\* A pass, failed or not, is about an input that nobody has processed.
WakeIsUnprocessed(d) ==
    pc[d] \in InPass \union Failing => ~IsProcessed(reg[d].wake)

\* processed.json holds what the driver on its way to the checkpoint wrote.
RecordIsMine(d) ==
    /\ pc[d] \in Recording =>
          processed = [input |-> reg[d].post, outcome |-> "ready"]
    /\ pc[d] = "unblocked" => checkpoint.input = reg[d].post
    /\ pc[d] = "semantic" => processed.outcome # "ready"

ReadyShows ==
    (/\ processed.outcome = "ready"
     /\ processed.input \notin cut
     /\ \A d \in Driver : pc[d] \notin Recording) =>
        /\ checkpoint.input = processed.input
        /\ blocker.input = processed.input => blocker.kind \notin Ended

Shown ==
    /\ ReadyShows
    /\ \A d \in Driver : WakeIsUnprocessed(d) /\ RecordIsMine(d)

\* A driver comes to a pass, or to its failure, only from a due input.
LEMMA ToPass ==
    ASSUME TypeOK, NEW d \in Driver, DriverStep(d) \/ Kill(d),
           pc'[d] \in InPass \union Failing
    PROVE  /\ processed' = processed
           /\ \/ IsDue(world) /\ reg'[d].wake = world
              \/ /\ pc[d] \in InPass \union Failing
                 /\ reg'[d].wake = reg[d].wake
<1> USE DEF TypeOK, Goto, Leave, Refuse, Stay, Registers, InPass, Failing, files
<1>1. CASE BeforePass(d)
  <2>1. CASE LoopHead(d)
    BY <2>1 DEF LoopHead
  <2>2. CASE LoopObserve(d)
    BY <2>2 DEF LoopObserve
  <2>3. CASE Launch(d)
    BY <2>3 DEF Launch
  <2> QED
    BY <1>1, <2>1, <2>2, <2>3 DEF BeforePass, Wake, FindClean, Rebind,
       RecoverClearsBlocker, RecoverRemovesPark, EnsureFails, Precheck, TryLock
<1>2. CASE Agent(d) \/ SelfReport(d)
  BY <1>2 DEF Agent, AgentEdits, AgentReports, AgentExits, SelfReport
<1>3. CASE \E closes \in BOOLEAN : Finish(d, closes)
  <2>1. /\ pc[d] = "finish" /\ processed' = processed
        /\ reg'[d].wake = reg[d].wake
    BY <1>3 DEF Finish
  <2> QED
    BY <2>1
<1>4. CASE FailPass(d)
  BY <1>4 DEF FailPass, CountFailure, Complain, Concede, RecordPark
<1>5. CASE JudgePass(d)
  BY <1>5 DEF JudgePass, PostContext, PostGeneration, PostObserve, Judge,
     RefuseChildren, RefuseGeneration, RefusePostcondition, Accept
<1>6. CASE CertifyPass(d)
  BY <1>6 DEF CertifyPass, MarkProcessed, WriteCheckpoint,
     CheckpointDropsBlocker, CheckpointFails, RecordSemanticBlocker,
     ClearBudget, ClearPark
<1>7. CASE Kill(d)
  BY <1>7 DEF Kill
<1> QED
  BY <1>1, <1>2, <1>3, <1>4, <1>5, <1>6, <1>7 DEF DriverStep

\* Only the processed record leads towards the checkpoint or the semantic
\* blocker, and a driver on its way to the checkpoint gets there or leaves its
\* input among those cut short.
LEMMA ThroughRecording ==
    ASSUME TypeOK, NEW d \in Driver, DriverStep(d) \/ Kill(d)
    PROVE  /\ pc'[d] \in Recording \union {"semantic"} =>
                 \/ MarkProcessed(d) /\ reg'[d] = reg[d]
                 \/ /\ WriteCheckpoint(d) /\ pc'[d] = "unblocked"
                    /\ reg'[d] = reg[d] /\ UNCHANGED processed
           /\ pc[d] \in Recording =>
                 \/ WriteCheckpoint(d)
                 \/ CheckpointDropsBlocker(d)
                 \/ reg[d].post \in cut'
<1> USE DEF TypeOK, Goto, Leave, Refuse, Stay, files, Recording
<1>1. CASE BeforePass(d)
  BY <1>1 DEF BeforePass, Wake, FindClean, Rebind, RecoverClearsBlocker,
     RecoverRemovesPark, EnsureFails, Precheck, TryLock, LoopHead, LoopObserve,
     Launch
<1>2. CASE Agent(d) \/ SelfReport(d) \/ \E closes \in BOOLEAN : Finish(d, closes)
  BY <1>2 DEF Agent, AgentEdits, AgentReports, AgentExits, SelfReport, Finish
<1>3. CASE FailPass(d)
  BY <1>3 DEF FailPass, CountFailure, Complain, Concede, RecordPark
<1>4. CASE JudgePass(d)
  BY <1>4 DEF JudgePass, PostContext, PostGeneration, PostObserve, Judge,
     RefuseChildren, RefuseGeneration, RefusePostcondition, Accept
<1>5. CASE CertifyPass(d)
  BY <1>5 DEF CertifyPass, MarkProcessed, WriteCheckpoint,
     CheckpointDropsBlocker, CheckpointFails, RecordSemanticBlocker,
     ClearBudget, ClearPark
<1>6. CASE Kill(d)
  BY <1>6 DEF Kill
<1> QED
  BY <1>1, <1>2, <1>3, <1>4, <1>5, <1>6 DEF DriverStep

\* processed.json is written by MarkProcessed alone.
LEMMA ProcessedWriter ==
    ASSUME Base, [Next]_vars, processed' # processed
    PROVE  \E d \in Driver : MarkProcessed(d)
<1>1. ASSUME NEW d \in Driver, DriverStep(d) \/ Kill(d)
      PROVE  MarkProcessed(d)
  <2> USE DEF files, Refuse
  <2>1. CASE BeforePass(d)
    BY <2>1 DEF BeforePass, Wake, FindClean, Rebind, RecoverClearsBlocker,
       RecoverRemovesPark, EnsureFails, Precheck, TryLock, LoopHead, LoopObserve,
       Launch
  <2>2. CASE Agent(d) \/ SelfReport(d) \/ \E closes \in BOOLEAN : Finish(d, closes)
    BY <2>2 DEF Agent, AgentEdits, AgentReports, AgentExits, SelfReport, Finish
  <2>3. CASE FailPass(d)
    BY <2>3 DEF FailPass, CountFailure, Complain, Concede, RecordPark
  <2>4. CASE JudgePass(d)
    BY <2>4 DEF JudgePass, PostContext, PostGeneration, PostObserve, Judge,
       RefuseChildren, RefuseGeneration, RefusePostcondition, Accept
  <2>5. CASE CertifyPass(d)
    BY <2>5 DEF CertifyPass, WriteCheckpoint, CheckpointDropsBlocker,
       CheckpointFails, RecordSemanticBlocker, ClearBudget, ClearPark
  <2>6. CASE Kill(d)
    BY <2>6 DEF Kill
  <2> QED
    BY <1>1, <2>1, <2>2, <2>3, <2>4, <2>5, <2>6 DEF DriverStep
<1> QED
  BY <1>1, FilesOutside DEF Next

\* Who says in blocker.json that a pass has ended badly, and who takes an input
\* off the list of those cut short.
LEMMA BlockerAndCut ==
    ASSUME TypeOK, [Next]_vars
    PROVE  /\ \/ blocker' = blocker
              \/ blocker'.kind \notin Ended
              \/ \E d \in Driver : /\ pc[d] \in {"complain", "concede"}
                                   /\ blocker'.input = reg[d].wake
              \/ \E d \in Driver : pc[d] = "semantic"
           /\ \/ cut \subseteq cut'
              \/ \E d \in Driver : pc[d] = "unblocked"
<1>1. ASSUME NEW d \in Driver, DriverStep(d) \/ Kill(d)
      PROVE  /\ \/ blocker' = blocker
                \/ blocker'.kind \notin Ended
                \/ pc[d] \in {"complain", "concede"} /\ blocker'.input = reg[d].wake
                \/ pc[d] = "semantic"
             /\ cut \subseteq cut' \/ pc[d] = "unblocked"
  <2> USE DEF files, Refuse, RecordBlocker, NoBlocker, Ended
  <2>1. CASE BeforePass(d)
    BY <2>1 DEF BeforePass, Wake, FindClean, Rebind, RecoverClearsBlocker,
       RecoverRemovesPark, EnsureFails, Precheck, TryLock, LoopHead, LoopObserve,
       Launch
  <2>2. CASE Agent(d) \/ SelfReport(d) \/ \E closes \in BOOLEAN : Finish(d, closes)
    BY <2>2 DEF Agent, AgentEdits, AgentReports, AgentExits, SelfReport, Finish
  <2>3. CASE FailPass(d)
    BY <2>3 DEF FailPass, CountFailure, Complain, Concede, RecordPark
  <2>4. CASE JudgePass(d)
    BY <2>4 DEF JudgePass, PostContext, PostGeneration, PostObserve, Judge,
       RefuseChildren, RefuseGeneration, RefusePostcondition, Accept
  <2>5. CASE CertifyPass(d)
    BY <2>5 DEF CertifyPass, MarkProcessed, WriteCheckpoint,
       CheckpointDropsBlocker, CheckpointFails, RecordSemanticBlocker,
       ClearBudget, ClearPark
  <2>6. CASE Kill(d)
    BY <2>6 DEF Kill
  <2> QED
    BY <1>1, <2>1, <2>2, <2>3, <2>4, <2>5, <2>6 DEF DriverStep
<1>2. ASSUME \/ OperatorStep \/ WorldMovesOn \/ ChildrenMoveOn \/ ClockTicks
             \/ UNCHANGED vars
      PROVE  (blocker' = blocker \/ blocker'.kind \notin Ended) /\ cut' = cut
  BY <1>2 DEF OperatorStep, ReleaseReads, ReleaseClearsBlocker,
     ReleaseRemovesPark, WorldMovesOn, ChildrenMoveOn, ClockTicks, vars, files,
     NoBlocker, Ended
<1> QED
  BY <1>1, <1>2 DEF Next

\* What each driver knows of processed.json and of its own pass stays true.
LEMMA ShownDrivers ==
    ASSUME Base, Shown, [Next]_vars, NEW e \in Driver
    PROVE  WakeIsUnprocessed(e)' /\ RecordIsMine(e)'
<1>0. TypeOK
  BY DEF Base
<1>1. CASE DriverStep(e) \/ Kill(e)
  <2>1. WakeIsUnprocessed(e)'
    BY <1>0, <1>1, ToPass
       DEF Shown, WakeIsUnprocessed, IsDue, IsProcessed
  <2>2. RecordIsMine(e)'
    <3>1. CASE MarkProcessed(e) /\ reg'[e] = reg[e]
      <4>1. /\ processed' = [input |-> reg[e].post, outcome |-> reg[e].outcome]
            /\ pc'[e] = IF reg[e].outcome = "ready" THEN "checkpoint"
                                                    ELSE "semantic"
        BY <1>0, <3>1 DEF MarkProcessed, Goto, TypeOK
      <4> QED
        BY <3>1, <4>1 DEF RecordIsMine, Recording
    <3>2. CASE /\ WriteCheckpoint(e) /\ pc'[e] = "unblocked"
               /\ reg'[e] = reg[e] /\ UNCHANGED processed
      <4>1. pc[e] = "checkpoint" /\ checkpoint'.input = reg[e].post
        BY <3>2 DEF WriteCheckpoint
      <4>2. processed = [input |-> reg[e].post, outcome |-> "ready"]
        BY <4>1 DEF Shown, RecordIsMine, Recording
      <4> QED
        BY <3>2, <4>1, <4>2 DEF RecordIsMine
    <3>3. CASE pc'[e] \notin Recording \union {"semantic"}
      BY <3>3 DEF RecordIsMine, Recording
    <3> QED
      BY <1>0, <1>1, <3>1, <3>2, <3>3, ThroughRecording
  <2> QED
    BY <2>1, <2>2
<1>2. ASSUME pc'[e] = pc[e], reg'[e] = reg[e],
             pc[e] \in Locked => UNCHANGED <<processed, checkpoint>>
      PROVE  WakeIsUnprocessed(e)' /\ RecordIsMine(e)'
  <2>1. InPass \union Failing \union Recording \union {"unblocked", "semantic"}
          \subseteq Locked
    BY DEF Locked, Recording, Certifying
  <2> QED
    BY <1>2, <2>1 DEF Shown, WakeIsUnprocessed, RecordIsMine, IsProcessed,
       Recording
<1>3. ASSUME NEW d \in Driver, DriverStep(d) \/ Kill(d), e # d
      PROVE  WakeIsUnprocessed(e)' /\ RecordIsMine(e)'
  BY <1>0, <1>2, <1>3, OthersStay, FilesOwned
<1>4. CASE \/ OperatorStep \/ WorldMovesOn \/ ChildrenMoveOn \/ ClockTicks
           \/ UNCHANGED vars
  BY <1>2, <1>4, OutsideStays, FilesOutside
<1> QED
  BY <1>1, <1>3, <1>4 DEF Next

\* While no driver is on its way to a checkpoint, a READY record that was not
\* cut short keeps its checkpoint, and no blocker says its pass ended badly.
LEMMA ReadyShowsStep ==
    ASSUME Base, Shown, [Next]_vars
    PROVE  ReadyShows'
<1> SUFFICES ASSUME processed'.outcome = "ready", processed'.input \notin cut',
                    \A d \in Driver : pc'[d] \notin Recording
             PROVE  /\ checkpoint'.input = processed'.input
                    /\ blocker'.input = processed'.input =>
                           blocker'.kind \notin Ended
  BY DEF ReadyShows
<1>0. TypeOK
  BY DEF Base
<1>1. \A d \in Driver : ~MarkProcessed(d)
  <2> SUFFICES ASSUME NEW d \in Driver, MarkProcessed(d) PROVE FALSE
    OBVIOUS
  <2>1. /\ processed'.outcome = reg[d].outcome
        /\ pc'[d] = IF reg[d].outcome = "ready" THEN "checkpoint" ELSE "semantic"
    BY <1>0 DEF MarkProcessed, Goto, TypeOK
  <2> QED
    BY <2>1 DEF Recording
<1>2. processed' = processed
  BY <1>1, ProcessedWriter
<1>3. \A d \in Driver : ~WriteCheckpoint(d)
  <2> SUFFICES ASSUME NEW d \in Driver, WriteCheckpoint(d) PROVE FALSE
    OBVIOUS
  <2>1. pc'[d] = "unblocked"
    BY <1>0 DEF WriteCheckpoint, Goto, TypeOK
  <2> QED
    BY <2>1 DEF Recording
<1>4. checkpoint' = checkpoint
  BY <1>3, CheckpointWriter
<1>5. CASE \E d \in Driver : pc[d] \in Recording
  <2>1. PICK d \in Driver : pc[d] \in Recording
    BY <1>5
  <2>2. processed = [input |-> reg[d].post, outcome |-> "ready"]
    BY <2>1 DEF Shown, RecordIsMine
  <2>3. DriverStep(d) \/ Kill(d)
    <3>1. pc'[d] # pc[d]
      BY <2>1
    <3> QED
      BY <1>0, <3>1, OthersStay, OutsideStays DEF Next
  <2>4. CheckpointDropsBlocker(d)
    BY <1>0, <1>2, <1>3, <2>1, <2>2, <2>3, ThroughRecording
  <2>5. pc[d] = "unblocked" /\ blocker' = NoBlocker
    BY <2>4 DEF CheckpointDropsBlocker
  <2>6. checkpoint.input = reg[d].post
    BY <2>5 DEF Shown, RecordIsMine
  <2> QED
    BY <1>2, <1>4, <2>2, <2>5, <2>6 DEF NoBlocker, Ended
<1>6. CASE \A d \in Driver : pc[d] \notin Recording
  <2>1. cut \subseteq cut'
    BY <1>0, <1>6, BlockerAndCut DEF Recording
  <2>2. /\ checkpoint.input = processed.input
        /\ blocker.input = processed.input => blocker.kind \notin Ended
    BY <1>2, <1>6, <2>1 DEF Shown, ReadyShows
  <2>3. ASSUME blocker'.input = processed.input, blocker'.kind \in Ended
        PROVE  FALSE
    <3>1. ASSUME NEW d \in Driver, pc[d] \in {"complain", "concede"}
          PROVE  reg[d].wake # processed.input
      BY <3>1 DEF Shown, WakeIsUnprocessed, IsProcessed, Failing
    <3>2. ASSUME NEW d \in Driver
          PROVE  pc[d] # "semantic"
      BY <1>2 DEF Shown, RecordIsMine
    <3> QED
      BY <1>0, <2>2, <2>3, <3>1, <3>2, BlockerAndCut
  <2> QED
    BY <1>2, <1>4, <2>2, <2>3
<1> QED
  BY <1>5, <1>6

\* Whatever interleaving of drivers, kills, refusals, failed checkpoints,
\* releases and moves of the world, back to old inputs as well: whenever the lock
\* is free, the input that ticks skip as processed READY has its checkpoint and
\* no failed pass or BLOCKED report shown of it, unless a driver was stopped on
\* that very input between its processed record and the end of its checkpoint.
THEOREM ReadyStaysCertified == Spec => []ReadyUnlessCut
<1>1. Init => Shown
  <2> SUFFICES ASSUME Init PROVE Shown
    OBVIOUS
  <2>1. "idle" \notin InPass \union Failing \union Recording
          \union {"unblocked", "semantic"}
    BY DEF InPass, Failing, Recording
  <2> QED
    BY <2>1 DEF Init, Shown, ReadyShows, WakeIsUnprocessed, RecordIsMine,
       NoProcessed
<1>2. Base /\ Shown /\ [Next]_vars => Shown'
  BY ShownDrivers, ReadyShowsStep DEF Shown
<1>3. Base /\ Shown => ReadyUnlessCut
  <2> SUFFICES ASSUME Base, Shown, lock = Nobody PROVE ReadyUnlessCut
    BY DEF ReadyUnlessCut
  <2>1. Recording \subseteq Locked
    BY DEF Recording, Locked, Certifying
  <2>2. \A d \in Driver : pc[d] \notin Recording
    BY <2>1, SetsAssumption DEF Base, LockHeld
  <2> QED
    BY <2>2 DEF Shown, ReadyShows, ReadyUnlessCut, Ended
<1> QED
  BY <1>1, <1>2, <1>3, BaseInvariant, PTL DEF Spec

=============================================================================
