----------------------- MODULE OperatorSurfaceProofs -----------------------
(***************************************************************************)
(* Theorems about operator.json, for any number of clients, iterations and *)
(* kills.  The argument is one idea: a surface is only ever replaced by an *)
(* edited copy of a surface that was once there, so whatever the edits     *)
(* preserve holds of every copy, however stale.                            *)
(***************************************************************************)
EXTENDS OperatorSurface, TLAPS

-----------------------------------------------------------------------------
(* Lists of iterations *)

\* push_iteration puts the entry first and moves the rest down by one.
LEMMA PushFacts ==
    ASSUME NEW S, NEW list \in Seq(S), NEW entry \in S
    PROVE  /\ Push(list, entry) \in Seq(S)
           /\ Len(Push(list, entry)) \in 1..MaxIterations
           /\ Push(list, entry)[1] = entry
           /\ \A n \in 2..Len(Push(list, entry)) :
                 n - 1 \in 1..Len(list) /\ Push(list, entry)[n] = list[n - 1]
<1> DEFINE all == <<entry>> \o list
<1>1. all \in Seq(S) /\ Len(all) = Len(list) + 1
  OBVIOUS
<1>2. \A n \in 1..Len(all) : all[n] = IF n = 1 THEN entry ELSE list[n - 1]
  OBVIOUS
<1>3. Len(list) \in Nat /\ MaxIterations \in Nat /\ MaxIterations >= 1
  BY ConstantsAssumption
<1>4. CASE Len(all) <= MaxIterations
  <2>1. Push(list, entry) = all
    BY <1>4 DEF Push
  <2> QED
    BY <1>1, <1>2, <1>3, <1>4, <2>1
<1>5. CASE Len(all) > MaxIterations
  <2>1. Push(list, entry) = SubSeq(all, 1, MaxIterations)
    BY <1>1, <1>3, <1>5 DEF Push
  <2>2. /\ SubSeq(all, 1, MaxIterations) \in Seq(S)
        /\ Len(SubSeq(all, 1, MaxIterations)) = MaxIterations
        /\ \A n \in 1..MaxIterations : SubSeq(all, 1, MaxIterations)[n] = all[n]
    BY <1>1, <1>3, <1>5
  <2>3. ASSUME NEW n \in 2..MaxIterations
        PROVE  n - 1 \in 1..Len(list) /\ SubSeq(all, 1, MaxIterations)[n] = list[n - 1]
    BY <1>1, <1>2, <1>3, <1>5, <2>2
  <2> HIDE DEF all
  <2> QED
    BY <1>1, <1>2, <1>3, <1>5, <2>1, <2>2, <2>3
<1> QED
  BY <1>1, <1>3, <1>4, <1>5

-----------------------------------------------------------------------------
(* Type correctness *)

\* A copy in hand is a bounded surface, a report in hand has its iteration and a
\* finish names one.
CopyTyped(k) ==
    /\ Len(k.copy.iterations) <= MaxIterations
    /\ k.verb = "report" /\ k.step \in {"write", "migrate"} => k.copy.active # 0
    /\ k.verb = "finish" => k.id # 0

TypeInv == TypeOK /\ \A c \in Client : CopyTyped(call[c])

\* What the edits do to an admitted surface, field by field.
LEMMA EditTyped ==
    ASSUME started \in 0..MaxStarts, NEW k \in Call, NEW s \in Surface,
           Len(s.iterations) <= MaxIterations, Admits(k, s)
    PROVE  /\ Edited(k, s, started + 1) \in Surface
           /\ Len(Edited(k, s, started + 1).iterations) <= MaxIterations
           /\ k.verb = "report" => Edited(k, s, started + 1).active # 0
<1> USE DEF Surface
<1> MaxStarts \in Nat /\ MaxIterations \in Nat
  BY ConstantsAssumption
<1>1. CASE k.verb = "start"
  <2>1. Edited(k, s, started + 1) = Started(s, started + 1) /\ started + 1 \in Id
    BY <1>1 DEF Edited, Admits, Id
  <2>2. CASE s.active = 0
    BY <1>1, <2>1, <2>2 DEF Started
  <2>3. CASE s.active # 0
    <3>1. Abandoned(s) \in Iteration
      BY <2>3 DEF Abandoned, Iteration, Outcome
    <3>2. /\ Push(s.iterations, Abandoned(s)) \in Seq(Iteration)
          /\ Len(Push(s.iterations, Abandoned(s))) <= MaxIterations
      BY <3>1, PushFacts
    <3> QED
      BY <1>1, <2>1, <2>3, <3>2 DEF Started
  <2> QED
    BY <2>2, <2>3
<1>2. CASE k.verb = "report"
  BY <1>2 DEF Edited, Reported, Admits, Call, Outcome
<1>3. CASE k.verb = "finish"
  <2> DEFINE reconsolidated == k.exit = "zero" /\ s.reported
             entry == [id |-> s.active, exit |-> k.exit,
                       reconsolidated |-> reconsolidated,
                       outcome |-> IF reconsolidated THEN s.outcome ELSE "none"]
  <2>1. entry \in Iteration
    BY <1>3 DEF Admits, Call, Iteration, Outcome
  <2>2. /\ Push(s.iterations, entry) \in Seq(Iteration)
        /\ Len(Push(s.iterations, entry)) <= MaxIterations
    BY <2>1, PushFacts
  <2>3. Edited(k, s, started + 1) = [s EXCEPT !.active = 0, !.reported = FALSE,
                                 !.iterations = Push(s.iterations, entry)]
    BY <1>3 DEF Edited, Finished
  <2> QED
    BY <1>3, <2>2, <2>3
<1>4. CASE k.verb \notin {"start", "report", "finish"}
  BY <1>4 DEF Edited, Noted
<1> QED
  BY <1>1, <1>2, <1>3, <1>4

LEMMA EmptyTyped ==
    /\ EmptySurface \in Surface /\ NoFile \in Surface /\ LegacySurface \in Surface
    /\ EmptySurface.iterations = <<>> /\ NoFile.iterations = <<>>
    /\ LegacySurface.iterations = <<>> /\ Idle \in Call /\ CopyTyped(Idle)
<1>1. MaxIterations \in Nat
  BY ConstantsAssumption
<1>2. /\ EmptySurface \in Surface /\ NoFile \in Surface /\ LegacySurface \in Surface
      /\ EmptySurface.iterations = <<>> /\ NoFile.iterations = <<>>
      /\ LegacySurface.iterations = <<>>
  <2>1. EmptySurface \in Surface /\ EmptySurface.iterations = <<>>
    <3>1. <<>> \in Seq(Iteration)
      OBVIOUS
    <3> QED
      BY <3>1 DEF EmptySurface, Surface, Outcome
  <2> QED
    BY <2>1 DEF NoFile, LegacySurface, Surface
<1>3. Idle \in Call
  BY <1>2 DEF Idle, Call, ExitCode, ReportOutcome
<1> QED
  BY <1>1, <1>2, <1>3 DEF Idle, CopyTyped

LEMMA TypeStep == TypeInv /\ [Next]_vars => TypeInv'
<1> SUFFICES ASSUME TypeInv, [Next]_vars PROVE TypeInv'
  OBVIOUS
<1> USE EmptyTyped DEF TypeInv, TypeOK
<1> MaxStarts \in Nat /\ MaxIterations \in Nat
  BY ConstantsAssumption
<1>1. ASSUME NEW c \in Client, Invoke(c) PROVE TypeInv'
  <2>1. PICK verb \in AllVerbs, id \in 0..started, exit \in ExitCode,
             outcome \in ReportOutcome :
             /\ call' = [call EXCEPT ![c] = Called(verb, id, exit, outcome)]
             /\ verb = "finish" => id # 0
    <3>1. "zero" \in ExitCode /\ "ready" \in ReportOutcome /\ 0 \in 0..started
      BY DEF ExitCode, ReportOutcome
    <3>2. \A v \in Verbs : v \in AllVerbs
      BY ConstantsAssumption
    <3>3. CASE \E v \in Verbs \ {"report", "finish"} :
                  call' = [call EXCEPT ![c] = Called(v, 0, "zero", "ready")]
      BY <3>1, <3>2, <3>3
    <3>4. CASE "report" \in Verbs /\ \E o \in ReportOutcome :
                  call' = [call EXCEPT ![c] = Called("report", 0, "zero", o)]
      BY <3>1, <3>2, <3>4
    <3>5. CASE "finish" \in Verbs /\ \E i \in 1..started, e \in ExitCode :
                  call' = [call EXCEPT ![c] = Called("finish", i, e, "ready")]
      <4>1. \A i \in 1..started : i \in 0..started /\ i # 0
        OBVIOUS
      <4> QED
        BY <3>1, <3>2, <3>5, <4>1
    <3> QED
      BY <1>1, <3>3, <3>4, <3>5 DEF Invoke
  <2>2. Called(verb, id, exit, outcome) \in Call
    <3>1. id \in Id \union {0} /\ Selected \in {"canonical", "legacy"}
      BY DEF Id, Selected
    <3>2. (verb = "finish" /\ id \in answered) \in BOOLEAN
      OBVIOUS
    <3> QED
      BY <3>1, <3>2 DEF Called, Call
  <2>3. CopyTyped(Called(verb, id, exit, outcome))
    BY <2>1 DEF CopyTyped, Called, Idle
  <2> QED
    BY <1>1, <2>1, <2>2, <2>3 DEF Invoke
<1>2. ASSUME NEW c \in Client, Read(c) PROVE TypeInv'
  <2> DEFINE k == call[c]
             file == FileAt(k.path)
             surface == IF file.exists THEN file ELSE EmptySurface
  <2>1. k \in Call /\ surface \in Surface /\ Len(surface.iterations) <= MaxIterations
    BY DEF FileAt
  <2>2. CASE Admits(k, surface)
    <3>1. /\ Edited(k, surface, started + 1) \in Surface
          /\ Len(Edited(k, surface, started + 1).iterations) <= MaxIterations
          /\ k.verb = "report" => Edited(k, surface, started + 1).active # 0
      <4> HIDE DEF k, surface
      <4> QED BY <2>1, <2>2, EditTyped
    <3>2. call' = [call EXCEPT ![c] = [k EXCEPT !.step = "write",
                                                !.copy = Edited(k, surface, started + 1)]]
      BY <1>2, <2>2 DEF Read
    <3>3. [k EXCEPT !.step = "write", !.copy = Edited(k, surface, started + 1)] \in Call
      BY <2>1, <3>1 DEF Call
    <3>4. CopyTyped([k EXCEPT !.step = "write", !.copy = Edited(k, surface, started + 1)])
      BY <2>1, <3>1 DEF CopyTyped, Call
    <3>5. started' \in 0..MaxStarts
      BY <1>2, <2>2 DEF Read, Admits
    <3> QED
      BY <1>2, <3>2, <3>3, <3>4, <3>5 DEF Read
  <2>3. CASE ~Admits(k, surface)
    BY <1>2, <2>3 DEF Read, Return
  <2> QED
    BY <2>2, <2>3
<1>3. ASSUME NEW c \in Client, Write(c) PROVE TypeInv'
  <2> DEFINE k == call[c]
  <2>1. k \in Call /\ CopyTyped(k) /\ k.step = "write"
    BY <1>3 DEF Write
  <2>2. call' = [call EXCEPT ![c] = [k EXCEPT !.step = "migrate"]]
    BY <1>3 DEF Write
  <2>3. /\ [k EXCEPT !.step = "migrate"] \in Call
        /\ CopyTyped([k EXCEPT !.step = "migrate"])
    BY <2>1 DEF Call, CopyTyped
  <2>4. reports' \subseteq Id \X ReportOutcome /\ closings' \subseteq Id \X ExitCode
    BY <1>3, <2>1 DEF Write, Call, CopyTyped, Surface
  <2>5. canonical' \in Surface /\ Len(canonical'.iterations) <= MaxIterations
    BY <1>3, <2>1 DEF Write, Call, CopyTyped
  <2> QED
    BY <1>3, <2>2, <2>3, <2>4, <2>5 DEF Write
<1>4. ASSUME NEW c \in Client, Migrate(c) PROVE TypeInv'
  <2>1. answered' \subseteq Id
    BY <1>4 DEF Migrate, Call, CopyTyped, Surface
  <2> QED
    BY <1>4, <2>1 DEF Migrate, Return
<1>5. ASSUME NEW c \in Client, ClearCanonical(c) PROVE TypeInv'
  <2>1. /\ [call[c] EXCEPT !.path = "legacy"] \in Call
        /\ CopyTyped([call[c] EXCEPT !.path = "legacy"])
    BY DEF Call, CopyTyped
  <2>2. call' = [call EXCEPT ![c] = [call[c] EXCEPT !.path = "legacy"]]
    BY <1>5 DEF ClearCanonical
  <2> QED
    BY <1>5, <2>1, <2>2 DEF ClearCanonical
<1>6. ASSUME NEW c \in Client, ClearLegacy(c) PROVE TypeInv'
  BY <1>6 DEF ClearLegacy, Return
<1>7. ASSUME NEW c \in Client, Kill(c) PROVE TypeInv'
  BY <1>7 DEF Kill, Return
<1>8. CASE UNCHANGED vars
  BY <1>8 DEF vars, CopyTyped
<1> QED
  BY <1>1, <1>2, <1>3, <1>4, <1>5, <1>6, <1>7, <1>8 DEF Next, Step

LEMMA TypeInit == Init => TypeInv
<1> SUFFICES ASSUME Init PROVE TypeInv
  OBVIOUS
<1> QED
  BY EmptyTyped, ConstantsAssumption DEF Init, TypeInv, TypeOK

\* Both files and every copy are surfaces of at most MAX_ITERATIONS iterations,
\* for any number of clients, verbs and kills.
THEOREM SurfaceTyped == Spec => []TypeOK
<1>1. TypeInv => TypeOK
  BY DEF TypeInv
<1> QED
  BY <1>1, TypeInit, TypeStep, PTL DEF Spec

-----------------------------------------------------------------------------
(* Honest surfaces: what they say was reported and finished was *)

\* The histories a surface is judged by: R the reports, C the finishes written.
HonestEntry(it, R, C) ==
    /\ it.reconsolidated => <<it.id, it.outcome>> \in R /\ <<it.id, "zero">> \in C
    /\ it.exit # "none" => <<it.id, it.exit>> \in C

Honest(s, R, C) ==
    /\ s.reported => <<s.active, s.outcome>> \in R
    /\ \A n \in 1..Len(s.iterations) : HonestEntry(s.iterations[n], R, C)

\* What a copy in hand will have made true when it is written.
PendingReports(k) == IF k.verb = "report" THEN {<<k.copy.active, k.outcome>>} ELSE {}
PendingClosings(k) == IF k.verb = "finish" THEN {<<k.id, k.exit>>} ELSE {}

CopyHonest(k) ==
    k.step = "write" =>
        Honest(k.copy, reports \union PendingReports(k),
               closings \union PendingClosings(k))

HonestInv ==
    /\ Honest(canonical, reports, closings)
    /\ \A c \in Client : CopyHonest(call[c])

\* Histories only grow.
LEMMA HonestGrows ==
    ASSUME NEW s \in Surface, NEW R, NEW C, NEW R2, NEW C2,
           R \subseteq R2, C \subseteq C2, Honest(s, R, C)
    PROVE  Honest(s, R2, C2)
BY DEF Honest, HonestEntry

\* Pushing an honest entry on an honest list.
LEMMA HonestPush ==
    ASSUME NEW R, NEW C, NEW list \in Seq(Iteration), NEW entry \in Iteration,
           HonestEntry(entry, R, C),
           \A n \in 1..Len(list) : HonestEntry(list[n], R, C)
    PROVE  \A n \in 1..Len(Push(list, entry)) :
              HonestEntry(Push(list, entry)[n], R, C)
<1> SUFFICES ASSUME NEW n \in 1..Len(Push(list, entry))
             PROVE  HonestEntry(Push(list, entry)[n], R, C)
  OBVIOUS
<1>1. CASE n = 1
  <2>1. Push(list, entry)[1] = entry
    BY PushFacts
  <2> QED
    BY <1>1, <2>1
<1>2. CASE n # 1
  <2>1. Len(Push(list, entry)) \in Nat
    BY PushFacts, ConstantsAssumption
  <2>2. n \in 2..Len(Push(list, entry))
    BY <1>2, <2>1
  <2> QED
    BY <2>2, PushFacts
<1> QED
  BY <1>1, <1>2

\* An admitted edit of an honest surface is honest once the edit is written.
LEMMA HonestEdit ==
    ASSUME started \in 0..MaxStarts, NEW k \in Call, NEW s \in Surface,
           NEW R, NEW C, Admits(k, s), Honest(s, R, C)
    PROVE  Honest(Edited(k, s, started + 1),
                  R \union (IF k.verb = "report"
                            THEN {<<Edited(k, s, started + 1).active, k.outcome>>} ELSE {}),
                  C \union (IF k.verb = "finish" THEN {<<k.id, k.exit>>} ELSE {}))
<1> USE DEF Surface
<1> MaxStarts \in Nat
  BY ConstantsAssumption
<1>1. CASE k.verb = "start"
  <2> DEFINE t == Started(s, started + 1)
  <2>1. Edited(k, s, started + 1) = t /\ ~t.reported
    BY <1>1 DEF Edited, Started
  <2>2. CASE s.active = 0
    <3>1. t.iterations = s.iterations
      BY <2>2 DEF Started
    <3> QED
      BY <1>1, <2>1, <3>1 DEF Honest
  <2>3. CASE s.active # 0
    <3>1. t.iterations = Push(s.iterations, Abandoned(s))
      BY <2>3 DEF Started
    <3>2. Abandoned(s) \in Iteration /\ HonestEntry(Abandoned(s), R, C)
      BY <2>3 DEF Abandoned, Iteration, Outcome, HonestEntry
    <3>3. \A n \in 1..Len(t.iterations) : HonestEntry(t.iterations[n], R, C)
      BY <3>1, <3>2, HonestPush DEF Honest
    <3> QED
      BY <1>1, <2>1, <3>3 DEF Honest
  <2> QED
    BY <2>2, <2>3
<1>2. CASE k.verb = "report"
  <2>1. Edited(k, s, started + 1) = [s EXCEPT !.reported = TRUE, !.outcome = k.outcome]
    BY <1>2 DEF Edited, Reported
  <2> QED
    BY <1>2, <2>1 DEF Honest, HonestEntry
<1>3. CASE k.verb = "finish"
  <2> DEFINE reconsolidated == k.exit = "zero" /\ s.reported
             entry == [id |-> s.active, exit |-> k.exit,
                       reconsolidated |-> reconsolidated,
                       outcome |-> IF reconsolidated THEN s.outcome ELSE "none"]
             C2 == C \union {<<k.id, k.exit>>}
  <2>1. entry \in Iteration /\ k.id = s.active
    BY <1>3 DEF Admits, Call, Iteration, Outcome
  <2>2. HonestEntry(entry, R, C2)
    BY <1>3, <2>1 DEF HonestEntry, Honest
  <2>3. \A n \in 1..Len(s.iterations) : HonestEntry(s.iterations[n], R, C2)
    BY DEF Honest, HonestEntry
  <2>4. \A n \in 1..Len(Push(s.iterations, entry)) :
           HonestEntry(Push(s.iterations, entry)[n], R, C2)
    <3> HIDE DEF entry, C2
    <3> QED BY <2>1, <2>2, <2>3, HonestPush
  <2>5. Edited(k, s, started + 1) = [s EXCEPT !.active = 0, !.reported = FALSE,
                                 !.iterations = Push(s.iterations, entry)]
    BY <1>3 DEF Edited, Finished
  <2>6. Edited(k, s, started + 1).reported = FALSE
        /\ Edited(k, s, started + 1).iterations = Push(s.iterations, entry)
    BY <2>5
  <2> HIDE DEF entry
  <2> QED
    BY <1>3, <2>4, <2>6 DEF Honest
<1>4. CASE k.verb \notin {"start", "report", "finish"}
  BY <1>4 DEF Edited, Noted
<1> QED
  BY <1>1, <1>2, <1>3, <1>4

LEMMA EmptyHonest ==
    ASSUME NEW R, NEW C
    PROVE  /\ Honest(EmptySurface, R, C) /\ Honest(NoFile, R, C)
           /\ Honest(LegacySurface, R, C)
<1>1. /\ ~EmptySurface.reported /\ ~NoFile.reported /\ ~LegacySurface.reported
  BY DEF EmptySurface, NoFile, LegacySurface
<1> QED
  BY <1>1, EmptyTyped DEF Honest

\* The next step leaves the histories larger and every copy but c's as it was.
LEMMA HonestStep == TypeInv /\ HonestInv /\ [Next]_vars => HonestInv'
<1> SUFFICES ASSUME TypeInv, HonestInv, [Next]_vars PROVE HonestInv'
  OBVIOUS
<1> USE DEF TypeInv, TypeOK
<1>1. ASSUME NEW c \in Client, Return(c), UNCHANGED <<reports, closings>>,
             canonical' \in {canonical, NoFile}
      PROVE  HonestInv'
  <2>1. Honest(canonical', reports, closings)
    BY <1>1, EmptyHonest DEF HonestInv
  <2>2. \A e \in Client : CopyHonest(call[e])'
    BY <1>1 DEF HonestInv, CopyHonest, PendingReports, PendingClosings, Return, Idle
  <2> QED
    BY <1>1, <2>1, <2>2 DEF HonestInv
<1>2. ASSUME NEW c \in Client, NEW k \in Call, k.step # "write",
             call' = [call EXCEPT ![c] = k], UNCHANGED <<reports, closings>>,
             canonical' \in {canonical, NoFile}
      PROVE  HonestInv'
  <2>1. Honest(canonical', reports, closings)
    BY <1>2, EmptyHonest DEF HonestInv
  <2>2. \A e \in Client : CopyHonest(call[e])'
    BY <1>2 DEF HonestInv, CopyHonest, PendingReports, PendingClosings
  <2> QED
    BY <1>2, <2>1, <2>2 DEF HonestInv
<1>3. ASSUME NEW c \in Client, Invoke(c) PROVE HonestInv'
  <2>1. PICK k : call' = [call EXCEPT ![c] = k] /\ k.step # "write"
    <3>1. \A verb, id, exit, outcome : Called(verb, id, exit, outcome).step # "write"
      BY EmptyTyped DEF Called, Call
    <3> QED
      BY <1>3, <3>1 DEF Invoke
  <2>2. \A e \in Client : CopyHonest(call[e])'
    BY <1>3, <2>1 DEF HonestInv, CopyHonest, PendingReports, PendingClosings, Invoke
  <2> QED
    BY <1>3, <2>2 DEF HonestInv, Invoke
<1>4. ASSUME NEW c \in Client, Read(c) PROVE HonestInv'
  <2> DEFINE k == call[c]
             file == FileAt(k.path)
             surface == IF file.exists THEN file ELSE EmptySurface
             read == [k EXCEPT !.step = "write", !.copy = Edited(k, surface, started + 1)]
  <2>1. k \in Call /\ surface \in Surface /\ Len(surface.iterations) <= MaxIterations
    BY EmptyTyped, ConstantsAssumption DEF FileAt
  <2>2. Honest(surface, reports, closings)
    BY EmptyHonest DEF FileAt, HonestInv
  <2>3. CASE Admits(k, surface)
    <3>1. Honest(Edited(k, surface, started + 1),
                 reports \union (IF k.verb = "report"
                                 THEN {<<Edited(k, surface, started + 1).active, k.outcome>>}
                                 ELSE {}),
                 closings \union (IF k.verb = "finish" THEN {<<k.id, k.exit>>} ELSE {}))
      <4> HIDE DEF k, surface
      <4> QED BY <2>1, <2>2, <2>3, HonestEdit
    <3>2. call' = [call EXCEPT ![c] = read] /\ UNCHANGED <<reports, closings, canonical>>
      BY <1>4, <2>3 DEF Read
    <3>3. /\ read.verb = k.verb /\ read.id = k.id /\ read.exit = k.exit
          /\ read.outcome = k.outcome /\ read.copy = Edited(k, surface, started + 1)
      BY DEF Call
    <3>4. CopyHonest(read)
      <4> HIDE DEF k, surface, read
      <4> QED BY <3>1, <3>3 DEF CopyHonest, PendingReports, PendingClosings
    <3>5. \A e \in Client : CopyHonest(call[e])'
      <4> SUFFICES ASSUME NEW e \in Client PROVE CopyHonest(call[e])'
        OBVIOUS
      <4>1. CASE e = c
        <5> HIDE DEF read
        <5> QED BY <3>2, <3>4, <4>1 DEF CopyHonest, PendingReports, PendingClosings
      <4>2. CASE e # c
        <5> HIDE DEF read
        <5> QED
          BY <3>2, <4>2 DEF HonestInv, CopyHonest, PendingReports, PendingClosings
      <4> QED
        BY <4>1, <4>2
    <3> QED
      BY <3>2, <3>5 DEF HonestInv
  <2>4. CASE ~Admits(k, surface)
    BY <1>1, <1>4, <2>4 DEF Read
  <2> QED
    BY <2>3, <2>4
<1>5. ASSUME NEW c \in Client, Write(c) PROVE HonestInv'
  <2> DEFINE k == call[c]
  <2>1. /\ k \in Call /\ k.copy \in Surface
        /\ reports' = reports \union PendingReports(k)
        /\ closings' = closings \union PendingClosings(k)
    BY <1>5 DEF Write, Call, PendingReports, PendingClosings
  <2>2. Honest(canonical', reports', closings')
    BY <1>5, <2>1 DEF Write, HonestInv, CopyHonest
  <2>3. ASSUME NEW e \in Client PROVE CopyHonest(call[e])'
    <3>1. CASE e = c
      BY <1>5, <3>1 DEF Write, CopyHonest, Call
    <3>2. CASE e # c
      <4>1. call'[e] = call[e] /\ call[e] \in Call /\ call[e].copy \in Surface
        BY <1>5, <3>2 DEF Write, Call
      <4>2. call[e].step = "write" =>
               Honest(call[e].copy, reports \union PendingReports(call[e]),
                      closings \union PendingClosings(call[e]))
        BY DEF HonestInv, CopyHonest
      <4>3. /\ reports \union PendingReports(call[e])
                   \subseteq reports' \union PendingReports(call[e])
            /\ closings \union PendingClosings(call[e])
                   \subseteq closings' \union PendingClosings(call[e])
        BY <2>1
      <4>4. call[e].step = "write" =>
               Honest(call[e].copy, reports' \union PendingReports(call[e]),
                      closings' \union PendingClosings(call[e]))
        BY <4>1, <4>2, <4>3, HonestGrows
      <4> QED
        BY <4>1, <4>4 DEF CopyHonest, PendingReports, PendingClosings
    <3> QED
      BY <3>1, <3>2
  <2> QED
    BY <2>2, <2>3 DEF HonestInv
<1>6. ASSUME NEW c \in Client, Migrate(c) \/ ClearLegacy(c) \/ Kill(c) PROVE HonestInv'
  BY <1>1, <1>6 DEF Migrate, ClearLegacy, Kill
<1>7. ASSUME NEW c \in Client, ClearCanonical(c) PROVE HonestInv'
  <2>1. [call[c] EXCEPT !.path = "legacy"] \in Call
    BY DEF Call
  <2> QED
    BY <1>2, <1>7, <2>1 DEF ClearCanonical, Call
<1>8. CASE UNCHANGED vars
  BY <1>8 DEF vars, HonestInv, CopyHonest, PendingReports, PendingClosings
<1> QED
  BY <1>3, <1>4, <1>5, <1>6, <1>7, <1>8 DEF Next, Step

LEMMA HonestInit == Init => HonestInv
<1> SUFFICES ASSUME Init PROVE HonestInv
  OBVIOUS
<1> QED
  BY EmptyHonest DEF Init, HonestInv, CopyHonest, Idle

\* No iteration of operator.json is ever reconsolidated without a report of its
\* own with that outcome and a finish of its own with exit 0, for any number of
\* clients writing back copies of any age.
THEOREM ReconsolidationIsReported == Spec => []ReconsolidatedWasReported
<1>1. HonestInv => ReconsolidatedWasReported
  BY DEF HonestInv, Honest, HonestEntry, ReconsolidatedWasReported
<1> QED
  BY <1>1, TypeInit, TypeStep, HonestInit, HonestStep, PTL DEF Spec

\* No iteration is closed but by a finish that named it, with the code it gave.
THEOREM FinishClosesItsOwn == Spec => []ClosedAsCalled
<1>1. HonestInv => ClosedAsCalled
  BY DEF HonestInv, Honest, HonestEntry, ClosedAsCalled
<1> QED
  BY <1>1, TypeInit, TypeStep, HonestInit, HonestStep, PTL DEF Spec

-----------------------------------------------------------------------------
(* Ordered surfaces: newest first, the active iteration newest of all *)

Decreasing(list) ==
    \A m, n \in 1..Len(list) : m < n => list[m].id > list[n].id

Below(list, id) == \A n \in 1..Len(list) : list[n].id < id

Ordered(s, bound) ==
    /\ s.active <= bound
    /\ Below(s.iterations, bound + 1)
    /\ s.active # 0 => Below(s.iterations, s.active)
    /\ Decreasing(s.iterations)

OrderedInv ==
    /\ Ordered(canonical, started)
    /\ \A c \in Client : call[c].step = "write" => Ordered(call[c].copy, started)

LEMMA EntryId == \A it \in Iteration : it.id \in Nat
BY ConstantsAssumption DEF Iteration, Id

LEMMA ListIds ==
    ASSUME NEW list \in Seq(Iteration)
    PROVE  Len(list) \in Nat /\ \A n \in 1..Len(list) : list[n].id \in Nat
<1>1. \A it \in Iteration : it.id \in Nat
  BY EntryId
<1>2. \A n \in 1..Len(list) : list[n] \in Iteration
  OBVIOUS
<1> QED
  BY <1>1, <1>2

LEMMA SurfaceIds ==
    ASSUME NEW s \in Surface
    PROVE  /\ s.active \in Nat /\ s.iterations \in Seq(Iteration)
           /\ Len(s.iterations) \in Nat
           /\ \A n \in 1..Len(s.iterations) : s.iterations[n].id \in Nat
<1>1. s.active \in Nat
  BY ConstantsAssumption DEF Surface, Id
<1>2. s.iterations \in Seq(Iteration)
  BY DEF Surface
<1> QED
  BY <1>1, <1>2, ListIds

\* Pushing an entry newer than everything on the list.
LEMMA OrderedPush ==
    ASSUME NEW list \in Seq(Iteration), NEW entry \in Iteration, NEW bound \in Nat,
           Decreasing(list), Below(list, entry.id), entry.id < bound
    PROVE  Decreasing(Push(list, entry)) /\ Below(Push(list, entry), bound)
<1> DEFINE pushed == Push(list, entry)
<1>1. /\ Len(pushed) \in Nat /\ pushed[1] = entry
      /\ \A n \in 2..Len(pushed) : n - 1 \in 1..Len(list) /\ pushed[n] = list[n - 1]
  <2>1. /\ pushed \in Seq(Iteration) /\ pushed[1] = entry
        /\ \A n \in 2..Len(pushed) : n - 1 \in 1..Len(list) /\ pushed[n] = list[n - 1]
    BY PushFacts
  <2> QED
    BY <2>1
<1>2. entry.id \in Nat /\ \A n \in 1..Len(list) : list[n].id \in Nat
  BY ListIds, EntryId
<1>3. \A n \in 1..Len(pushed) : n # 1 => n \in 2..Len(pushed)
  BY <1>1
<1> HIDE DEF pushed
<1>4. Below(pushed, bound)
  BY <1>1, <1>2, <1>3 DEF Below
<1>5. ASSUME NEW m \in 1..Len(pushed), NEW n \in 1..Len(pushed), m < n
      PROVE  pushed[m].id > pushed[n].id
  <2>1. n \in 2..Len(pushed) /\ n - 1 \in 1..Len(list) /\ pushed[n] = list[n - 1]
    BY <1>1, <1>5
  <2>2. CASE m = 1
    BY <1>1, <1>2, <2>1, <2>2 DEF Below
  <2>3. CASE m # 1
    <3>1. m - 1 \in 1..Len(list) /\ pushed[m] = list[m - 1] /\ m - 1 < n - 1
      BY <1>1, <1>3, <1>5, <2>3
    <3> QED
      BY <2>1, <3>1 DEF Decreasing
  <2> QED
    BY <2>2, <2>3
<1>6. Decreasing(pushed)
  BY <1>5 DEF Decreasing
<1> QED
  BY <1>4, <1>6 DEF pushed

LEMMA OrderedGrows ==
    ASSUME NEW s \in Surface, NEW b \in Nat, NEW b2 \in Nat, b <= b2, Ordered(s, b)
    PROVE  Ordered(s, b2)
<1>1. s.active \in Nat /\ \A n \in 1..Len(s.iterations) : s.iterations[n].id \in Nat
  BY SurfaceIds
<1> QED
  BY <1>1 DEF Ordered, Below

\* An admitted edit of an ordered surface is ordered, up to the id a start takes.
LEMMA OrderedEdit ==
    ASSUME started \in 0..MaxStarts, NEW k \in Call, NEW s \in Surface,
           Admits(k, s), Ordered(s, started)
    PROVE  Ordered(Edited(k, s, started + 1), IF k.verb = "start" THEN started + 1 ELSE started)
<1> USE DEF Surface
<1>a. /\ MaxStarts \in Nat /\ started \in Nat /\ s.active \in Nat
      /\ \A n \in 1..Len(s.iterations) : s.iterations[n].id \in Nat
  BY SurfaceIds, ConstantsAssumption
<1>1. CASE k.verb = "start"
  <2> DEFINE t == Started(s, started + 1)
  <2>1. Edited(k, s, started + 1) = t /\ t.active = started + 1
    BY <1>1 DEF Edited, Started
  <2>2. CASE s.active = 0
    <3>1. t.iterations = s.iterations
      BY <2>2 DEF Started
    <3>2. Ordered(t, started + 1)
      BY <1>a, <2>1, <3>1 DEF Ordered, Below
    <3> QED
      BY <1>1, <2>1, <3>2
  <2>3. CASE s.active # 0
    <3>1. t.iterations = Push(s.iterations, Abandoned(s))
      BY <2>3 DEF Started
    <3>2. Abandoned(s) \in Iteration /\ Abandoned(s).id = s.active
      BY <2>3 DEF Abandoned, Iteration, Outcome
    <3>3. Decreasing(t.iterations) /\ Below(t.iterations, started + 1)
      BY <1>a, <2>3, <3>1, <3>2, OrderedPush DEF Ordered
    <3>4. Ordered(t, started + 1)
      <4>1. t.iterations \in Seq(Iteration)
        <5>1. Push(s.iterations, Abandoned(s)) \in Seq(Iteration)
          BY <3>2, SurfaceIds, PushFacts
        <5> QED
          BY <3>1, <5>1
      <4>2. \A n \in 1..Len(t.iterations) : t.iterations[n].id \in Nat
        BY <4>1, ListIds
      <4> HIDE DEF t
      <4> QED
        BY <1>a, <2>1, <3>3, <4>2 DEF Ordered, Below
    <3> QED
      BY <1>1, <2>1, <3>4
  <2> QED
    BY <2>2, <2>3
<1>2. CASE k.verb = "report"
  <2>1. /\ Edited(k, s, started + 1).active = s.active
        /\ Edited(k, s, started + 1).iterations = s.iterations
    BY <1>2 DEF Edited, Reported
  <2> QED
    BY <1>2, <2>1 DEF Ordered
<1>3. CASE k.verb = "finish"
  <2> DEFINE reconsolidated == k.exit = "zero" /\ s.reported
             entry == [id |-> s.active, exit |-> k.exit,
                       reconsolidated |-> reconsolidated,
                       outcome |-> IF reconsolidated THEN s.outcome ELSE "none"]
  <2>1. entry \in Iteration /\ entry.id = s.active /\ s.active # 0
    BY <1>3 DEF Admits, Call, Iteration, Outcome
  <2>2. /\ Edited(k, s, started + 1).active = 0
        /\ Edited(k, s, started + 1).iterations = Push(s.iterations, entry)
    BY <1>3 DEF Edited, Finished
  <2> HIDE DEF entry
  <2>3. /\ Decreasing(Push(s.iterations, entry))
        /\ Below(Push(s.iterations, entry), started + 1)
    BY <1>a, <2>1, OrderedPush DEF Ordered
  <2> QED
    BY <1>a, <1>3, <2>2, <2>3 DEF Ordered
<1>4. CASE k.verb \notin {"start", "report", "finish"}
  BY <1>4 DEF Edited, Noted
<1> QED
  BY <1>1, <1>2, <1>3, <1>4

LEMMA EmptyOrdered ==
    ASSUME NEW b \in Nat
    PROVE  Ordered(EmptySurface, b) /\ Ordered(NoFile, b) /\ Ordered(LegacySurface, b)
<1>1. EmptySurface.active = 0 /\ NoFile.active = 0 /\ LegacySurface.active = 0
  BY DEF EmptySurface, NoFile, LegacySurface
<1> QED
  BY <1>1, EmptyTyped DEF Ordered, Below, Decreasing

LEMMA OrderedStep == TypeInv /\ OrderedInv /\ [Next]_vars => OrderedInv'
<1> SUFFICES ASSUME TypeInv, OrderedInv, [Next]_vars PROVE OrderedInv'
  OBVIOUS
<1> USE DEF TypeInv, TypeOK
<1>a. started \in Nat
  BY ConstantsAssumption
<1>1. ASSUME NEW c \in Client, NEW k, k.step # "write", UNCHANGED started,
             call' = [call EXCEPT ![c] = k], canonical' \in {canonical, NoFile}
      PROVE  OrderedInv'
  <2>1. Ordered(canonical', started)
    BY <1>a, <1>1, EmptyOrdered DEF OrderedInv
  <2> QED
    BY <1>1, <2>1 DEF OrderedInv
<1>2. ASSUME NEW c \in Client, Invoke(c) PROVE OrderedInv'
  <2>1. PICK k : call' = [call EXCEPT ![c] = k] /\ k.step # "write"
    <3>1. \A verb, id, exit, outcome : Called(verb, id, exit, outcome).step # "write"
      BY EmptyTyped DEF Called, Call
    <3> QED
      BY <1>2, <3>1 DEF Invoke
  <2> QED
    BY <1>1, <1>2, <2>1 DEF Invoke
<1>3. ASSUME NEW c \in Client, Read(c) PROVE OrderedInv'
  <2> DEFINE k == call[c]
             file == FileAt(k.path)
             surface == IF file.exists THEN file ELSE EmptySurface
             edited == Edited(k, surface, started + 1)
  <2>1. k \in Call /\ surface \in Surface /\ Len(surface.iterations) <= MaxIterations
    BY EmptyTyped, ConstantsAssumption DEF FileAt
  <2>2. Ordered(surface, started)
    BY <1>a, EmptyOrdered DEF FileAt, OrderedInv
  <2>3. CASE Admits(k, surface)
    <3>1. /\ started' = IF k.verb = "start" THEN started + 1 ELSE started
          /\ canonical' = canonical
      BY <1>3, <2>3 DEF Read
    <3>2. call' = [call EXCEPT ![c] = [k EXCEPT !.step = "write", !.copy = edited]]
      BY <1>3, <2>3 DEF Read
    <3>3. Ordered(edited, started') /\ edited \in Surface
      <4> HIDE DEF k, surface
      <4> QED BY <2>1, <2>2, <2>3, <3>1, OrderedEdit, EditTyped
    <3>4. started' \in Nat /\ started <= started'
      BY <1>a, <3>1
    <3>5. Ordered(canonical', started')
      BY <1>a, <3>1, <3>4, OrderedGrows DEF OrderedInv
    <3>6. ASSUME NEW e \in Client, call'[e].step = "write"
          PROVE  Ordered(call'[e].copy, started')
      <4>1. CASE e = c
        <5>1. call'[e].copy = edited
          BY <2>1, <3>2, <4>1 DEF Call
        <5> QED
          BY <3>3, <5>1
      <4>2. CASE e # c
        <5>1. call'[e] = call[e] /\ call[e].copy \in Surface
          BY <3>2, <4>2 DEF Call
        <5> QED
          BY <1>a, <3>4, <3>6, <5>1, OrderedGrows DEF OrderedInv
      <4> QED
        BY <4>1, <4>2
    <3> QED
      BY <3>5, <3>6 DEF OrderedInv
  <2>4. CASE ~Admits(k, surface)
    BY <1>1, <1>3, <2>4 DEF Read, Return, Idle
  <2> QED
    BY <2>3, <2>4
<1>4. ASSUME NEW c \in Client, Write(c) PROVE OrderedInv'
  <2>1. canonical' = call[c].copy /\ Ordered(call[c].copy, started) /\ started' = started
    BY <1>4 DEF Write, OrderedInv
  <2>2. \A e \in Client : call'[e].step = "write" => call'[e] = call[e]
    BY <1>4 DEF Write, Call
  <2> QED
    BY <2>1, <2>2 DEF OrderedInv
<1>5. ASSUME NEW c \in Client, Migrate(c) \/ ClearLegacy(c) \/ Kill(c) PROVE OrderedInv'
  BY <1>1, <1>5 DEF Migrate, ClearLegacy, Kill, Return, Idle
<1>6. ASSUME NEW c \in Client, ClearCanonical(c) PROVE OrderedInv'
  <2>1. [call[c] EXCEPT !.path = "legacy"].step # "write"
    BY <1>6 DEF ClearCanonical, Call
  <2>2. call' = [call EXCEPT ![c] = [call[c] EXCEPT !.path = "legacy"]]
    BY <1>6 DEF ClearCanonical
  <2> QED
    BY <1>1, <1>6, <2>1, <2>2 DEF ClearCanonical
<1>7. CASE UNCHANGED vars
  BY <1>7 DEF vars, OrderedInv
<1> QED
  BY <1>2, <1>3, <1>4, <1>5, <1>6, <1>7 DEF Next, Step

LEMMA OrderedInit == Init => OrderedInv
<1> SUFFICES ASSUME Init PROVE OrderedInv
  OBVIOUS
<1> QED
  BY EmptyOrdered DEF Init, OrderedInv, Idle

\* The kept iterations are newest first, none twice, none of them active, for
\* any number of clients writing back copies of any age.
THEOREM NewestFirst == Spec => []IterationsOrdered
<1>1. TypeInv /\ OrderedInv => IterationsOrdered
  <2> SUFFICES ASSUME TypeInv, OrderedInv PROVE IterationsOrdered
    OBVIOUS
  <2>1. /\ canonical.active \in Nat
        /\ \A n \in 1..Len(canonical.iterations) : canonical.iterations[n].id \in Nat
    BY SurfaceIds DEF TypeInv, TypeOK
  <2> QED
    BY <2>1 DEF OrderedInv, Ordered, Below, Decreasing, IterationsOrdered
<1> QED
  BY <1>1, TypeInit, TypeStep, OrderedInit, OrderedStep, PTL DEF Spec

-----------------------------------------------------------------------------
(* One client at a time: the surface is the README's ledger *)

OneClient == \A c, e \in Client : c = e

\* What load_with_warning makes of the selected file.
Base == IF Current.exists THEN Current ELSE EmptySurface

\* A lone client's copy is an edit of the very surface it will replace.
CopyFresh(k) ==
    /\ k.step = "read" => k.path = Selected
    /\ k.step = "write" =>
          /\ k.copy = Edited(k, Base, started)
          /\ k.verb \in {"report", "finish"} => Base.active # 0
          /\ k.verb = "start" => started # 0
    /\ k.step = "migrate" => canonical.exists
    /\ k.step = "unlink" /\ k.path = "legacy" => ~canonical.exists

AloneInv == \A c \in Client : CopyFresh(call[c])

LEMMA EditExists ==
    ASSUME NEW k, NEW s \in Surface, NEW id
    PROVE  Edited(k, s, id).exists = s.exists
BY DEF Edited, Noted, Started, Reported, Finished, Surface

LEMMA BaseExists == TypeInv => Base \in Surface /\ Base.exists
<1> SUFFICES ASSUME TypeInv PROVE Base \in Surface /\ Base.exists
  OBVIOUS
<1>1. EmptySurface.exists
  BY DEF EmptySurface
<1>2. Current \in Surface
  BY EmptyTyped DEF TypeInv, TypeOK, Current, FileAt
<1> QED
  BY <1>1, <1>2, EmptyTyped DEF Base

LEMMA AloneStep == OneClient /\ TypeInv /\ AloneInv /\ [Next]_vars => AloneInv'
<1> SUFFICES ASSUME OneClient, TypeInv, AloneInv, [Next]_vars PROVE AloneInv'
  OBVIOUS
<1> USE DEF TypeInv, TypeOK
<1>1. ASSUME NEW c \in Client, NEW k, call' = [call EXCEPT ![c] = k],
             CopyFresh(k)'
      PROVE  AloneInv'
  BY <1>1 DEF OneClient, AloneInv
<1>2. CopyFresh(Idle)'
  BY DEF CopyFresh, Idle
<1>3. ASSUME NEW c \in Client, Return(c) PROVE AloneInv'
  BY <1>1, <1>2, <1>3 DEF Return, CopyFresh, Idle
<1>4. ASSUME NEW c \in Client, Invoke(c) PROVE AloneInv'
  <2>1. PICK verb, id, exit, outcome :
           call' = [call EXCEPT ![c] = Called(verb, id, exit, outcome)]
    BY <1>4 DEF Invoke
  <2>2. CopyFresh(Called(verb, id, exit, outcome))'
    <3>1. /\ Called(verb, id, exit, outcome).step \in {"read", "unlink"}
          /\ Called(verb, id, exit, outcome).step = "read" =>
                Called(verb, id, exit, outcome).path = Selected
          /\ Called(verb, id, exit, outcome).step = "unlink" =>
                Called(verb, id, exit, outcome).path = "canonical"
      BY EmptyTyped DEF Called, Call
    <3>2. Selected' = Selected
      BY <1>4 DEF Invoke, Selected
    <3>3. Called(verb, id, exit, outcome)' = Called(verb, id, exit, outcome)
      BY <1>4, <3>2 DEF Invoke, Called
    <3> HIDE DEF Called
    <3> QED
      BY <3>1, <3>2, <3>3 DEF CopyFresh
  <2>3. Called(verb, id, exit, outcome)' = Called(verb, id, exit, outcome)
    BY <1>4 DEF Invoke, Called, Selected
  <2> QED
    BY <2>1, <2>2, <2>3 DEF OneClient, AloneInv
<1>5. ASSUME NEW c \in Client, Read(c) PROVE AloneInv'
  <2> PICK k : k = call[c]
    OBVIOUS
  <2>1. /\ k \in Call
        /\ Base = IF FileAt(k.path).exists THEN FileAt(k.path) ELSE EmptySurface
    BY <1>5 DEF AloneInv, CopyFresh, Read, Base, Current
  <2>2. CASE Admits(k, Base)
    <3>a. PICK read : read = [k EXCEPT !.step = "write",
                                       !.copy = Edited(k, Base, started + 1)]
      OBVIOUS
    <3>1. /\ call' = [call EXCEPT ![c] = read]
          /\ read.step = "write" /\ read.verb = k.verb
          /\ read.outcome = k.outcome /\ read.exit = k.exit
          /\ read.copy = Edited(k, Base, started + 1)
      <4>1. call' = [call EXCEPT ![c] = read]
        BY <1>5, <2>1, <2>2, <3>a DEF Read
      <4> QED
        BY <2>1, <3>a, <4>1 DEF Call
    <3>2. /\ started' = IF k.verb = "start" THEN started + 1 ELSE started
          /\ UNCHANGED <<canonical, legacy>>
      BY <1>5, <2>1, <2>2 DEF Read
    <3>3. Base' = Base
      BY <3>2 DEF Base, Current, FileAt, Selected
    <3>4. read.copy = Edited(read, Base, started')
      BY <3>1, <3>2 DEF Edited
    <3>5. k.verb \in {"report", "finish"} => Base.active # 0
      BY <2>1, <2>2 DEF Admits
    <3>6. k.verb = "start" => started' # 0
      BY <3>2, ConstantsAssumption
    <3>7. CopyFresh(read)'
      BY <3>1, <3>3, <3>4, <3>5, <3>6 DEF CopyFresh
    <3> QED
      BY <1>1, <3>1, <3>7
  <2>3. CASE ~Admits(k, Base)
    BY <1>3, <1>5, <2>1, <2>3 DEF Read
  <2> QED
    BY <2>2, <2>3
<1>6. ASSUME NEW c \in Client, Write(c) PROVE AloneInv'
  <2>a. PICK written : written = [call[c] EXCEPT !.step = "migrate"]
    OBVIOUS
  <2>1. call' = [call EXCEPT ![c] = written] /\ written.step = "migrate"
    BY <1>6, <2>a DEF Write, Call
  <2>2. canonical'.exists
    BY <1>6, BaseExists, EditExists DEF Write, AloneInv, CopyFresh
  <2>3. CopyFresh(written)'
    BY <2>1, <2>2 DEF CopyFresh
  <2> QED
    BY <1>1, <2>1, <2>3
<1>7. ASSUME NEW c \in Client, Migrate(c) \/ ClearLegacy(c) \/ Kill(c) PROVE AloneInv'
  BY <1>3, <1>7 DEF Migrate, ClearLegacy, Kill
<1>8. ASSUME NEW c \in Client, ClearCanonical(c) PROVE AloneInv'
  <2>a. PICK cleared : cleared = [call[c] EXCEPT !.path = "legacy"]
    OBVIOUS
  <2>1. call' = [call EXCEPT ![c] = cleared] /\ cleared.step = "unlink"
    BY <1>8, <2>a DEF ClearCanonical, Call
  <2>2. ~canonical'.exists
    BY <1>8 DEF ClearCanonical, NoFile, EmptySurface
  <2>3. CopyFresh(cleared)'
    BY <2>1, <2>2 DEF CopyFresh
  <2> QED
    BY <1>1, <2>1, <2>3
<1>9. CASE UNCHANGED vars
  <2>1. Base' = Base /\ Selected' = Selected /\ UNCHANGED <<canonical, started, call>>
    BY <1>9 DEF vars, Base, Current, FileAt, Selected
  <2>2. ASSUME NEW c \in Client PROVE CopyFresh(call[c])'
    <3>1. PICK k : k = call[c]
      OBVIOUS
    <3>2. CopyFresh(k)'
      BY <2>1, <3>1 DEF AloneInv, CopyFresh
    <3> QED
      BY <2>1, <3>1, <3>2
  <2> QED
    BY <2>2 DEF AloneInv
<1> QED
  BY <1>4, <1>5, <1>6, <1>7, <1>8, <1>9 DEF Next, Step

LEMMA AloneInit == Init => AloneInv
<1> SUFFICES ASSUME Init, NEW c \in Client PROVE CopyFresh(call[c])
  BY DEF AloneInv
<1>1. call[c] = Idle
  BY DEF Init
<1>2. Idle.step = "idle"
  BY DEF Idle
<1>3. call[c].step = "idle"
  BY <1>1, <1>2
<1> QED
  BY <1>3 DEF CopyFresh

\* The three fields of the ledger, and how a surface stands for them.
Accepted(s) == IF s.reported THEN s.outcome ELSE "none"

SameLedger(s, t) ==
    s.active = t.active /\ Accepted(s) = Accepted(t) /\ s.iterations = t.iterations

LEMMA Stutters ==
    ASSUME SameLedger(Current', Current)
    PROVE  UNCHANGED Ledger!vars
BY DEF SameLedger, Accepted, Ledger!vars

LEMMA BaseIsCurrent == TypeInv => SameLedger(Base, Current)
<1> SUFFICES ASSUME TypeInv, ~Current.exists PROVE SameLedger(Base, Current)
  BY DEF Base, SameLedger
<1>1. Current = NoFile
  BY DEF TypeInv, TypeOK, Current, FileAt, Selected, LegacySurface, EmptySurface
<1> QED
  BY <1>1 DEF Base, SameLedger, Accepted, NoFile, EmptySurface

\* The rename is where a verb takes effect.
LEMMA WriteIsLedgerStep ==
    ASSUME TypeInv, HonestInv, OrderedInv, AloneInv, NEW c \in Client, Write(c)
    PROVE  Ledger!Next \/ UNCHANGED Ledger!vars
<1> USE DEF TypeInv, TypeOK
<1> DEFINE k == call[c]
<1> PICK base : base = Base
  OBVIOUS
<1>1. /\ k \in Call /\ k.step = "write" /\ k.copy = Edited(k, base, started)
      /\ k.verb \in {"report", "finish"} => base.active # 0
      /\ k.verb = "start" => started # 0
  BY DEF AloneInv, CopyFresh, Write
<1>2. base \in Surface /\ base.exists
  BY BaseExists
<1>3. Current' = k.copy
  <2>1. canonical' = k.copy /\ k.copy.exists
    BY <1>1, <1>2, EditExists DEF Write
  <2> QED
    BY <2>1 DEF Current, FileAt, Selected
<1>4. /\ base.active = Current.active /\ base.iterations = Current.iterations
      /\ Accepted(base) = Accepted(Current)
  BY BaseIsCurrent DEF SameLedger
<1>5. Ordered(base, started) /\ Honest(base, reports, closings)
  BY EmptyOrdered, EmptyHonest, ConstantsAssumption
     DEF Base, Current, FileAt, OrderedInv, HonestInv
<1>6. base.reported => base.outcome \in ReportOutcome
  BY <1>5 DEF Honest
<1>7. \A list, entry : Ledger!Push(list, entry) = Push(list, entry)
  BY DEF Ledger!Push, Push
<1>8. CASE k.verb = "start"
  <2>1. k.copy = Started(base, started)
    BY <1>1, <1>8 DEF Edited
  <2>2. /\ k.copy.active = started /\ Accepted(k.copy) = "none"
        /\ k.copy.iterations = IF base.active = 0 THEN base.iterations
                               ELSE Push(base.iterations, Abandoned(base))
    BY <1>2, <2>1 DEF Started, Surface, Accepted
  <2>3. started \in 1..MaxStarts /\ started > base.active
        /\ \A n \in 1..Len(base.iterations) : started > base.iterations[n].id
    <3>1. Ordered(k.copy, started) /\ k.copy \in Surface /\ started \in Nat
          /\ started \in 1..MaxStarts
      BY <1>1, <1>8, ConstantsAssumption DEF OrderedInv, Call
    <3>2. Below(k.copy.iterations, started)
      BY <1>1, <1>8, <2>2, <3>1 DEF Ordered
    <3>3. CASE base.active = 0
      BY <1>2, <2>2, <3>1, <3>2, <3>3, SurfaceIds DEF Below
    <3>4. CASE base.active # 0
      <4>1. Abandoned(base) \in Iteration /\ Abandoned(base).id = base.active
        BY <1>2, <3>4 DEF Abandoned, Surface, Iteration, Outcome
      <4>2. k.copy.iterations[1] = Abandoned(base) /\ 1 \in 1..Len(k.copy.iterations)
        <5>1. base.iterations \in Seq(Iteration)
          BY <1>2, SurfaceIds
        <5> HIDE DEF TypeInv, TypeOK, k
        <5>2. PICK list \in Seq(Iteration), entry \in Iteration :
                 list = base.iterations /\ entry = Abandoned(base)
          BY <4>1, <5>1
        <5>3. Push(list, entry)[1] = entry /\ Len(Push(list, entry)) \in 1..MaxIterations
          BY PushFacts
        <5> QED
          BY <2>2, <3>4, <5>2, <5>3, ConstantsAssumption
      <4>3. base.active < started
        BY <3>2, <4>1, <4>2 DEF Below
      <4>4. Below(base.iterations, base.active)
        BY <1>5, <3>4 DEF Ordered
      <4> QED
        BY <1>2, <3>1, <4>3, <4>4, SurfaceIds DEF Below
    <3> QED
      BY <3>3, <3>4
  <2>4. Ledger!Abandoned(base.active) = Abandoned(base)
    BY DEF Ledger!Abandoned, Abandoned
  <2>5. Ledger!Open(started)
    BY <1>3, <1>4, <1>7, <2>2, <2>3, <2>4 DEF Ledger!Open, Accepted
  <2> QED
    BY <2>3, <2>5 DEF Ledger!Next
<1>9. CASE k.verb = "report"
  <2>1. k.copy = Reported(base, k.outcome)
    BY <1>1, <1>9 DEF Edited
  <2>2. /\ k.copy.active = base.active /\ Accepted(k.copy) = k.outcome
        /\ k.copy.iterations = base.iterations
    BY <1>2, <2>1 DEF Reported, Surface, Accepted
  <2>3. Ledger!Accept(k.outcome)
    BY <1>1, <1>3, <1>4, <1>9, <2>2 DEF Ledger!Accept, Accepted
  <2>4. k.outcome \in Ledger!ReportOutcome
    BY <1>1 DEF Call, ReportOutcome, Ledger!ReportOutcome
  <2> QED
    BY <2>3, <2>4 DEF Ledger!Next
<1>10. CASE k.verb = "finish"
  <2> DEFINE reconsolidated == k.exit = "zero" /\ base.reported
             entry == [id |-> base.active, exit |-> k.exit,
                       reconsolidated |-> reconsolidated,
                       outcome |-> IF reconsolidated THEN base.outcome ELSE "none"]
  <2>1. k.copy = [base EXCEPT !.active = 0, !.reported = FALSE,
                              !.iterations = Push(base.iterations, entry)]
    BY <1>1, <1>10 DEF Edited, Finished
  <2>2. /\ k.copy.active = 0 /\ Accepted(k.copy) = "none"
        /\ k.copy.iterations = Push(base.iterations, entry)
    <3> HIDE DEF entry
    <3> QED BY <1>2, <2>1 DEF Surface, Accepted
  <2>3. entry = Ledger!Closed(base.active, k.exit, Accepted(base))
    <3>1. reconsolidated <=> (k.exit = "zero" /\ Accepted(base) # "none")
      BY <1>6 DEF Accepted, ReportOutcome
    <3>2. reconsolidated => Accepted(base) = base.outcome
      BY DEF Accepted
    <3>3. reconsolidated = (k.exit = "zero" /\ Accepted(base) # "none")
      BY <1>2, <3>1 DEF Surface
    <3> QED
      BY <3>2, <3>3 DEF Ledger!Closed
  <2>4. Ledger!Close(k.exit)
    <3> HIDE DEF entry
    <3> QED
      BY <1>1, <1>3, <1>4, <1>7, <1>10, <2>2, <2>3 DEF Ledger!Close, Accepted
  <2>5. k.exit \in Ledger!ExitCode
    BY <1>1 DEF Call, ExitCode, Ledger!ExitCode
  <2> QED
    BY <2>4, <2>5 DEF Ledger!Next
<1>11. CASE k.verb \notin {"start", "report", "finish"}
  <2>1. k.copy = base
    BY <1>1, <1>11 DEF Edited, Noted
  <2>2. SameLedger(Current', Current)
    BY <1>3, <1>4, <2>1 DEF SameLedger
  <2> QED
    BY <2>2, Stutters
<1> QED
  BY <1>8, <1>9, <1>10, <1>11

LEMMA LedgerStep ==
    OneClient /\ TypeInv /\ HonestInv /\ OrderedInv /\ AloneInv /\ [Next]_vars
        => [Ledger!Next]_(Ledger!vars)
<1> SUFFICES ASSUME OneClient, TypeInv, HonestInv, OrderedInv, AloneInv, [Next]_vars
             PROVE  Ledger!Next \/ UNCHANGED Ledger!vars
  OBVIOUS
<1>1. ASSUME UNCHANGED <<canonical, legacy>> PROVE UNCHANGED Ledger!vars
  BY <1>1, Stutters DEF SameLedger, Accepted, Current, FileAt, Selected
<1>2. ASSUME NEW c \in Client, Invoke(c) \/ Read(c) \/ Kill(c)
      PROVE  UNCHANGED Ledger!vars
  BY <1>1, <1>2 DEF Invoke, Read, Kill
<1>3. ASSUME NEW c \in Client, Migrate(c) PROVE UNCHANGED Ledger!vars
  <2>1. canonical.exists /\ canonical' = canonical
    BY <1>3 DEF Migrate, AloneInv, CopyFresh
  <2> QED
    BY <2>1, Stutters DEF SameLedger, Accepted, Current, FileAt, Selected
<1>4. /\ NoFile.active = 0 /\ Accepted(NoFile) = "none" /\ NoFile.iterations = <<>>
      /\ \A f \in {NoFile, LegacySurface} :
            f.active = 0 /\ Accepted(f) = "none" /\ f.iterations = <<>>
  BY DEF NoFile, LegacySurface, EmptySurface, Accepted
<1>5. ASSUME NEW c \in Client, ClearCanonical(c) PROVE Ledger!Next
  <2>1. Current' \in {NoFile, LegacySurface}
    BY <1>5 DEF ClearCanonical, Current, FileAt, Selected, TypeInv, TypeOK, NoFile,
                EmptySurface
  <2>2. Ledger!Forget
    BY <1>4, <2>1 DEF Ledger!Forget, Accepted
  <2> QED
    BY <2>2 DEF Ledger!Next
<1>6. ASSUME NEW c \in Client, ClearLegacy(c) PROVE UNCHANGED Ledger!vars
  <2>1. ~canonical.exists /\ canonical' = canonical
    BY <1>6 DEF ClearLegacy, AloneInv, CopyFresh
  <2>2. Current \in {NoFile, LegacySurface} /\ Current' \in {NoFile, LegacySurface}
    BY <1>6, <2>1 DEF ClearLegacy, Current, FileAt, Selected, TypeInv, TypeOK
  <2> QED
    BY <1>4, <2>2, Stutters DEF SameLedger
<1>7. CASE UNCHANGED vars
  BY <1>1, <1>7 DEF vars
<1> QED
  BY <1>2, <1>3, <1>5, <1>6, <1>7, WriteIsLedgerStep DEF Next, Step

LEMMA LedgerInit == Init => Ledger!Init
<1> SUFFICES ASSUME Init PROVE Ledger!Init
  OBVIOUS
<1>1. Current \in {NoFile, LegacySurface}
  BY DEF Init, Current, FileAt
<1> QED
  BY <1>1 DEF Ledger!Init, NoFile, LegacySurface, EmptySurface

\* With one client at a time, however often it is killed, and for any bounds,
\* operator.json implements the session ledger of the README.
THEOREM SurfaceKeepsLedger == OneClient => (Spec => KeepsLedger)
<1> SUFFICES ASSUME OneClient PROVE Spec => KeepsLedger
  OBVIOUS
<1>1. TypeInv /\ AloneInv /\ [Next]_vars => AloneInv'
  BY AloneStep
<1>2. TypeInv /\ HonestInv /\ OrderedInv /\ AloneInv /\ [Next]_vars
         => [Ledger!Next]_(Ledger!vars)
  BY LedgerStep
<1> QED
  BY TypeInit, TypeStep, HonestInit, HonestStep, OrderedInit, OrderedStep,
     AloneInit, LedgerInit, <1>1, <1>2, PTL DEF Spec, KeepsLedger, Ledger!Spec
=============================================================================
