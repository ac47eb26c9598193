-------------------------- MODULE OperatorSurface --------------------------
(***************************************************************************)
(* operator.json of one operation and the verbs of src/operator.rs on it.  *)
(* Every verb selects a path, reads the surface there, edits its copy and  *)
(* renames it over the canonical file, then removes the legacy one; there  *)
(* is no lock, so drivers, agents and operators (clients) interleave at    *)
(* every one of these steps, and may be killed at each.                    *)
(*                                                                         *)
(* Of the advisory text only `about` is kept, and of it only whether it is *)
(* what the legacy file said.                                              *)
(***************************************************************************)
EXTENDS Integers, Sequences

CONSTANTS
    Client,        \* processes that run operator verbs
    Verbs,         \* the verbs they run
    MaxIterations, \* MAX_ITERATIONS
    MaxStarts,     \* bound on the iterations ever started
    Kills          \* TRUE: a client may die between two steps

AllVerbs ==
    {"start", "report", "finish", "set", "append", "activity", "release", "clear"}

ASSUME ConstantsAssumption ==
    /\ Verbs \subseteq AllVerbs
    /\ MaxIterations \in Nat \ {0}
    /\ MaxStarts \in Nat
    /\ Kills \in BOOLEAN

VARIABLES
    canonical, \* operations/<stem>/state/operator.json
    legacy,    \* .systemd-ops/operator/<stem>.json
    call,      \* the verb each client is in, how far, and its copy
    started,   \* the latest id of new_iteration_id
    reports,   \* history: <<iteration, outcome>> of every report written
    answered,  \* history: iterations with a report that returned
    closings   \* history: <<iteration, exit>> of every iteration-finish

vars == <<canonical, legacy, call, started, reports, answered, closings>>

-----------------------------------------------------------------------------
(* Surfaces *)

Id == 1..MaxStarts
ReportOutcome == {"ready", "blocked"}
Outcome == ReportOutcome \union {"none"}
ExitCode == {"zero", "nonzero"}

Iteration ==
    [id : Id, exit : ExitCode \union {"none"}, reconsolidated : BOOLEAN,
     outcome : Outcome]

Surface ==
    [exists : BOOLEAN, legacyAbout : BOOLEAN, active : Id \union {0},
     reported : BOOLEAN, outcome : Outcome, iterations : Seq(Iteration)]

\* empty_surface, and a path with no file.
EmptySurface ==
    [exists |-> TRUE, legacyAbout |-> FALSE, active |-> 0, reported |-> FALSE,
     outcome |-> "none", iterations |-> <<>>]
NoFile == [EmptySurface EXCEPT !.exists = FALSE]

\* Legacy files are older than iterations.
LegacySurface == [EmptySurface EXCEPT !.legacyAbout = TRUE]

Call ==
    [step : {"idle", "read", "write", "migrate", "unlink"},
     verb : AllVerbs \union {"none"}, path : {"canonical", "legacy"},
     id : Id \union {0}, exit : ExitCode, outcome : ReportOutcome,
     reportedBefore : BOOLEAN, copy : Surface]

Idle ==
    [step |-> "idle", verb |-> "none", path |-> "canonical", id |-> 0,
     exit |-> "zero", outcome |-> "ready", reportedBefore |-> FALSE,
     copy |-> NoFile]

\* The file selected_path picks, and what is there when it is read.
Selected == IF canonical.exists THEN "canonical" ELSE "legacy"
FileAt(path) == IF path = "canonical" THEN canonical ELSE legacy
Current == FileAt(Selected)

-----------------------------------------------------------------------------
(* Edits of a client's copy *)

\* Variant of Push that appends.
PushLast(list, entry) ==
    LET all == Append(list, entry)
    IN  IF Len(all) <= MaxIterations THEN all ELSE SubSeq(all, 1, MaxIterations)

\* Variant of Push without truncate.
PushAll(list, entry) == <<entry>> \o list

\* push_iteration
Push(list, entry) ==
    LET all == <<entry>> \o list
    IN  IF Len(all) <= MaxIterations THEN all ELSE SubSeq(all, 1, MaxIterations)

Abandoned(s) ==
    [id |-> s.active, exit |-> "none", reconsolidated |-> FALSE, outcome |-> "none"]

\* Variants of Started: the report of the abandoned iteration survives; the
\* abandoned iteration is not kept.
StartedReported(s, id) ==
    [s EXCEPT !.active = id,
              !.iterations = IF s.active = 0 THEN @ ELSE Push(@, Abandoned(s))]
StartedOver(s, id) == [s EXCEPT !.active = id, !.reported = FALSE]

\* start_iteration: one left active is abandoned; the last outcome stays.
Started(s, id) ==
    [s EXCEPT !.active = id,
              !.reported = FALSE,
              !.iterations = IF s.active = 0 THEN @ ELSE Push(@, Abandoned(s))]

\* apply_report; a second report replaces the first.
Reported(s, o) == [s EXCEPT !.reported = TRUE, !.outcome = o]

\* finish_iteration
Finished(s, exit) ==
    LET reconsolidated == exit = "zero" /\ s.reported
    IN  [s EXCEPT
            !.active = 0,
            !.reported = FALSE,
            !.iterations =
                Push(@, [id |-> s.active, exit |-> exit,
                         reconsolidated |-> reconsolidated,
                         outcome |-> IF reconsolidated THEN s.outcome ELSE "none"])]

\* set, append, automation_activity and release_park change text only.
Noted(s) == s

\* Variant of Admits that closes whatever is active.
AdmitsAnyFinish(k, s) ==
    CASE k.verb = "finish" -> s.active # 0
      [] k.verb \in {"report", "activity"} -> s.active # 0
      [] k.verb = "start" -> started < MaxStarts
      [] OTHER -> TRUE

\* What each verb requires of the surface it read, and the bound on starts.
Admits(k, s) ==
    CASE k.verb = "finish" -> s.active # 0 /\ s.active = k.id
      [] k.verb \in {"report", "activity"} -> s.active # 0
      [] k.verb = "start" -> started < MaxStarts
      [] OTHER -> TRUE

\* The edit of a verb; a start takes the id.
Edited(k, s, id) ==
    CASE k.verb = "start" -> Started(s, id)
      [] k.verb = "report" -> Reported(s, k.outcome)
      [] k.verb = "finish" -> Finished(s, k.exit)
      [] OTHER -> Noted(s)

-----------------------------------------------------------------------------
(* Steps of a verb *)

\* A verb called with its arguments: the path is selected first.
Called(verb, id, exit, outcome) ==
    [Idle EXCEPT !.step = IF verb = "clear" THEN "unlink" ELSE "read",
                 !.verb = verb,
                 !.path = IF verb = "clear" THEN "canonical" ELSE Selected,
                 !.id = id, !.exit = exit, !.outcome = outcome,
                 !.reportedBefore = verb = "finish" /\ id \in answered]

\* A client runs a verb; it finishes iterations it has been told of.
Invoke(c) ==
    /\ call[c].step = "idle"
    /\ \/ \E verb \in Verbs \ {"report", "finish"} :
             call' = [call EXCEPT ![c] = Called(verb, 0, "zero", "ready")]
       \/ /\ "report" \in Verbs
          /\ \E o \in ReportOutcome :
                call' = [call EXCEPT ![c] = Called("report", 0, "zero", o)]
       \/ /\ "finish" \in Verbs
          /\ \E id \in 1..started, exit \in ExitCode :
                call' = [call EXCEPT ![c] = Called("finish", id, exit, "ready")]
    /\ UNCHANGED <<canonical, legacy, started, reports, answered, closings>>

Return(c) == call' = [call EXCEPT ![c] = Idle]

\* load_with_warning and the edit.  No file at the selected path (any more) is an
\* empty surface.  A verb the surface does not admit ends here.
Read(c) ==
    LET k == call[c]
        file == FileAt(k.path)
        surface == IF file.exists THEN file ELSE EmptySurface
    IN  /\ k.step = "read"
        /\ IF Admits(k, surface)
           THEN /\ call' = [call EXCEPT ![c].step = "write",
                                        ![c].copy = Edited(k, surface, started + 1)]
                /\ started' = IF k.verb = "start" THEN started + 1 ELSE started
           ELSE Return(c) /\ UNCHANGED started
        /\ UNCHANGED <<canonical, legacy, reports, answered, closings>>

\* finish_write: the rename...
Write(c) ==
    LET k == call[c]
    IN  /\ k.step = "write"
        /\ canonical' = k.copy
        /\ call' = [call EXCEPT ![c].step = "migrate"]
        /\ reports' = IF k.verb = "report"
                      THEN reports \union {<<k.copy.active, k.outcome>>}
                      ELSE reports
        /\ closings' = IF k.verb = "finish"
                       THEN closings \union {<<k.id, k.exit>>} ELSE closings
        /\ UNCHANGED <<legacy, started, answered>>

\* ...then the legacy file goes, and the verb returns.
Migrate(c) ==
    LET k == call[c]
    IN  /\ k.step = "migrate"
        /\ legacy' = NoFile
        /\ answered' = IF k.verb = "report" THEN answered \union {k.copy.active}
                       ELSE answered
        /\ Return(c)
        /\ UNCHANGED <<canonical, started, reports, closings>>

\* clear: the canonical file, then the legacy one.
ClearCanonical(c) ==
    /\ call[c].step = "unlink" /\ call[c].path = "canonical"
    /\ canonical' = NoFile
    /\ call' = [call EXCEPT ![c].path = "legacy"]
    /\ UNCHANGED <<legacy, started, reports, answered, closings>>

ClearLegacy(c) ==
    /\ call[c].step = "unlink" /\ call[c].path = "legacy"
    /\ legacy' = NoFile
    /\ Return(c)
    /\ UNCHANGED <<canonical, started, reports, answered, closings>>

Kill(c) ==
    /\ Kills
    /\ call[c].step # "idle"
    /\ Return(c)
    /\ UNCHANGED <<canonical, legacy, started, reports, answered, closings>>

Init ==
    /\ canonical = NoFile
    /\ legacy \in {NoFile, LegacySurface}
    /\ call = [c \in Client |-> Idle]
    /\ started = 0
    /\ reports = {}
    /\ answered = {}
    /\ closings = {}

Step(c) ==
    \/ Invoke(c) \/ Read(c) \/ Write(c) \/ Migrate(c)
    \/ ClearCanonical(c) \/ ClearLegacy(c) \/ Kill(c)

Next == \E c \in Client : Step(c)

Spec == Init /\ [][Next]_vars

-----------------------------------------------------------------------------
(* Properties *)

\* Both files and every client's copy are surfaces, within MAX_ITERATIONS.
TypeOK ==
    /\ canonical \in Surface
    /\ legacy \in {NoFile, LegacySurface}
    /\ call \in [Client -> Call]
    /\ started \in 0..MaxStarts
    /\ reports \subseteq Id \X ReportOutcome
    /\ answered \subseteq Id
    /\ closings \subseteq Id \X ExitCode
    /\ Len(canonical.iterations) <= MaxIterations

\* README.md:226-227 and 267-269: an iteration counts as reconsolidated only if
\* a report with that very outcome was written in that very iteration, which was
\* then finished with exit 0, whatever copies other clients write back.
ReconsolidatedWasReported ==
    \A n \in 1..Len(canonical.iterations) :
        LET it == canonical.iterations[n]
        IN  it.reconsolidated => /\ <<it.id, it.outcome>> \in reports
                                 /\ <<it.id, "zero">> \in closings

\* README.md:225-226: iteration-finish "closes that exact session": an iteration
\* with an exit code was finished by a call that named it and gave that code.
ClosedAsCalled ==
    \A n \in 1..Len(canonical.iterations) :
        LET it == canonical.iterations[n]
        IN  it.exit # "none" => <<it.id, it.exit>> \in closings

\* SCOPES.md:254: newest first; no iteration is kept twice, none is both kept
\* and active, however stale the copies that are written back.
IterationsOrdered ==
    LET kept == canonical.iterations
    IN  /\ \A m, n \in 1..Len(kept) : m < n => kept[m].id > kept[n].id
        /\ \A n \in 1..Len(kept) :
               canonical.active # 0 => canonical.active > kept[n].id

\* README.md:226-227: "A report from that iteration plus exit 0 reconsolidates":
\* an iteration-finish with exit 0 that is about to return, called after a report
\* of its iteration had returned, found that report.
ReportPlusExitZeroReconsolidates ==
    \A c \in Client :
        /\ call[c].verb = "finish" /\ call[c].step \in {"write", "migrate"}
        /\ call[c].reportedBefore /\ call[c].exit = "zero"
        => call[c].copy.iterations[1].reconsolidated

\* One client at a time, killed wherever it may be, keeps the ledger the README
\* describes: every verb takes effect at once, at its rename, or not at all.
Ledger == INSTANCE IterationLedger WITH
    open <- Current.active,
    accepted <- IF Current.reported THEN Current.outcome ELSE "none",
    closed <- Current.iterations

KeepsLedger == Ledger!Spec
=============================================================================
