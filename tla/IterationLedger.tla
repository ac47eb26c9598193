-------------------------- MODULE IterationLedger --------------------------
(***************************************************************************)
(* What README.md:221-233 promises of `operator iteration-start`, `operator *)
(* report` and `operator iteration-finish`, without the file they share:   *)
(* one session open at a time, closed by its own id, kept with the latest  *)
(* ones, newest first, and reconsolidated by a report plus exit 0.         *)
(***************************************************************************)
EXTENDS Integers, Sequences

CONSTANTS MaxIterations, \* MAX_ITERATIONS
          MaxStarts      \* bound on the sessions ever opened

VARIABLES open,     \* the open session's id, 0 for none
          accepted, \* the outcome its latest report gave, or "none"
          closed    \* the kept sessions, newest first

vars == <<open, accepted, closed>>

ReportOutcome == {"ready", "blocked"}
ExitCode == {"zero", "nonzero"}

Abandoned(id) ==
    [id |-> id, exit |-> "none", reconsolidated |-> FALSE, outcome |-> "none"]

\* A session closed with exit code e after its reports gave outcome o.
Closed(id, e, o) ==
    LET counts == e = "zero" /\ o # "none"
    IN  [id |-> id, exit |-> e, reconsolidated |-> counts,
         outcome |-> IF counts THEN o ELSE "none"]

\* push_iteration: insert at the front, keep the latest.
Push(list, entry) ==
    LET all == <<entry>> \o list
    IN  IF Len(all) <= MaxIterations THEN all ELSE SubSeq(all, 1, MaxIterations)

Init == open = 0 /\ accepted = "none" /\ closed = <<>>

\* A new session; one left open is abandoned.
Open(id) ==
    /\ id > open
    /\ \A n \in 1..Len(closed) : id > closed[n].id
    /\ open' = id
    /\ accepted' = "none"
    /\ closed' = IF open = 0 THEN closed ELSE Push(closed, Abandoned(open))

Accept(o) == open # 0 /\ accepted' = o /\ UNCHANGED <<open, closed>>

Close(e) ==
    /\ open # 0
    /\ closed' = Push(closed, Closed(open, e, accepted))
    /\ open' = 0
    /\ accepted' = "none"

Forget == open' = 0 /\ accepted' = "none" /\ closed' = <<>>

Next ==
    \/ \E id \in 1..MaxStarts : Open(id)
    \/ \E o \in ReportOutcome : Accept(o)
    \/ \E e \in ExitCode : Close(e)
    \/ Forget

Spec == Init /\ [][Next]_vars
=============================================================================
