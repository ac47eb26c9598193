---------------------------- MODULE MCPlanApply -----------------------------
(***************************************************************************)
(* Small instances of PlanApply for TLC.                                   *)
(***************************************************************************)
EXTENDS PlanApply, TLC

CONSTANTS a, b, c1, c2, timed, daemon

\* One operation with an agent, one created in the author lane.
MCOrigins == {<<timed, Root>>, <<daemon, Absent>>}

\* Stems are interchangeable, and so are clients.
PlanSymmetry == Permutations(Stem) \union Permutations(Client)
=============================================================================
