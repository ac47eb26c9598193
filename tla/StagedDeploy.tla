---------------------------- MODULE StagedDeploy ----------------------------
(***************************************************************************)
(* What staged deployment promises (docs/superpowers/specs/2026-09-17-     *)
(* artifact-admission-staged-deploy.md, D3 to D4b), without the three      *)
(* places that record it: a generation is built, offered as the candidate, *)
(* goes live from there and only from there, and a directory is collected  *)
(* only when it is neither live nor the candidate.                         *)
(***************************************************************************)
CONSTANTS Generation, \* output revisions
          None        \* not a Generation

VARIABLES built,     \* generations whose directory exists
          candidate, \* the candidate on offer
          live       \* the published generation

vars == <<built, candidate, live>>

Init ==
    /\ live \in Generation \union {None}
    /\ built = {live} \ {None}
    /\ candidate = None

Build(g) == built' = built \union {g} /\ UNCHANGED <<candidate, live>>

Offer(g) == g \in built /\ candidate' = g /\ UNCHANGED <<built, live>>

GoLive == candidate \in built /\ live' = candidate /\ UNCHANGED <<built, candidate>>

Collect(g) ==
    /\ g \in built \ {live, candidate}
    /\ built' = built \ {g}
    /\ UNCHANGED <<candidate, live>>

Next == GoLive \/ \E g \in Generation : Build(g) \/ Offer(g) \/ Collect(g)

Spec == Init /\ [][Next]_vars
=============================================================================
