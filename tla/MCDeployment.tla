---------------------------- MODULE MCDeployment ----------------------------
(***************************************************************************)
(* Small instances of Deployment for TLC.                                  *)
(***************************************************************************)
EXTENDS Deployment, TLC

CONSTANTS g1, g2, g3, midi, hera, operator, runtime

\* Revisions are interchangeable.
GenerationSymmetry == Permutations(Generation)
=============================================================================
