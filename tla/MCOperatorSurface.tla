------------------------- MODULE MCOperatorSurface -------------------------
(***************************************************************************)
(* Small instances of OperatorSurface for TLC.                             *)
(***************************************************************************)
EXTENDS OperatorSurface, TLC

CONSTANTS driver, lead

\* Clients are interchangeable.
ClientSymmetry == Permutations(Client)
=============================================================================
