-------------------------- MODULE MCMaintainerPass --------------------------
(***************************************************************************)
(* Small instances of MaintainerPass for TLC.                              *)
(***************************************************************************)
EXTENDS MaintainerPass, TLC

CONSTANTS d1, d2, i1, i2, i3, c0, c1

\* i1 and i2 share a generation and the world may flap between them; i3 is what
\* it becomes when release watch advances the target.
MCGenerationOf == [i \in Input |-> IF i = i3 THEN 2 ELSE 1]
MCWorldMoves == {<<i1, i2>>, <<i2, i1>>, <<i1, i3>>, <<i2, i3>>}

\* One generation, the world flapping.
MCFlatGeneration == [i \in Input |-> 1]
MCFlapMoves == {<<i1, i2>>, <<i2, i1>>}

\* The same world settling: no input comes back.
MCSettlingMoves == {<<i1, i2>>, <<i2, i3>>}

MCNoMoves == {}

\* Unsettled children settle, and may be found changed after a pass.
MCChildMoves == {<<c0, c1>>, <<c1, c0>>}
MCSettlingChildMoves == {<<c0, c1>>}
MCNoChildMoves == {}

\* Drivers are interchangeable, in runs without liveness.
DriverSymmetry == Permutations(Driver)
=============================================================================
