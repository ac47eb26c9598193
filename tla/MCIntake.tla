------------------------------ MODULE MCIntake -------------------------------
(* A capability and its pull request, each with a worktree of its own or in the *)
(* scope root; two works, a commit and a delta that replaces it.                *)
EXTENDS Intake, TLC

CONSTANTS c1, c2, rival, root, wc, wp, w2, u, a, b, x, y, f, g

\* Clients are interchangeable.
ClientSymmetry == Permutations(Client)

MCDir == {root, wc, wp, w2, u}

MCCommit == [work |-> a, kind |-> "commit", revision |-> x, base |-> None, delta |-> None, over |-> None]
MCFile(p) == [path |-> p, sha |-> 1]
MCDelta == [MCCommit EXCEPT !.kind = "worktree-delta", !.revision = None, !.base = y,
                            !.delta = <<MCFile(f), MCFile(g)>>, !.work = b]
MCAdmitSpecs ==
    {MCCommit, [MCCommit EXCEPT !.work = b], [MCCommit EXCEPT !.base = y],
     [MCDelta EXCEPT !.over = x], [MCDelta EXCEPT !.delta = <<MCFile(g), MCFile(f)>>]}

MCWorktrees == [s \in Stem |-> CASE s = cap -> {wc, w2} [] s = pr -> {wp, u} [] OTHER -> {u}]

MCUnit(d) == [dir |-> d, rest |-> 0]
MCFresh == [unit |-> [s \in Stem |-> None], inputs |-> None]
MCInstalled ==
    [unit |-> [s \in Stem |-> CASE s = cap -> MCUnit(wc) [] s = pr -> MCUnit(wp) [] OTHER -> None],
     inputs |-> <<[work |-> a, identity |-> x]>>]
MCHomes == {MCFresh, MCInstalled}

\* As docs/SCOPES.md:185-186 has it: the pull request works in the scope root.
MCWorktreesInRoot == [MCWorktrees EXCEPT ![pr] = {root}]
MCHomesInRoot == {[MCInstalled EXCEPT !.unit[pr] = MCUnit(root)]}
=============================================================================
