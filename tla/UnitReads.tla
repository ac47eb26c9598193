----------------------------- MODULE UnitReads -----------------------------
(* What a view's property reads promise, whatever calls answer them: the        *)
(* properties of the unit that was asked for, as they were at some moment since *)
(* the view was opened (without a view: since the read began), and, within one  *)
(* view, never older ones than an earlier answer gave, never an error after     *)
(* properties or properties after an error.                                     *)
EXTENDS Integers

CONSTANTS Name, Group, Id, None, Failed

VARIABLES
    world,  \* the version of each unit's properties, as it is now
    open,   \* a view is open
    base,   \* world when the view was opened or the read outside a view began
    given   \* the last answer of this view for each name and property group

vars == <<world, open, base, given>>

Unit == {Id[n] : n \in Name}
Nothing == [n \in Name |-> [g \in Group |-> None]]

Props(u, v) == [unit |-> u, version |-> v]

\* What an answer for n may be after the earlier answer was.
Acceptable(n, r, was) ==
    \/ r = Failed /\ was \in {None, Failed}
    \/ \E v \in base[Id[n]]..world[Id[n]] :
           /\ r = Props(Id[n], v)
           /\ was = None \/ (was # Failed /\ was.version <= v)

Init ==
    /\ world = [u \in Unit |-> 0] /\ base = world
    /\ open = FALSE /\ given = Nothing

Change == \E u \in Unit : world' = [world EXCEPT ![u] = @ + 1] /\ UNCHANGED <<open, base, given>>

\* The answers given are forgotten when a view opens or closes.
Start ==
    /\ base' = world /\ given' = Nothing
    /\ open' \in BOOLEAN
    /\ UNCHANGED world

Answer(n, g) ==
    /\ \E r \in {Failed} \cup {Props(Id[n], v) : v \in base[Id[n]]..world[Id[n]]} :
           /\ Acceptable(n, r, given[n][g])
           /\ given' = [given EXCEPT ![n][g] = r]
    /\ UNCHANGED <<world, open, base>>

Next == Change \/ Start \/ \E n \in Name, g \in Group : Answer(n, g)

Spec == Init /\ [][Next]_vars
=============================================================================
