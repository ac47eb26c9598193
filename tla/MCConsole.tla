----------------------------- MODULE MCConsole -----------------------------
(* Two operations and two snapshots: a cycle of parents, and one that watches an *)
(* operation it does not own.                                                    *)
EXTENDS Console

CONSTANTS a, b

MCUnit == {a, b}
MCTitleOrder == <<b, a>>
MCNameOrder == <<a, b>>
MCLoadingView == [owned |-> {}, watching |-> {}, parent |-> [u \in MCUnit |-> None]]
MCView == {MCLoadingView,
           [owned |-> {a, b}, watching |-> {}, parent |-> [u \in MCUnit |-> IF u = b THEN a ELSE b]],
           [owned |-> {a}, watching |-> {b}, parent |-> [u \in MCUnit |-> None]]}
MCFilter == {{}}
MCPane == {"wiring"}
=============================================================================
