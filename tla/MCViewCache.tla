---------------------------- MODULE MCViewCache ----------------------------
(* A unit c with an alias, a unit d that may be missing from the listings, and a *)
(* template.                                                                    *)
EXTENDS ViewCache

CONSTANTS c, alias, d, t, basic

MCName == {c, alias, d, t}
MCId == [n \in MCName |-> IF n = alias THEN c ELSE n]
MCListing == {{c, alias}, {d, t}}
=============================================================================
