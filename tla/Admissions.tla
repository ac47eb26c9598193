----------------------------- MODULE Admissions ------------------------------
(* What admission promises of a capability's desired inputs: the list is made  *)
(* of what was offered, in the order it was taken; an offer is taken against   *)
(* the very list it was made for, is listed once, and takes the place of what  *)
(* it supersedes and of nothing else.                                          *)
EXTENDS SequencesExt

CONSTANTS None

VARIABLES
    listed, \* the desired inputs, each [work, identity]
    offers  \* offers made: [saw, entry, over]

vars == <<listed, offers>>

Init == offers = {} /\ IsInjective(listed)

Offer == offers \subseteq offers' /\ UNCHANGED listed

TakeNew(o) ==
    /\ o.saw = listed /\ o.over = None
    /\ o.entry \notin Range(listed)
    /\ listed' = Append(listed, o.entry)

TakeOver(o) ==
    /\ o.saw = listed /\ o.over # None
    /\ \E n \in DOMAIN listed :
          /\ listed[n].identity = o.over
          /\ \A m \in DOMAIN listed : listed[m].identity = o.over => n <= m
          /\ \A m \in DOMAIN listed \ {n} : listed[m] # o.entry
          /\ listed' = ReplaceAt(listed, n, o.entry)

Next == Offer \/ \E o \in offers : (TakeNew(o) \/ TakeOver(o)) /\ UNCHANGED offers

Spec == Init /\ [][Next]_vars
=============================================================================
