---------------------------- MODULE CheckedStore ----------------------------
(***************************************************************************)
(* What plan/apply promises (README.md:17-20, docs/DESIGN.md:75-85): a     *)
(* plan remembers the parts of an operation it saw and the parts it wants; *)
(* applying it replaces, in one step, what it saw by what it wants, and    *)
(* only if what it saw is still there.  An apply that answers an error may *)
(* have replaced some of the parts, and never a part it did not see.       *)
(***************************************************************************)
CONSTANTS Client, Stem, Part, \* who applies, the operations, their parts
          Value, Unlisted          \* the values of a part; not a Value: not looked at

VARIABLES store,  \* the parts of each operation
          plans,  \* the plans made so far
          answer  \* the last answer each client got

vars == <<store, plans, answer>>

Wanted == [Part -> Value \union {Unlisted}]

\* Operation o with what a plan wants in the parts of P.
Replaced(o, new, P) == [q \in Part |-> IF q \in P THEN new[q] ELSE o[q]]

Init ==
    /\ store \in [Stem -> [Part -> Value]]
    /\ plans = {}
    /\ answer = [c \in Client |-> "none"]

\* A plan changes nothing it did not look at.
Make ==
    /\ plans \subseteq plans'
    /\ \A p \in plans' \ plans :
        /\ p \in [stem : Stem, saw : Wanted, new : Wanted]
        /\ \A q \in Part : p.saw[q] = Unlisted => p.new[q] = Unlisted
    /\ UNCHANGED <<store, answer>>

Agrees(p) == \A q \in Part : p.saw[q] \in {store[p.stem][q], Unlisted}

Changed(p) == {q \in Part : p.new[q] # Unlisted}

Apply(c, p) ==
    /\ Agrees(p)
    /\ store' = [store EXCEPT ![p.stem] = Replaced(@, p.new, Changed(p))]
    /\ answer' = [answer EXCEPT ![c] = "applied"]
    /\ UNCHANGED plans

\* Refused (no part replaced), failed or killed half-way.
Break(c, p) ==
    /\ \E P \in SUBSET Changed(p) :
        /\ P # {} => Agrees(p)
        /\ store' = [store EXCEPT ![p.stem] = Replaced(@, p.new, P)]
    /\ answer' = [answer EXCEPT ![c] = "error"]
    /\ UNCHANGED plans

Ask(c) == answer' = [answer EXCEPT ![c] = "none"] /\ UNCHANGED <<store, plans>>

\* Somebody edits a file by hand.
Edit(s) ==
    /\ \E q \in Part, v \in Value : store' = [store EXCEPT ![s][q] = v]
    /\ UNCHANGED <<plans, answer>>

Next ==
    \/ Make
    \/ \E s \in Stem : Edit(s)
    \/ \E c \in Client : Ask(c) \/ \E p \in plans : Apply(c, p) \/ Break(c, p)

Spec == Init /\ [][Next]_vars
=============================================================================
