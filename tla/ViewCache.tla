----------------------------- MODULE ViewCache -----------------------------
(* The property cache of a view (src/src/systemd.rs): the units a view lists,   *)
(* and show, which answers from the cache, from the unit's own systemctl call,  *)
(* or from one call for all the listed units. A call is a process that reads    *)
(* its units one after the other while their properties go on changing; it may  *)
(* fail as a whole (exit status, spawn, timeout), and a block of its output     *)
(* without an Id line is lost.                                                  *)
EXTENDS Integers, FiniteSets

CONSTANTS
    Name,      \* the unit names that are asked for or listed
    Id,        \* what a name's block says its Id is: the unit itself for an alias
    Template,  \* names without an instance, which systemctl show refuses
    Group,     \* the property groups asked for
    Listing,   \* the sets of names a listing can return
    None, Failed,
    MaxVersion \* bound on the changes of a unit's properties

Unit == {Id[n] : n \in Name}
Props(u, v) == [unit |-> u, version |-> v]
Block == [unit : Unit, version : Nat] \cup {Failed}

ASSUME IdAssumption ==
    /\ Id \in [Name -> Name]
    /\ \A n \in Name : Id[Id[n]] = Id[n]
    /\ Template \subseteq Name
    /\ \A n \in Name \ Template : Id[n] \notin Template
    /\ \A n \in Template : Id[n] = n
ASSUME ViewAssumption ==
    /\ Listing \subseteq SUBSET Name
    /\ None \notin Block /\ Failed # None /\ Failed \notin [unit : Unit, version : Nat]

ASSUME FiniteAssumption == IsFiniteSet(Name)

VARIABLES
    world,   \* the version of each unit's properties
    open,    \* VIEW holds a cache
    listed,  \* ViewCache.listed
    cache,   \* ViewCache.groups: per group the block of each name, and singly
    call,    \* the ask being answered and the process that answers it
    base,    \* history: world when the view was opened or the direct read began
    given,   \* history: the last answer of this view per name and group
    calls    \* history: per group, the calls made in this view

vars == <<world, open, listed, cache, call, base, given, calls>>

NoCall == [at |-> "idle", name |-> None, group |-> None, targets |-> {}, got |-> {}, singly |-> FALSE]
EmptyCache == [g \in Group |-> [blocks |-> [n \in Name |-> None], singly |-> FALSE]]
Nothing == [n \in Name |-> [g \in Group |-> None]]
NoCalls == [g \in Group |-> 0]

Batchable(n) == n \notin Template

Init ==
    /\ world = [u \in Unit |-> 0] /\ base = world
    /\ open = FALSE /\ listed = {} /\ cache = EmptyCache
    /\ call = NoCall /\ given = Nothing /\ calls = NoCalls

\* The properties of a unit change, whoever asks.
Change ==
    \E u \in Unit :
        /\ world[u] < MaxVersion
        /\ world' = [world EXCEPT ![u] = @ + 1]
        /\ UNCHANGED <<open, listed, cache, call, base, given, calls>>

\* view_cache
OpenView ==
    /\ ~open /\ call = NoCall
    /\ open' = TRUE /\ listed' = {} /\ cache' = EmptyCache
    /\ base' = world /\ given' = Nothing /\ calls' = NoCalls
    /\ UNCHANGED <<world, call>>

\* Variant of CloseView: the blocks stay for the next view.
CloseLeavingBlocks ==
    /\ open /\ call = NoCall
    /\ open' = FALSE /\ listed' = {} /\ UNCHANGED cache
    /\ base' = world /\ given' = Nothing /\ calls' = NoCalls
    /\ UNCHANGED <<world, call>>

\* The guard is dropped, at the end of the view or at any error in it.
CloseView ==
    /\ open /\ call = NoCall
    /\ open' = FALSE /\ listed' = {} /\ cache' = EmptyCache
    /\ base' = world /\ given' = Nothing /\ calls' = NoCalls
    /\ UNCHANGED <<world, call>>

\* A listing inside a view records what it returns.
List ==
    /\ open /\ call = NoCall
    /\ \E S \in Listing : listed' = listed \cup S
    /\ UNCHANGED <<world, open, cache, call, base, given, calls>>

Start(at, n, g, targets, singly, got) ==
    call' = [at |-> at, name |-> n, group |-> g, targets |-> targets, got |-> got, singly |-> singly]

Count(g) == calls' = [calls EXCEPT ![g] = @ + 1]

\* The units a multi-unit call for n would name.
Targets(n, g) ==
    {u \in listed : Batchable(u) /\ cache[g].blocks[u] = None} \cup {n}

\* show without a view.
AskDirect(n, g) ==
    /\ call = NoCall /\ ~open
    /\ Start("own", n, g, {n}, FALSE, {})
    /\ base' = world /\ given' = Nothing
    /\ UNCHANGED <<world, open, listed, cache, calls>>

\* show, when the view holds the unit.
AskCached(n, g) ==
    /\ call = NoCall /\ open
    /\ cache[g].blocks[n] # None
    /\ given' = [given EXCEPT ![n][g] = cache[g].blocks[n]]
    /\ UNCHANGED <<world, open, listed, cache, call, base, calls>>

\* show, when the group's batch did not work or the name must travel alone.
AskSingle(n, g) ==
    /\ call = NoCall /\ open
    /\ cache[g].blocks[n] = None /\ (cache[g].singly \/ ~Batchable(n))
    /\ Start("own", n, g, {n}, FALSE, {}) /\ Count(g)
    /\ UNCHANGED <<world, open, listed, cache, base, given>>

\* show, when one call should cover the listed units.
AskBatch(n, g) ==
    /\ call = NoCall /\ open
    /\ cache[g].blocks[n] = None /\ ~cache[g].singly /\ Batchable(n)
    /\ Start("batch", n, g, Targets(n, g), FALSE, {}) /\ Count(g)
    /\ UNCHANGED <<world, open, listed, cache, base, given>>

\* A block read by a batch replaces an earlier one with the same Id.
Labelled(got, b) == {c \in got : c.unit # b.unit} \cup {b}

\* The batch's process reads one of its units. split_blocks files the block under
\* its Id line, and drops one without it.
BatchReads ==
    /\ call.at = "batch"
    /\ \E t \in call.targets, lost \in BOOLEAN :
           call' = [call EXCEPT
               !.targets = @ \ {t},
               !.got = IF lost THEN @
                       ELSE Labelled(@, [unit |-> Id[t], block |-> Props(Id[t], world[Id[t]])])]
    /\ UNCHANGED <<world, open, listed, cache, base, given, calls>>

\* Variant of Stored: the unit's own answer is not kept.
StoredBlocksOnly(n, g, got, r, singly) ==
    [cache EXCEPT ![g] =
        [blocks |-> [m \in Name |->
                        IF \E b \in got : b.unit = m
                        THEN (CHOOSE b \in got : b.unit = m).block
                        ELSE @.blocks[m]],
         singly |-> @.singly \/ singly]]

\* The cache of g after blocks got and the answer r for n are stored.
Stored(n, g, got, r, singly) ==
    [cache EXCEPT ![g] =
        [blocks |-> [m \in Name |->
                        IF m = n THEN r
                        ELSE IF \E b \in got : b.unit = m
                             THEN (CHOOSE b \in got : b.unit = m).block
                             ELSE @.blocks[m]],
         singly |-> @.singly \/ singly]]

\* store_blocks and the answer; outside a view nothing is kept.
Reply(r) ==
    LET n == call.name
        g == call.group
    IN  /\ cache' = IF open THEN Stored(n, g, call.got, r, call.singly) ELSE cache
        /\ given' = [given EXCEPT ![n][g] = r]
        /\ call' = NoCall

\* The batch labelled the unit that was asked for.
BatchAnswers ==
    /\ call.at = "batch" /\ call.targets = {}
    /\ \E b \in call.got : b.unit = call.name /\ Reply(b.block)
    /\ UNCHANGED <<world, open, listed, base, calls>>

\* It did not label it, or the whole call failed at some point: the unit's own
\* call follows, and the group's batches are given up.
BatchMisses ==
    /\ call.at = "batch"
    /\ \E got \in {call.got, {}} :
           /\ got = {} \/ (call.targets = {} /\ \A b \in got : b.unit # call.name)
           /\ Start("own", call.name, call.group, {call.name}, TRUE, got)
    /\ Count(call.group)
    /\ UNCHANGED <<world, open, listed, cache, base, given>>

\* The unit's own call: its block needs no label.
OwnReads ==
    /\ call.at = "own" /\ Batchable(call.name)
    /\ Reply(Props(Id[call.name], world[Id[call.name]]))
    /\ UNCHANGED <<world, open, listed, base, calls>>

OwnFails ==
    /\ call.at = "own"
    /\ Reply(Failed)
    /\ UNCHANGED <<world, open, listed, base, calls>>

Ask(n, g) == AskDirect(n, g) \/ AskCached(n, g) \/ AskSingle(n, g) \/ AskBatch(n, g)

Next ==
    \/ Change \/ OpenView \/ CloseView \/ List
    \/ \E n \in Name, g \in Group : Ask(n, g)
    \/ BatchReads \/ BatchAnswers \/ BatchMisses \/ OwnReads \/ OwnFails

Spec == Init /\ [][Next]_vars

-----------------------------------------------------------------------------
(* Properties *)

\* The names of g this view has asked for, answered or not.
Asked(g) == {n \in Name : given[n][g] # None} \cup
            (IF call # NoCall /\ call.group = g THEN {call.name} ELSE {})

\* A view makes at most one call more for a property group than it has asked for
\* units: "a batch that does not work costs one wasted call, never one per unit"
\* (systemd.rs:501-503, view_batch).
OneCallWasted == open => \A g \in Group : calls[g] <= Cardinality(Asked(g)) + 1

\* Every variable has its type, the counts of calls their bound, and outside a view
\* nothing is left of an earlier one: "no property outlives the view that asked for it" (systemd.rs:486-487).
ViewTypeOK ==
    /\ world \in [Unit -> Nat] /\ base \in [Unit -> Nat]
    /\ open \in BOOLEAN /\ listed \subseteq Name
    /\ cache \in [Group -> [blocks : [Name -> Block \cup {None}], singly : BOOLEAN]]
    /\ \/ call = NoCall
       \/ call \in [at : {"own", "batch"}, name : Name, group : Group, targets : SUBSET Name,
                    got : SUBSET [unit : Unit, block : Block], singly : BOOLEAN]
    /\ given \in [Name -> [Group -> Block \cup {None}]]
    /\ calls \in [Group -> Nat] /\ OneCallWasted
    /\ ~open => cache = EmptyCache /\ listed = {}

\* With its calls, listings and cache the view gives the answers of UnitReads: the
\* asked unit's own properties, read since the view was opened, that never go
\* back, and errors that stay (show, view_batch, split_blocks, ViewCache.store).
Reads == INSTANCE UnitReads
ReadsAsPromised == Reads!Spec
=============================================================================
