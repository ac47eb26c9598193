-------------------------- MODULE ViewCacheProofs --------------------------
(***************************************************************************)
(* ViewCache implements UnitReads, for any names, aliases, templates,      *)
(* groups and listings, however often the units change.                    *)
(*                                                                         *)
(* The argument: whatever the cache holds could be given out now (Serves), *)
(* and so could whatever a batch under way has read (Fresh).  A batch may  *)
(* replace a block that was answered before, when the listing names an     *)
(* alias; it never replaces an error, because an error is only stored for  *)
(* a group whose batches are given up, or for a template (FailuresStay).   *)
(***************************************************************************)
EXTENDS ViewCache, FiniteSetTheorems, TLAPS

CallRecord ==
    [at : {"own", "batch"}, name : Name, group : Group, targets : SUBSET Name,
     got : SUBSET [unit : Unit, block : Block], singly : BOOLEAN]

Typed ==
    /\ world \in [Unit -> Nat] /\ base \in [Unit -> Nat]
    /\ open \in BOOLEAN /\ listed \subseteq Name
    /\ cache \in [Group -> [blocks : [Name -> Block \cup {None}], singly : BOOLEAN]]
    /\ call \in {NoCall} \cup CallRecord
    /\ given \in [Name -> [Group -> Block \cup {None}]]

NoneOlder == \A u \in Unit : base[u] <= world[u]

\* What the cache holds could be given out now.
Serves ==
    open => \A n \in Name, g \in Group :
        IF cache[g].blocks[n] = None
        THEN given[n][g] = None
        ELSE Reads!Acceptable(n, cache[g].blocks[n], given[n][g])

FailuresStay ==
    open => \A n \in Name, g \in Group :
        cache[g].blocks[n] = Failed => cache[g].singly \/ n \in Template

\* A block a batch has read could be given out now, and replaces no error.
Fresh(b, g) ==
    /\ b.unit \in Name /\ Id[b.unit] = b.unit
    /\ \E v \in base[b.unit]..world[b.unit] :
           /\ b.block = Props(b.unit, v)
           /\ \/ cache[g].blocks[b.unit] = None
              \/ \E w \in Nat : w <= v /\ cache[g].blocks[b.unit] = Props(b.unit, w)

\* The ask under way has not been answered in this view, and its own call follows
\* where a failure may be stored.
CallSound ==
    call # NoCall =>
        /\ given[call.name][call.group] = None
        /\ open => cache[call.group].blocks[call.name] = None
        /\ open \/ (call.at = "own" /\ call.got = {})
        /\ call.at = "batch" =>
               ~cache[call.group].singly /\ (call.targets \cup {call.name}) \cap Template = {}
        /\ call.at = "own" /\ open =>
               call.singly \/ cache[call.group].singly \/ call.name \in Template
        /\ \A b \in call.got : Fresh(b, call.group)

IInv == Typed /\ NoneOlder /\ Serves /\ FailuresStay /\ CallSound

-----------------------------------------------------------------------------
(* Facts about names, blocks and answers *)

LEMMA Names ==
    /\ \A n \in Name : Id[n] \in Unit /\ Id[n] \in Name /\ Id[Id[n]] = Id[n]
    /\ \A n \in Name \ Template : Id[n] \notin Template
    /\ Unit \subseteq Name
  BY IdAssumption DEF Unit

\* Properties are neither an error nor nothing.
LEMMA Blocks ==
    /\ \A u \in Unit, v \in Nat : Props(u, v) \in Block /\ Props(u, v) \notin {Failed, None}
    /\ Failed \in Block /\ Failed # None /\ None \notin Block
  BY ViewAssumption DEF Block, Props

LEMMA NoCallIsNone ==
    /\ NoCall.at = "idle" /\ \A k \in CallRecord : k # NoCall
  BY DEF NoCall, CallRecord

\* An answer that was acceptable stays so while the units change.
LEMMA AcceptableLater ==
    ASSUME Typed, NEW u \in Unit, world' = [world EXCEPT ![u] = @ + 1],
           UNCHANGED base, NEW n \in Name, NEW r, NEW was, Reads!Acceptable(n, r, was)
    PROVE  Reads!Acceptable(n, r, was)'
  <1>1. Id[n] \in Unit
    BY Names
  <1>2. \A v \in base[Id[n]]..world[Id[n]] : v \in base'[Id[n]]..world'[Id[n]]
    BY <1>1 DEF Typed
  <1> QED
    BY <1>2, UNCHANGED base DEF Reads!Acceptable, Reads!Props

\* An answer that was given may be given again.
LEMMA AcceptableAgain ==
    ASSUME Typed, NEW n \in Name, NEW r, NEW was, Reads!Acceptable(n, r, was)
    PROVE  Reads!Acceptable(n, r, r)
  <1>1. CASE r = Failed
    BY <1>1 DEF Reads!Acceptable
  <1>2. CASE r # Failed
    <2>1. PICK v \in base[Id[n]]..world[Id[n]] : r = Reads!Props(Id[n], v)
      BY <1>2 DEF Reads!Acceptable
    <2>2. v \in Nat /\ r.version = v
      BY <2>1, Names DEF Typed, Reads!Props
    <2> QED
      BY <1>2, <2>1, <2>2 DEF Reads!Acceptable
  <1> QED
    BY <1>1, <1>2

LEMMA AcceptableIsABlock ==
    ASSUME Typed, NEW n \in Name, NEW r, NEW was, Reads!Acceptable(n, r, was)
    PROVE  r \in Block /\ r # None
  <1>1. \A v \in base[Id[n]]..world[Id[n]] : v \in Nat
    BY Names DEF Typed
  <1>2. \A v \in base[Id[n]]..world[Id[n]] : Reads!Props(Id[n], v) \in Block
    BY <1>1, Blocks, Names DEF Reads!Props, Props
  <1> QED
    BY <1>2, Blocks DEF Reads!Acceptable

\* What a batch has read could be given out whatever was given before.
LEMMA FreshServes ==
    ASSUME Typed, Serves, open, NEW g \in Group, NEW b, Fresh(b, g)
    PROVE  Reads!Acceptable(b.unit, b.block, given[b.unit][g])
  <1> DEFINE u == b.unit
             was == given[u][g]
  <1>1. u \in Name /\ Id[u] = u /\ u \in Unit
    BY Names DEF Fresh
  <1>2. PICK v \in base[u]..world[u] :
            /\ b.block = Props(u, v)
            /\ \/ cache[g].blocks[u] = None
               \/ \E w \in Nat : w <= v /\ cache[g].blocks[u] = Props(u, w)
    BY DEF Fresh
  <1>3. v \in Nat
    BY <1>1, <1>2 DEF Typed
  <1>4. was = None \/ (was # Failed /\ was.version <= v)
    <2>1. CASE cache[g].blocks[u] = None
      BY <2>1, <1>1 DEF Serves
    <2>2. CASE cache[g].blocks[u] # None
      <3>1. PICK w \in Nat : w <= v /\ cache[g].blocks[u] = Props(u, w)
        BY <2>2, <1>2
      <3>2. Props(u, w) # Failed /\ Props(u, w).version = w
        BY <1>1, Blocks DEF Props
      <3>3. Reads!Acceptable(u, Props(u, w), was)
        BY <1>1, <2>2, <3>1 DEF Serves
      <3>4. PICK x \in base[u]..world[u] :
                /\ Props(u, w) = Reads!Props(u, x)
                /\ was = None \/ (was # Failed /\ was.version <= x)
        BY <3>2, <3>3, <1>1 DEF Reads!Acceptable
      <3>5. x = w
        BY <3>4, <3>2 DEF Reads!Props
      <3>6. CASE was = None
        BY <3>6
      <3>7. CASE was # None
        <4>1. was \in Block /\ was # Failed
          BY <1>1, <3>4, <3>7 DEF Typed
        <4>2. was.version \in Nat
          BY <4>1 DEF Block
        <4> QED
          BY <4>1, <4>2, <3>1, <3>4, <3>5, <3>7, <1>3
      <3> QED
        BY <3>6, <3>7
    <2> QED
      BY <2>1, <2>2
  <1> QED
    BY <1>1, <1>2, <1>4 DEF Reads!Acceptable, Reads!Props, Props

-----------------------------------------------------------------------------
(* What each step keeps, and what it is to UnitReads *)

\* Nothing of the model changes but the units: all that was acceptable stays so.
LEMMA ChangeKeeps ==
    ASSUME IInv, Change
    PROVE  IInv' /\ Reads!Change
  <1> USE DEF IInv
  <1>1. PICK u \in Unit :
            /\ world' = [world EXCEPT ![u] = @ + 1]
            /\ UNCHANGED <<open, listed, cache, call, base, given, calls>>
    BY DEF Change
  <1>2. Typed'
    BY <1>1 DEF Typed, CallRecord, NoCall
  <1>3. NoneOlder'
    BY <1>1 DEF NoneOlder, Typed
  <1>4. Serves'
    <2> SUFFICES ASSUME open', NEW n \in Name, NEW g \in Group, cache[g].blocks[n] # None
                 PROVE  Reads!Acceptable(n, cache[g].blocks[n], given[n][g])'
      BY <1>1 DEF Serves
    <2>1. Reads!Acceptable(n, cache[g].blocks[n], given[n][g])
      BY <1>1 DEF Serves
    <2> DEFINE r == cache[g].blocks[n]
               was == given[n][g]
    <2>2. r' = r /\ was' = was
      BY <1>1
    <2>3. \A v \in base[Id[n]]..world[Id[n]] : v \in (base[Id[n]]..world[Id[n]])'
      BY <1>1, Names DEF Typed
    <2> QED
      BY <2>1, <2>2, <2>3, <1>1 DEF Reads!Acceptable, Reads!Props
  <1>5. FailuresStay'
    BY <1>1 DEF FailuresStay
  <1>6. \A b, g : Fresh(b, g) => Fresh(b, g)'
    <2> SUFFICES ASSUME NEW b, NEW g, Fresh(b, g)
                 PROVE  Fresh(b, g)'
      OBVIOUS
    <2>1. b.unit \in Unit
      BY Names DEF Fresh
    <2>2. \A v \in base[b.unit]..world[b.unit] : v \in (base[b.unit]..world[b.unit])'
      BY <1>1, <2>1 DEF Typed
    <2> QED
      BY <1>1, <2>2 DEF Fresh
  <1>7. CallSound'
    <2>1. PICK got, g : got = call.got /\ g = call.group
      OBVIOUS
    <2>2. call # NoCall => \A b \in got : Fresh(b, g)'
      BY <1>6, <2>1 DEF CallSound
    <2>3. call' # NoCall => \A b \in call'.got : Fresh(b, call.group)'
      BY <1>1, <2>1, <2>2 DEF Fresh
    <2> QED
      BY <1>1, <2>3 DEF CallSound
  <1>8. Reads!Change
    BY <1>1 DEF Reads!Change, Reads!Unit, Unit
  <1> QED
    BY <1>2, <1>3, <1>4, <1>5, <1>7, <1>8

\* A view that opens or closes starts with nothing given and nothing held.
LEMMA ViewKeeps ==
    ASSUME IInv, OpenView \/ CloseView
    PROVE  IInv' /\ Reads!Start
  <1> USE DEF IInv
  <1>1. /\ call = NoCall /\ call' = call /\ world' = world /\ base' = world
        /\ open' \in BOOLEAN /\ listed' = {} /\ cache' = EmptyCache /\ given' = Nothing
    BY DEF OpenView, CloseView
  <1>2. Typed'
    BY <1>1 DEF Typed, EmptyCache, Nothing
  <1>3. NoneOlder'
    BY <1>1 DEF NoneOlder, Typed
  <1>4. Serves' /\ FailuresStay'
    BY <1>1, Blocks DEF Serves, FailuresStay, EmptyCache, Nothing
  <1>5. CallSound'
    BY <1>1 DEF CallSound
  <1>6. Reads!Start
    BY <1>1 DEF Reads!Start, Reads!Nothing, Nothing
  <1> QED
    BY <1>2, <1>3, <1>4, <1>5, <1>6

\* A step that changes neither the units nor the answers nor what is held.
LEMMA QuietKeeps ==
    ASSUME IInv, UNCHANGED <<world, open, cache, base, given>>,
           listed' \subseteq Name,
           call' \in {NoCall} \cup CallRecord, CallSound'
    PROVE  IInv' /\ UNCHANGED Reads!vars
  <1> USE DEF IInv
  <1>1. Typed'
    BY DEF Typed
  <1>2. NoneOlder' /\ Serves' /\ FailuresStay'
    BY DEF NoneOlder, Serves, FailuresStay, Reads!Acceptable, Reads!Props
  <1> QED
    BY <1>1, <1>2 DEF Reads!vars

LEMMA ListKeeps ==
    ASSUME IInv, List
    PROVE  IInv' /\ UNCHANGED Reads!vars
  <1>1. call = NoCall /\ call' = call /\ UNCHANGED <<world, open, cache, base, given>>
    BY DEF List
  <1>2. listed' \subseteq Name
    BY ViewAssumption DEF List, IInv, Typed
  <1>3. CallSound'
    BY <1>1 DEF CallSound
  <1> QED
    BY <1>1, <1>2, <1>3, QuietKeeps

\* A direct read begins: what is acceptable is what the unit is from here on.
LEMMA AskDirectKeeps ==
    ASSUME IInv, NEW n \in Name, NEW g \in Group, AskDirect(n, g)
    PROVE  IInv' /\ Reads!Start
  <1> USE DEF IInv
  <1>1. /\ ~open /\ base' = world /\ given' = Nothing
        /\ UNCHANGED <<world, open, listed, cache>>
        /\ call' = [at |-> "own", name |-> n, group |-> g, targets |-> {n},
                    got |-> {}, singly |-> FALSE]
    BY DEF AskDirect, Start
  <1>2. call' \in CallRecord
    BY <1>1 DEF CallRecord
  <1>3. Typed'
    BY <1>1, <1>2 DEF Typed, Nothing
  <1>4. NoneOlder'
    BY <1>1 DEF NoneOlder, Typed
  <1>5. Serves' /\ FailuresStay'
    BY <1>1 DEF Serves, FailuresStay
  <1>6. CallSound'
    BY <1>1 DEF CallSound, Nothing
  <1>7. Reads!Start
    BY <1>1 DEF Reads!Start, Reads!Nothing, Nothing, Typed
  <1> QED
    BY <1>3, <1>4, <1>5, <1>6, <1>7

\* A call of the unit's own, or of a batch, begins inside a view.
LEMMA AskKeeps ==
    ASSUME IInv, NEW n \in Name, NEW g \in Group, AskSingle(n, g) \/ AskBatch(n, g)
    PROVE  IInv' /\ UNCHANGED Reads!vars
  <1> USE DEF IInv
  <1>1. /\ open /\ cache[g].blocks[n] = None
        /\ UNCHANGED <<world, open, listed, cache, base, given>>
    BY DEF AskSingle, AskBatch
  <1>2. given[n][g] = None
    BY <1>1 DEF Serves
  <1>3. CASE AskSingle(n, g)
    <2>1. call' = [at |-> "own", name |-> n, group |-> g, targets |-> {n},
                   got |-> {}, singly |-> FALSE]
      BY <1>3 DEF AskSingle, Start
    <2>2. call' \in CallRecord
      BY <2>1 DEF CallRecord
    <2>3. CallSound'
      BY <1>1, <1>2, <1>3, <2>1 DEF CallSound, AskSingle, Batchable
    <2> QED
      BY <1>1, <2>2, <2>3, QuietKeeps DEF Typed
  <1>4. CASE AskBatch(n, g)
    <2>1. call' = [at |-> "batch", name |-> n, group |-> g, targets |-> Targets(n, g),
                   got |-> {}, singly |-> FALSE]
      BY <1>4 DEF AskBatch, Start
    <2>2. Targets(n, g) \subseteq Name /\ Targets(n, g) \cap Template = {} /\ n \notin Template
      BY <1>4 DEF Targets, Typed, AskBatch, Batchable
    <2>3. call' \in CallRecord
      BY <2>1, <2>2 DEF CallRecord
    <2>4. CallSound'
      BY <1>1, <1>2, <1>4, <2>1, <2>2 DEF CallSound, AskBatch
    <2> QED
      BY <1>1, <2>3, <2>4, QuietKeeps DEF Typed
  <1> QED
    BY <1>3, <1>4

\* The batch's process reads a unit as it is now, at least as new as what is held.
LEMMA BatchReadsKeeps ==
    ASSUME IInv, BatchReads
    PROVE  IInv' /\ UNCHANGED Reads!vars
  <1> USE DEF IInv
  <1>1. /\ call.at = "batch" /\ call \in CallRecord /\ call # NoCall
        /\ UNCHANGED <<world, open, listed, cache, base, given>>
    BY DEF BatchReads, Typed, NoCall
  <1>2. PICK k : k = call
    OBVIOUS
  <1>3. PICK t \in k.targets, lost \in BOOLEAN :
            call' = [k EXCEPT
                !.targets = @ \ {t},
                !.got = IF lost THEN @
                        ELSE Labelled(@, [unit |-> Id[t], block |-> Props(Id[t], world[Id[t]])])]
    BY <1>2 DEF BatchReads
  <1> DEFINE c == [unit |-> Id[t], block |-> Props(Id[t], world[Id[t]])]
  <1>4. k \in CallRecord /\ t \in Name /\ k.name \in Name /\ k.group \in Group
    BY <1>1, <1>2, <1>3 DEF CallRecord
  <1>5. /\ open /\ ~cache[k.group].singly
        /\ (k.targets \cup {k.name}) \cap Template = {}
        /\ given[k.name][k.group] = None /\ cache[k.group].blocks[k.name] = None
        /\ \A b \in k.got : Fresh(b, k.group)
    BY <1>1, <1>2 DEF CallSound
  <1>6. Id[t] \in Name /\ Id[t] \in Unit /\ Id[Id[t]] = Id[t] /\ Id[t] \notin Template
        /\ world[Id[t]] \in Nat /\ base[Id[t]] \in Nat
    BY <1>3, <1>4, <1>5, Names DEF Typed
  <1>7. Fresh(c, k.group)
    <2> DEFINE held == cache[k.group].blocks[Id[t]]
    <2>1. world[Id[t]] \in base[Id[t]]..world[Id[t]]
      BY <1>6 DEF NoneOlder
    <2>2. held = None \/ \E w \in Nat : w <= world[Id[t]] /\ held = Props(Id[t], w)
      <3>1. CASE held # None
        <4>1. held # Failed
          BY <1>4, <1>5, <1>6 DEF FailuresStay
        <4>2. Reads!Acceptable(Id[t], held, given[Id[t]][k.group])
          BY <1>4, <1>5, <1>6, <3>1 DEF Serves
        <4>3. PICK w \in base[Id[t]]..world[Id[t]] : held = Reads!Props(Id[t], w)
          BY <4>1, <4>2, <1>6 DEF Reads!Acceptable
        <4>4. w \in Nat /\ w <= world[Id[t]] /\ held = Props(Id[t], w)
          BY <4>3, <1>6 DEF Reads!Props, Props
        <4> QED
          BY <4>4
      <3> QED
        BY <3>1
    <2> QED
      BY <1>6, <2>1, <2>2 DEF Fresh
  <1>8. /\ call'.at = "batch" /\ call'.name = k.name /\ call'.group = k.group
        /\ call'.targets \subseteq k.targets /\ call'.got \subseteq k.got \cup {c}
        /\ call'.singly = k.singly
        /\ call' = [at |-> k.at, name |-> k.name, group |-> k.group,
                    targets |-> call'.targets, got |-> call'.got, singly |-> k.singly]
    BY <1>1, <1>2, <1>3, <1>4 DEF CallRecord, Labelled
  <1>9. call' \in CallRecord
    <2>1. c \in [unit : Unit, block : Block]
      BY <1>6, Blocks
    <2> QED
      BY <1>4, <1>8, <2>1 DEF CallRecord
  <1>10. \A b \in call'.got : Fresh(b, k.group)
    BY <1>5, <1>7, <1>8
  <1>11. CallSound'
    BY <1>1, <1>2, <1>5, <1>8, <1>10 DEF CallSound, Fresh
  <1> QED
    BY <1>1, <1>9, <1>11, QuietKeeps DEF Typed

\* The batch is over without the unit's block: its own call follows.
LEMMA BatchMissesKeeps ==
    ASSUME IInv, BatchMisses
    PROVE  IInv' /\ UNCHANGED Reads!vars
  <1> USE DEF IInv
  <1>1. PICK k : k = call
    OBVIOUS
  <1>2. PICK got \in {k.got, {}} :
            call' = [at |-> "own", name |-> k.name, group |-> k.group,
                     targets |-> {k.name}, got |-> got, singly |-> TRUE]
    BY <1>1 DEF BatchMisses, Start
  <1>3. /\ k.at = "batch" /\ k \in CallRecord /\ k # NoCall
        /\ UNCHANGED <<world, open, listed, cache, base, given>>
    BY <1>1 DEF BatchMisses, Typed, NoCall
  <1>4. call' \in CallRecord
    BY <1>2, <1>3 DEF CallRecord
  <1>5. CallSound'
    BY <1>1, <1>2, <1>3 DEF CallSound, Fresh
  <1> QED
    BY <1>3, <1>4, <1>5, QuietKeeps DEF Typed

\* An answer from the cache is one that could be given out.
LEMMA AskCachedKeeps ==
    ASSUME IInv, NEW n \in Name, NEW g \in Group, AskCached(n, g)
    PROVE  IInv' /\ Reads!Answer(n, g)
  <1> USE DEF IInv
  <1> DEFINE r == cache[g].blocks[n]
  <1>1. /\ open /\ call = NoCall /\ r # None
        /\ given' = [given EXCEPT ![n][g] = r]
        /\ UNCHANGED <<world, open, listed, cache, call, base>>
    BY DEF AskCached
  <1>2. Reads!Acceptable(n, r, given[n][g])
    BY <1>1 DEF Serves
  <1>3. r \in Block
    BY <1>2, AcceptableIsABlock
  <1>4. Typed'
    BY <1>1, <1>3 DEF Typed
  <1>5. NoneOlder' /\ FailuresStay' /\ CallSound'
    BY <1>1 DEF NoneOlder, FailuresStay, CallSound
  <1>6. Reads!Acceptable(n, r, r)
    BY <1>2, AcceptableAgain
  <1>7. Serves'
    <2> SUFFICES ASSUME NEW m \in Name, NEW h \in Group
                 PROVE  IF cache[h].blocks[m] = None
                        THEN given'[m][h] = None
                        ELSE Reads!Acceptable(m, cache[h].blocks[m], given'[m][h])
      BY <1>1 DEF Serves, Reads!Acceptable, Reads!Props
    <2>1. CASE m = n /\ h = g
      <3>1. given'[m][h] = r
        BY <1>1, <2>1 DEF Typed
      <3> QED
        BY <1>1, <1>6, <2>1, <3>1
    <2>2. CASE ~(m = n /\ h = g)
      <3>1. given'[m][h] = given[m][h]
        BY <1>1, <2>2 DEF Typed
      <3> QED
        BY <1>1, <3>1 DEF Serves
    <2> QED
      BY <2>1, <2>2
  <1>8. Reads!Answer(n, g)
    BY <1>1, <1>2 DEF Reads!Answer, Reads!Acceptable
  <1> QED
    BY <1>4, <1>5, <1>7, <1>8

\* The ask under way is answered with r, and what the calls have read is kept.
LEMMA ReplyKeeps ==
    ASSUME IInv, NEW n \in Name, NEW g \in Group, NEW r,
           call \in CallRecord, n = call.name, g = call.group,
           Reads!Acceptable(n, r, None),
           open /\ r = Failed => call.singly \/ cache[g].singly \/ n \in Template,
           Reply(r), UNCHANGED <<world, open, listed, base>>
    PROVE  IInv' /\ Reads!Answer(n, g)
  <1> USE DEF IInv
  <1>1. PICK k : k = call
    OBVIOUS
  <1>2. /\ k \in CallRecord /\ k # NoCall /\ k.name = n /\ k.group = g
        /\ given[n][g] = None /\ \A b \in k.got : Fresh(b, g)
    BY <1>1, NoCallIsNone DEF CallSound
  <1>3. /\ call' = NoCall /\ given' = [given EXCEPT ![n][g] = r]
        /\ cache' = IF open THEN Stored(n, g, k.got, r, k.singly) ELSE cache
    BY <1>1 DEF Reply
  <1>4. r \in Block /\ r # None
    BY AcceptableIsABlock
  <1> DEFINE picked(m) == CHOOSE b \in k.got : b.unit = m
             blocks == [m \in Name |-> IF m = n THEN r
                                       ELSE IF \E b \in k.got : b.unit = m
                                            THEN picked(m).block
                                            ELSE cache[g].blocks[m]]
             singly == cache[g].singly \/ k.singly
  <1>5. open => cache' = [cache EXCEPT ![g] = [blocks |-> blocks, singly |-> singly]]
    BY <1>3 DEF Stored
  <1>6. \A m \in Name : (\E b \in k.got : b.unit = m) =>
            picked(m) \in k.got /\ picked(m).unit = m
    OBVIOUS
  <1>7. \A b \in k.got : b.block \in Block /\ b.block \notin {Failed, None}
    <2> SUFFICES ASSUME NEW b \in k.got
                 PROVE  b.block \in Block /\ b.block \notin {Failed, None}
      OBVIOUS
    <2>1. PICK v \in base[b.unit]..world[b.unit] : b.block = Props(b.unit, v)
      BY <1>2 DEF Fresh
    <2>2. b.unit \in Unit
      BY <1>2, Names DEF Fresh
    <2>3. v \in Nat
      BY <2>1, <2>2 DEF Typed
    <2> QED
      BY <2>1, <2>2, <2>3, Blocks
  <1>8. blocks \in [Name -> Block \cup {None}] /\ singly \in BOOLEAN
    <2>1. \A m \in Name : blocks[m] \in Block \cup {None}
      BY <1>4, <1>6, <1>7 DEF Typed
    <2> QED
      BY <2>1, <1>2 DEF CallRecord, Typed
  <1>9. Typed'
    <2> HIDE DEF blocks, singly
    <2>1. cache' \in [Group -> [blocks : [Name -> Block \cup {None}], singly : BOOLEAN]]
      <3> DEFINE e == [blocks |-> blocks, singly |-> singly]
      <3>1. e \in [blocks : [Name -> Block \cup {None}], singly : BOOLEAN]
        BY <1>8
      <3>2. open => cache' = [cache EXCEPT ![g] = e]
        BY <1>5
      <3> HIDE DEF e
      <3>3. ~open => cache' = cache
        BY <1>3
      <3> QED
        BY <3>1, <3>2, <3>3 DEF Typed
    <2>2. given' \in [Name -> [Group -> Block \cup {None}]]
      BY <1>3, <1>4 DEF Typed
    <2> QED
      BY <1>3, <2>1, <2>2 DEF Typed
  <1>10. NoneOlder' /\ CallSound'
    BY <1>3 DEF NoneOlder, CallSound
  <1>11. ASSUME open, NEW m \in Name, NEW h \in Group
         PROVE  /\ IF cache'[h].blocks[m] = None
                   THEN given'[m][h] = None
                   ELSE Reads!Acceptable(m, cache'[h].blocks[m], given'[m][h])
                /\ cache'[h].blocks[m] = Failed => cache'[h].singly \/ m \in Template
    <2>1. CASE h # g
      <3>1. cache'[h] = cache[h] /\ given'[m][h] = given[m][h]
        BY <1>3, <1>5, <1>11, <2>1 DEF Typed
      <3> QED
        BY <1>11, <3>1 DEF Serves, FailuresStay
    <2>2. CASE h = g
      <3>1. cache'[h].blocks[m] = blocks[m] /\ cache'[h].singly = singly
        BY <1>5, <1>11, <2>2 DEF Typed
      <3>2. CASE m = n
        <4>1. given'[m][h] = r /\ blocks[m] = r
          BY <1>3, <2>2, <3>2 DEF Typed
        <4>2. Reads!Acceptable(n, r, r)
          BY AcceptableAgain
        <4> QED
          BY <1>1, <1>4, <1>11, <3>1, <3>2, <4>1, <4>2
      <3>3. CASE m # n
        <4>1. given'[m][h] = given[m][h]
          BY <1>3, <3>3 DEF Typed
        <4>2. CASE \E b \in k.got : b.unit = m
          <5>1. PICK b \in k.got : b.unit = m /\ blocks[m] = b.block
            BY <1>6, <3>3, <4>2
          <5>2. Fresh(b, g)
            BY <1>2, <5>1
          <5>3. Reads!Acceptable(m, b.block, given[m][g])
            BY <1>11, <5>1, <5>2, FreshServes
          <5> QED
            BY <1>7, <2>2, <3>1, <4>1, <5>1, <5>3
        <4>3. CASE ~\E b \in k.got : b.unit = m
          <5>1. blocks[m] = cache[g].blocks[m]
            BY <3>3, <4>3
          <5> QED
            BY <1>11, <2>2, <3>1, <4>1, <5>1 DEF Serves, FailuresStay
        <4> QED
          BY <4>2, <4>3
      <3> QED
        BY <3>2, <3>3
    <2> QED
      BY <2>1, <2>2
  <1>12. Serves' /\ FailuresStay'
    BY <1>11 DEF Serves, FailuresStay, Reads!Acceptable, Reads!Props
  <1>13. Reads!Answer(n, g)
    BY <1>2, <1>3 DEF Reads!Answer, Reads!Acceptable
  <1> QED
    BY <1>9, <1>10, <1>12, <1>13

\* The three ways an ask is answered.
LEMMA AnswersKeep ==
    ASSUME IInv, BatchAnswers \/ OwnReads \/ OwnFails
    PROVE  IInv' /\ \E n \in Name, g \in Group : Reads!Answer(n, g)
  <1> USE DEF IInv
  <1> DEFINE n == call.name
             g == call.group
  <1>1. /\ call \in CallRecord /\ call # NoCall /\ n \in Name /\ g \in Group
        /\ UNCHANGED <<world, open, listed, base>>
    BY DEF BatchAnswers, OwnReads, OwnFails, Typed, CallRecord, NoCall
  <1>2. CASE BatchAnswers
    <2>1. PICK b \in call.got : b.unit = n /\ Reply(b.block)
      BY <1>2 DEF BatchAnswers
    <2>2. PICK v \in base[n]..world[n] : b.block = Props(n, v)
      BY <1>1, <2>1 DEF CallSound, Fresh
    <2>3. Id[n] = n /\ n \in Unit /\ v \in Nat
      BY <1>1, <2>1, <2>2, Names DEF CallSound, Fresh, Typed
    <2>4. Reads!Acceptable(n, b.block, None) /\ b.block # Failed
      BY <2>2, <2>3, Blocks DEF Reads!Acceptable, Reads!Props, Props
    <2> QED
      BY <1>1, <2>1, <2>4, ReplyKeeps
  <1>3. CASE OwnReads
    <2>1. Id[n] \in Unit /\ world[Id[n]] \in base[Id[n]]..world[Id[n]] /\ world[Id[n]] \in Nat
      BY <1>1, Names DEF NoneOlder, Typed
    <2> DEFINE r == Props(Id[n], world[Id[n]])
    <2>2. Reads!Acceptable(n, r, None) /\ r # Failed
      BY <2>1, Blocks DEF Reads!Acceptable, Reads!Props, Props
    <2> QED
      BY <1>1, <1>3, <2>2, ReplyKeeps DEF OwnReads
  <1>4. CASE OwnFails
    <2>1. Reads!Acceptable(n, Failed, None)
      BY DEF Reads!Acceptable
    <2>2. open => call.singly \/ cache[g].singly \/ n \in Template
      BY <1>1, <1>4 DEF OwnFails, CallSound
    <2> QED
      BY <1>1, <1>4, <2>1, <2>2, ReplyKeeps DEF OwnFails
  <1> QED
    BY <1>2, <1>3, <1>4

-----------------------------------------------------------------------------
(* The theorems *)

LEMMA InitHolds ==
    ASSUME Init
    PROVE  IInv /\ Reads!Init
  <1>1. Typed /\ NoneOlder
    <2>1. world \in [Unit -> Nat] /\ base = world
      BY DEF Init
    <2>2. EmptyCache \in [Group -> [blocks : [Name -> Block \cup {None}], singly : BOOLEAN]]
      BY DEF EmptyCache
    <2>3. Nothing \in [Name -> [Group -> Block \cup {None}]]
      BY DEF Nothing
    <2>4. NoneOlder
      BY <2>1 DEF NoneOlder
    <2>5. base \in [Unit -> Nat]
      BY <2>1
    <2>6. cache = EmptyCache /\ given = Nothing /\ open \in BOOLEAN /\ listed = {} /\ call = NoCall
      BY DEF Init
    <2>7. cache \in [Group -> [blocks : [Name -> Block \cup {None}], singly : BOOLEAN]]
      BY <2>2, <2>6
    <2>8. given \in [Name -> [Group -> Block \cup {None}]]
      BY <2>3, <2>6
    <2> QED
      BY <2>1, <2>4, <2>5, <2>6, <2>7, <2>8 DEF Typed
  <1>2. Serves /\ FailuresStay /\ CallSound
    BY DEF Init, Serves, FailuresStay, CallSound
  <1>3. Reads!Init
    BY DEF Init, Reads!Init, Reads!Nothing, Nothing, Reads!Unit, Unit
  <1> QED
    BY <1>1, <1>2, <1>3 DEF IInv

\* Every step is a step of the promise or no step of it.
LEMMA StepsImplement ==
    ASSUME IInv, [Next]_vars
    PROVE  IInv' /\ [Reads!Next]_Reads!vars
  <1>1. CASE Change
    BY <1>1, ChangeKeeps DEF Reads!Next
  <1>2. CASE OpenView \/ CloseView
    BY <1>2, ViewKeeps DEF Reads!Next
  <1>3. CASE List
    BY <1>3, ListKeeps
  <1>4. ASSUME NEW n \in Name, NEW g \in Group, Ask(n, g)
        PROVE  IInv' /\ [Reads!Next]_Reads!vars
    <2>1. CASE AskDirect(n, g)
      BY <2>1, AskDirectKeeps DEF Reads!Next
    <2>2. CASE AskCached(n, g)
      BY <2>2, AskCachedKeeps DEF Reads!Next
    <2>3. CASE AskSingle(n, g) \/ AskBatch(n, g)
      BY <2>3, AskKeeps
    <2> QED
      BY <1>4, <2>1, <2>2, <2>3 DEF Ask
  <1>5. CASE BatchReads
    BY <1>5, BatchReadsKeeps
  <1>6. CASE BatchMisses
    BY <1>6, BatchMissesKeeps
  <1>7. CASE BatchAnswers \/ OwnReads \/ OwnFails
    BY <1>7, AnswersKeep DEF Reads!Next
  <1>8. CASE UNCHANGED vars
    <2>1. CallSound' /\ listed' \subseteq Name /\ call' \in {NoCall} \cup CallRecord
      BY <1>8 DEF vars, IInv, CallSound, Fresh, Typed
    <2> QED
      BY <1>8, <2>1, QuietKeeps DEF vars
  <1> QED
    BY <1>1, <1>2, <1>3, <1>4, <1>5, <1>6, <1>7, <1>8 DEF Next

\* The cache never holds anything that could not be given out now, and an error only
\* where no batch can replace it (GroupCache, ViewCache::store).
THEOREM CacheServes == Spec => [](Serves /\ FailuresStay)
  <1>1. Init => IInv
    BY InitHolds
  <1>2. IInv /\ [Next]_vars => IInv'
    BY StepsImplement
  <1>3. IInv => Serves /\ FailuresStay
    BY DEF IInv
  <1> QED
    BY <1>1, <1>2, <1>3, PTL DEF Spec

\* With its listings, batches, fallbacks and cache a view answers as UnitReads
\* promises: the asked unit's own properties, read since the view was opened, that
\* never go back, and errors that stay (show, view_batch, store_blocks).
THEOREM ViewReadsAsPromised == Spec => ReadsAsPromised
  <1>1. Init => IInv /\ Reads!Init
    BY InitHolds
  <1>2. IInv /\ [Next]_vars => IInv' /\ [Reads!Next]_Reads!vars
    BY StepsImplement
  <1> QED
    BY <1>1, <1>2, PTL DEF Spec, ReadsAsPromised, Reads!Spec

-----------------------------------------------------------------------------
(* The calls a view makes, and what is left after it *)

\* A call that has nothing to do with a failed batch is one for a name not asked before.
Wasted(g) == IF cache[g].singly \/ (call # NoCall /\ call.group = g /\ call.singly) THEN 1 ELSE 0

Counted ==
    /\ calls \in [Group -> Nat]
    /\ ~open => cache = EmptyCache /\ listed = {}
    /\ call # NoCall => (call.at = "batch" => ~call.singly) /\ (~open => ~call.singly)
    /\ open => \A g \in Group : calls[g] <= Cardinality(Asked(g)) + Wasted(g)

LEMMA AskedFinite ==
    \A g : IsFiniteSet(Asked(g)) /\ Cardinality(Asked(g)) \in Nat
  <1> SUFFICES ASSUME NEW g
               PROVE  IsFiniteSet(Asked(g)) /\ Cardinality(Asked(g)) \in Nat
    OBVIOUS
  <1> DEFINE S == {n \in Name : given[n][g] # None}
  <1>1. IsFiniteSet(S)
    BY FiniteAssumption, FS_Subset
  <1>2. IsFiniteSet(S \cup {call.name})
    BY <1>1, FS_AddElement
  <1>3. Asked(g) \subseteq S \cup {call.name}
    BY DEF Asked
  <1> QED
    BY <1>2, <1>3, FS_Subset, FS_CardinalityType

LEMMA AskedFiniteNext ==
    (\A g : IsFiniteSet(Asked(g)) /\ Cardinality(Asked(g)) \in Nat)'
  BY AskedFinite, PTL

\* What was asked stays asked, so the bound holds while no call is counted.
LEMMA CountKept ==
    ASSUME Counted, NEW g \in Group, open, calls'[g] = calls[g],
           Asked(g) \subseteq Asked(g)', Wasted(g) <= Wasted(g)'
    PROVE  calls'[g] <= Cardinality(Asked(g)') + Wasted(g)'
  <1>1. Cardinality(Asked(g)) <= Cardinality(Asked(g)')
    BY AskedFiniteNext, FS_Subset
  <1>2. Wasted(g) \in Nat /\ Wasted(g)' \in Nat
    BY DEF Wasted
  <1> QED
    BY <1>1, <1>2, AskedFinite, AskedFiniteNext DEF Counted

\* Outside a view there is nothing to count, and a view that opens has made no call.
LEMMA ViewCounts ==
    ASSUME IInv, Counted, OpenView \/ CloseView \/ (\E n \in Name, g \in Group : AskDirect(n, g))
    PROVE  Counted'
  <1>1. CASE OpenView \/ CloseView
    <2>1. /\ calls' = NoCalls /\ call' = NoCall /\ cache' = EmptyCache /\ listed' = {}
      BY <1>1 DEF OpenView, CloseView
    <2>2. \A g \in Group : calls'[g] = 0 /\ Wasted(g)' = 0
      BY <2>1 DEF NoCalls, Wasted, EmptyCache
    <2>3. calls' \in [Group -> Nat]
      BY <2>1 DEF NoCalls
    <2>4. \A g \in Group : calls'[g] <= Cardinality(Asked(g)') + Wasted(g)'
      BY <2>2, AskedFiniteNext
    <2> QED
      BY <2>1, <2>3, <2>4 DEF Counted
  <1>2. ASSUME NEW n \in Name, NEW g \in Group, AskDirect(n, g)
        PROVE  Counted'
    BY <1>2 DEF AskDirect, Start, Counted
  <1> QED
    BY <1>1, <1>2

\* A call for a name of the view that was not asked before.
LEMMA AskCounts ==
    ASSUME IInv, Counted, NEW n \in Name, NEW g \in Group, AskSingle(n, g) \/ AskBatch(n, g)
    PROVE  Counted'
  <1>1. /\ open /\ call = NoCall /\ cache[g].blocks[n] = None
        /\ UNCHANGED <<open, listed, cache, given>>
        /\ calls' = [calls EXCEPT ![g] = @ + 1]
        /\ call' # NoCall /\ call'.name = n /\ call'.group = g /\ call'.singly = FALSE
    BY DEF AskSingle, AskBatch, Start, Count, NoCall
  <1>2. given[n][g] = None
    BY <1>1 DEF IInv, Serves
  <1>3. calls' \in [Group -> Nat]
    BY <1>1 DEF Counted
  <1>4. \A h : Wasted(h)' = Wasted(h)
    BY <1>1 DEF Wasted
  <1>5. ASSUME NEW h \in Group
        PROVE  calls'[h] <= Cardinality(Asked(h)') + Wasted(h)'
    <2>1. CASE h = g
      <3>1. n \notin Asked(g) /\ Asked(g)' = Asked(g) \cup {n}
        BY <1>1, <1>2 DEF Asked
      <3>2. Cardinality(Asked(g)') = Cardinality(Asked(g)) + 1
        BY <3>1, AskedFinite, FS_AddElement
      <3>3. Wasted(g) \in Nat
        BY DEF Wasted
      <3>4. calls'[g] = calls[g] + 1 /\ calls[g] \in Nat
        BY <1>1 DEF Counted
      <3> QED
        BY <1>1, <1>4, <2>1, <3>2, <3>3, <3>4, AskedFinite DEF Counted
    <2>2. CASE h # g
      <3>1. Asked(h) \subseteq Asked(h)'
        BY <1>1, <2>2 DEF Asked
      <3>2. calls'[h] = calls[h] /\ Wasted(h) <= Wasted(h)'
        BY <1>1, <1>4, <2>2 DEF Counted, Wasted
      <3> QED
        BY <1>1, <3>1, <3>2, CountKept
    <2> QED
      BY <2>1, <2>2
  <1> QED
    BY <1>1, <1>3, <1>5 DEF Counted

\* The one call more: a batch that did not work, after which the group has none.
LEMMA MissCounts ==
    ASSUME IInv, Counted, BatchMisses
    PROVE  Counted'
  <1> DEFINE g == call.group
             n == call.name
  <1>1. PICK h, m : h = call.group /\ m = call.name
    OBVIOUS
  <1>2. /\ call # NoCall /\ h \in Group /\ m \in Name /\ open /\ ~cache[h].singly /\ ~call.singly
        /\ UNCHANGED <<open, listed, cache, given>>
        /\ calls' = [calls EXCEPT ![h] = @ + 1]
        /\ call' # NoCall /\ call'.name = m /\ call'.group = h /\ call'.singly = TRUE
        /\ call'.at = "own"
    BY <1>1 DEF BatchMisses, IInv, Typed, CallRecord, CallSound, Counted, Start, Count, NoCall
  <1>3. calls' \in [Group -> Nat]
    BY <1>2 DEF Counted
  <1>4. \A k : Asked(k)' = Asked(k)
    BY <1>1, <1>2 DEF Asked
  <1>5. Wasted(h) = 0 /\ Wasted(h)' = 1
    BY <1>1, <1>2 DEF Wasted
  <1>6. ASSUME NEW k \in Group
        PROVE  calls'[k] <= Cardinality(Asked(k)') + Wasted(k)'
    <2>1. CASE k = h
      <3>1. calls'[h] = calls[h] + 1 /\ calls[h] \in Nat
        BY <1>2 DEF Counted
      <3> QED
        BY <1>2, <1>4, <1>5, <2>1, <3>1, AskedFinite DEF Counted
    <2>2. CASE k # h
      <3>1. calls'[k] = calls[k] /\ Wasted(k) <= Wasted(k)'
        BY <1>1, <1>2, <2>2 DEF Counted, Wasted
      <3> QED
        BY <1>2, <1>4, <3>1, CountKept
    <2> QED
      BY <2>1, <2>2
  <1> QED
    BY <1>2, <1>3, <1>6 DEF Counted

\* An answer keeps what was asked asked, and a wasted call stays known as one.
LEMMA ReplyCounts ==
    ASSUME IInv, Counted, BatchAnswers \/ OwnReads \/ OwnFails
    PROVE  Counted'
  <1>1. PICK h, m : h = call.group /\ m = call.name
    OBVIOUS
  <1>2. /\ call # NoCall /\ call \in CallRecord /\ h \in Group /\ m \in Name
        /\ UNCHANGED <<open, listed, calls>>
    BY <1>1 DEF BatchAnswers, OwnReads, OwnFails, IInv, Typed, CallRecord, NoCall
  <1>3. PICK r \in Block : Reply(r)
    <2>1. CASE BatchAnswers
      BY <1>2, <2>1 DEF BatchAnswers, CallRecord
    <2>2. CASE OwnReads
      BY <1>2, <2>2, Names, Blocks DEF OwnReads, CallRecord, IInv, Typed
    <2>3. CASE OwnFails
      BY <2>3, Blocks DEF OwnFails
    <2> QED
      BY <2>1, <2>2, <2>3
  <1>4. /\ given' = [given EXCEPT ![m][h] = r] /\ call' = NoCall /\ r # None
        /\ cache' = IF open THEN Stored(m, h, call.got, r, call.singly) ELSE cache
    BY <1>1, <1>3, Blocks DEF Reply
  <1>5. ASSUME open, NEW g \in Group
        PROVE  calls'[g] <= Cardinality(Asked(g)') + Wasted(g)'
    <2>1. Asked(g) \subseteq Asked(g)'
      BY <1>1, <1>2, <1>4 DEF Asked, IInv, Typed
    <2>2. cache[g].singly \/ (g = h /\ call.singly) => cache'[g].singly
      BY <1>2, <1>4, <1>5 DEF Stored, IInv, Typed, CallRecord
    <2>3. Wasted(g) <= Wasted(g)'
      BY <1>1, <1>2, <1>4, <2>2 DEF Wasted
    <2> QED
      BY <1>2, <1>5, <2>1, <2>3, CountKept
  <1> QED
    BY <1>2, <1>4, <1>5 DEF Counted

\* The steps that make no call.
LEMMA QuietCounts ==
    ASSUME IInv, Counted,
           \/ Change \/ List \/ BatchReads \/ UNCHANGED vars
           \/ \E n \in Name, g \in Group : AskCached(n, g)
    PROVE  Counted'
  <1>1. /\ UNCHANGED <<open, cache, calls>> /\ (open \/ listed' = listed)
        /\ call' = NoCall <=> call = NoCall
        /\ call # NoCall => call'.group = call.group /\ call'.name = call.name
                             /\ call'.singly = call.singly /\ call'.at = call.at
    <2>1. CASE BatchReads
      <3>1. PICK t, got : call' = [call EXCEPT !.targets = t, !.got = got]
        BY <2>1 DEF BatchReads
      <3>2. call.at = "batch" /\ UNCHANGED <<open, cache, calls, listed>>
        BY <2>1 DEF BatchReads
      <3>3. call \in CallRecord
        BY <3>2, NoCallIsNone DEF IInv, Typed
      <3>4. /\ call'.group = call.group /\ call'.name = call.name
            /\ call'.singly = call.singly /\ call'.at = call.at
        BY <3>1, <3>3 DEF CallRecord
      <3> QED
        BY <3>2, <3>3, <3>4, NoCallIsNone
    <2>2. CASE ~BatchReads
      BY <2>2 DEF Change, List, AskCached, vars
    <2> QED
      BY <2>1, <2>2
  <1>2. ASSUME open, NEW g \in Group
        PROVE  Asked(g) \subseteq Asked(g)'
    <2>1. CASE \E n \in Name, h \in Group : AskCached(n, h)
      <3>1. PICK n \in Name, h \in Group : AskCached(n, h)
        BY <2>1
      <3>2. given' = [given EXCEPT ![n][h] = cache[h].blocks[n]] /\ cache[h].blocks[n] # None
        BY <3>1 DEF AskCached
      <3>3. \A m \in Name : given[m][g] # None => given'[m][g] # None
        BY <3>2 DEF IInv, Typed
      <3> QED
        BY <1>1, <3>3 DEF Asked
    <2>2. CASE given' = given
      BY <1>1, <2>2 DEF Asked
    <2> QED
      BY <2>1, <2>2 DEF Change, List, BatchReads, vars
  <1>3. \A g : Wasted(g)' = Wasted(g)
    BY <1>1 DEF Wasted
  <1>4. ASSUME open, NEW g \in Group
        PROVE  calls'[g] <= Cardinality(Asked(g)') + Wasted(g)'
    <2>1. Wasted(g) <= Wasted(g)'
      BY <1>3 DEF Wasted
    <2> QED
      BY <1>1, <1>2, <1>4, <2>1, CountKept
  <1> QED
    BY <1>1, <1>4 DEF Counted

\* Every variable has its type, a view makes at most one call more than it has asked
\* for units (systemd.rs:501-503), and nothing is left of a view that was closed.
THEOREM ViewTyped == Spec => []ViewTypeOK
  <1>1. Init => IInv /\ Counted
    <2>1. ASSUME Init PROVE Counted
      BY <2>1 DEF Init, Counted, NoCalls
    <2> QED
      BY <2>1, InitHolds
  <1>2. IInv /\ Counted /\ [Next]_vars => IInv' /\ Counted'
    <2> SUFFICES ASSUME IInv, Counted, [Next]_vars
                 PROVE  IInv' /\ Counted'
      OBVIOUS
    <2>1. IInv'
      BY StepsImplement
    <2>2. Counted'
      BY ViewCounts, AskCounts, MissCounts, ReplyCounts, QuietCounts DEF Next, Ask
    <2> QED
      BY <2>1, <2>2
  <1>3. IInv /\ Counted => ViewTypeOK
    <2> SUFFICES ASSUME IInv, Counted
                 PROVE  ViewTypeOK
      OBVIOUS
    <2>1. OneCallWasted
      <3>1. \A g \in Group : calls[g] \in Nat /\ Wasted(g) \in {0, 1}
        BY DEF Counted, Wasted
      <3> QED
        BY <3>1, AskedFinite DEF Counted, OneCallWasted
    <2> QED
      BY <2>1 DEF IInv, Typed, Counted, ViewTypeOK, CallRecord
  <1> QED
    BY <1>1, <1>2, <1>3, PTL DEF Spec
=============================================================================
