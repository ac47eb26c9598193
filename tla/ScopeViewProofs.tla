-------------------------- MODULE ScopeViewProofs --------------------------
(***************************************************************************)
(* Proofs about ScopeView, for any operations, drivers, files, manifests   *)
(* and answers of systemd.                                                 *)
(*                                                                         *)
(* The argument for ShownWasSo: take what the reader has of an operation   *)
(* so far and complete it with what the files say now (Seen).  Whatever    *)
(* that says -- a session, a current blocker, a current checkpoint -- was  *)
(* so at one moment of the reading.  A driver's write keeps this, because  *)
(* it writes a record that depends on another one only when it fits that   *)
(* other one (Honest) and the reader reads the other one first.            *)
(*                                                                         *)
(* The argument for DerivedAsDocumented: what a call of the depth-first    *)
(* search answers, and what it remembers, is the documented state of what  *)
(* it was asked about, by the number of levels that are left to it; that   *)
(* is proved by a least number of levels for which it would fail.          *)
(***************************************************************************)
EXTENDS ScopeView, FiniteSetTheorems, WellFoundedInduction, TLAPS

Steps == {"idle", "list", "lifecycle", "observation", "processed", "checkpoint", "blocker", "session", "show"}
Joining == {"observation", "processed", "checkpoint", "blocker", "session"}

Dirs == Dir \cup {None} \cup {Discover(cwd) : cwd \in Dir}

Readers == [step : Steps, dir : Dirs, at : Op \cup {None},
            answers : Answer \cup {<<>>}, partial : FilesOf \cup {None}]

\* What will have been read if nothing more is written: p, as far as it has been
\* read at this step, and f for the rest.
Seen(step, p, f) ==
    [observation |-> IF step = "observation" THEN f.observation ELSE p.observation,
     processed |-> IF step \in {"observation", "processed"} THEN f.processed ELSE p.processed,
     checkpoint |-> IF step \in {"blocker", "session"} THEN p.checkpoint ELSE f.checkpoint,
     blocker |-> IF step = "session" THEN p.blocker ELSE f.blocker,
     session |-> f.session]

\* A record that f has and g has not fits the observation of f.
Honest(o, g, f) ==
    /\ \/ f.processed = g.processed \/ ProcessedBlocks(f)
       \/ f.processed \in Processed /\ f.processed.outcome # "blocked"
    /\ f.blocker = g.blocker \/ f.blocker = None \/ BlockerCurrent(f)
    /\ f.checkpoint = g.checkpoint \/ CheckpointCurrent(f, o \in OutputRequired)

Typed ==
    /\ files \in [Op -> FilesOf] /\ driver \in [Op -> DriverStates]
    /\ held \in [Op -> SUBSET Own]
    /\ reader \in Readers

\* Past its first observation a driver's operation has one.
Observed ==
    \A o \in Op : driver[o] \notin {"idle", "tick", "completed"} => files[o].observation # None

\* Where the reader is.
Placed ==
    /\ DOMAIN got \subseteq Op
    /\ reader.step \in Joining \cup {"lifecycle"} => reader.at \in Op \ DOMAIN got
    /\ reader.step \notin Joining \cup {"lifecycle"} => reader.at = None
    /\ reader.step \in Joining => reader.partial \in FilesOf
    /\ reader.step \in {"idle", "list"} => got = <<>>
    /\ reader.step # "idle" => shown = None

Witnessed ==
    reader.step \in Joining =>
        /\ Facts(reader.at, files[reader.at]) \subseteq held[reader.at]
        /\ Facts(reader.at, Seen(reader.step, reader.partial, files[reader.at])) \subseteq held[reader.at]

JoinedWasSo ==
    \A o \in DOMAIN got : got[o].own \in held[o] \cup {"stale", "neutral"}

\* What the view shows was joined so.
ShownHeld ==
    shown # None => /\ shown.owned \subseteq Op
                    /\ \A o \in shown.owned : shown.join[o].own \in held[o] \cup {"stale", "neutral"}

SInv == Typed /\ Observed /\ Placed /\ Witnessed /\ JoinedWasSo /\ ShownHeld

-----------------------------------------------------------------------------
(* What files say *)

LEMMA FactsAre ==
    ASSUME NEW o, NEW f
    PROVE  /\ Facts(o, f) \subseteq {"running", "blocked", "current"}
           /\ f.session <=> "running" \in Facts(o, f)
           /\ BlockerCurrent(f) <=> "blocked" \in Facts(o, f)
           /\ CheckpointCurrent(f, o \in OutputRequired) <=> "current" \in Facts(o, f)
  BY DEF Facts

\* A state of one operation is stale, neutral or what its files say.
LEMMA OwnIsAFact ==
    ASSUME NEW o, NEW f
    PROVE  OwnState(f, o \in OutputRequired) \in Facts(o, f) \cup {"stale", "neutral"}
  BY FactsAre DEF OwnState

\* Only these fields say anything.
LEMMA SameFacts ==
    ASSUME NEW o, NEW f, NEW g,
           f.session = g.session, f.observation = g.observation, f.processed = g.processed,
           f.checkpoint = g.checkpoint, f.blocker = g.blocker
    PROVE  Facts(o, f) = Facts(o, g)
  BY DEF Facts, BlockerCurrent, ProcessedBlocks, CheckpointCurrent

\* What is seen after an honest write was so before it, or is so.
LEMMA SeenStill ==
    ASSUME NEW o, NEW step \in Joining, NEW p \in FilesOf, NEW f \in FilesOf, NEW g \in FilesOf,
           Honest(o, g, f)
    PROVE  Facts(o, Seen(step, p, f)) \subseteq Facts(o, f) \cup Facts(o, Seen(step, p, g))
  <1> DEFINE sf == Seen(step, p, f)
             sg == Seen(step, p, g)
  <1>1. CASE step = "observation"
    <2>1. Facts(o, sf) = Facts(o, f)
      BY <1>1, SameFacts DEF Seen
    <2> QED
      BY <2>1
  <1>2. CASE step # "observation"
    <2>1. sf.session => f.session
      BY DEF Seen
    <2>2. CheckpointCurrent(sf, o \in OutputRequired) =>
              CheckpointCurrent(f, o \in OutputRequired) \/ CheckpointCurrent(sg, o \in OutputRequired)
      BY <1>2 DEF Seen, Honest, CheckpointCurrent
    <2>3. ProcessedBlocks(sf) => ProcessedBlocks(f) \/ ProcessedBlocks(sg)
      BY <1>2 DEF Seen, Honest, ProcessedBlocks
    <2>4. BlockerCurrent(sf) => BlockerCurrent(f) \/ BlockerCurrent(sg)
      BY <1>2, <2>3 DEF Seen, Honest, BlockerCurrent
    <2> HIDE DEF sf, sg
    <2>5. Facts(o, sf) \subseteq Facts(o, f) \cup Facts(o, sg)
      BY <2>1, <2>2, <2>4, FactsAre
    <2> QED
      BY <2>5 DEF sf, sg
  <1> QED
    BY <1>1, <1>2

-----------------------------------------------------------------------------
(* The drivers *)

LEMMA Places ==
    ASSUME SInv, NEW o \in Op
    PROVE  Reading(o) <=> reader.step \in Joining \cup {"lifecycle"} /\ reader.at = o
  BY NoneAssumption DEF SInv, Placed, Typed, Readers, Reading, Steps, Joining

\* An honest write, whoever makes it.
LEMMA WriteKeeps ==
    ASSUME SInv, NEW o \in Op, NEW f \in FilesOf, Write(o, f), Honest(o, files[o], f),
           driver' \in [Op -> DriverStates], Observed'
    PROVE  SInv'
  <1> USE DEF SInv
  <1>1. /\ files' = [files EXCEPT ![o] = f] /\ UNCHANGED <<reader, got, shown>>
        /\ held' = IF Reading(o) THEN [held EXCEPT ![o] = @ \cup Facts(o, f)] ELSE held
    BY DEF Write
  <1>2. \A q \in Op : files'[q] = IF q = o THEN f ELSE files[q]
    BY <1>1 DEF Typed
  <1>3. Facts(o, f) \subseteq Own
    BY FactsAre DEF Own
  <1>4. held' \in [Op -> SUBSET Own] /\ \A q \in Op : held[q] \subseteq held'[q]
    BY <1>1, <1>3 DEF Typed
  <1>5. Reading(o) => held'[o] = held[o] \cup Facts(o, f)
    BY <1>1 DEF Typed
  <1>6. Typed'
    BY <1>1, <1>2, <1>4 DEF Typed
  <1>7. Placed'
    BY <1>1 DEF Placed
  <1>8. Witnessed'
    <2>1. SUFFICES ASSUME reader.step \in Joining
                   PROVE  /\ Facts(reader.at, files'[reader.at]) \subseteq held'[reader.at]
                          /\ Facts(reader.at, Seen(reader.step, reader.partial, files'[reader.at]))
                                \subseteq held'[reader.at]
      BY <1>1 DEF Witnessed
    <2>2. reader.at \in Op /\ reader.partial \in FilesOf
      BY <2>1 DEF Placed
    <2>3. CASE reader.at # o
      BY <1>2, <1>4, <2>1, <2>2, <2>3 DEF Witnessed
    <2>4. CASE reader.at = o
      <3>1. held'[o] = held[o] \cup Facts(o, f)
        BY <1>5, <2>1, <2>4, Places
      <3>2. files[o] \in FilesOf
        BY DEF Typed
      <3>3. Facts(o, Seen(reader.step, reader.partial, f)) \subseteq
                Facts(o, f) \cup Facts(o, Seen(reader.step, reader.partial, files[o]))
        BY <2>1, <2>2, <3>2, SeenStill
      <3> QED
        BY <1>2, <2>1, <2>4, <3>1, <3>3 DEF Witnessed
    <2> QED
      BY <2>3, <2>4
  <1>9. JoinedWasSo'
    BY <1>1, <1>4 DEF JoinedWasSo, Placed
  <1>10. ShownHeld'
    BY <1>1, <1>4 DEF ShownHeld
  <1> QED
    BY <1>6, <1>7, <1>8, <1>9, <1>10

LEMMA DriveKeeps ==
    ASSUME SInv, NEW o \in Op, NEW from, NEW to \in DriverStates, NEW f \in FilesOf,
           Drive(o, from, to, f), Honest(o, files[o], f),
           to \notin {"idle", "tick", "completed"} => f.observation # None
    PROVE  SInv'
  <1> USE DEF SInv
  <1>1. /\ driver' = [driver EXCEPT ![o] = to] /\ Write(o, f)
        /\ files' = [files EXCEPT ![o] = f]
    BY DEF Drive, Write
  <1>2. \A q \in Op : /\ driver'[q] = IF q = o THEN to ELSE driver[q]
                      /\ files'[q] = IF q = o THEN f ELSE files[q]
    BY <1>1 DEF Typed
  <1>3. driver' \in [Op -> DriverStates]
    BY <1>1 DEF Typed
  <1>4. Observed'
    BY <1>2 DEF Observed
  <1> QED
    BY <1>1, <1>3, <1>4, WriteKeeps

LEMMA Worlds ==
    \A w \in World : w.input \in Input /\ w.generation \in Generation
  BY DEF Input, Generation

LEMMA DriversKeep ==
    ASSUME SInv, NEW o \in Op, DriverStep(o)
    PROVE  SInv'
  <1> USE DEF SInv
  <1>0. PICK g \in FilesOf : g = files[o]
    BY DEF Typed
  <1>1. driver[o] \notin {"idle", "tick", "completed"} =>
            /\ g.observation \in World
            /\ g.observation.input \in Input /\ g.observation.generation \in Generation
    BY <1>0, Worlds DEF Observed, FilesOf
  <1>2. ASSUME NEW f \in FilesOf, f.observation = g.observation, f.processed = g.processed,
               f.checkpoint = g.checkpoint, f.blocker \in {g.blocker, None}
        PROVE  Honest(o, g, f)
    BY <1>2 DEF Honest
  <1>3. CASE StartTick(o)
    <2>1. Honest(o, g, g)
      BY <1>2
    <2> QED
      BY <1>0, <1>3, <2>1, DriveKeeps DEF StartTick, DriverStates
  <1>4. CASE RecoverClearsBlocker(o)
    <2> DEFINE f == [g EXCEPT !.blocker = None]
    <2>1. f \in FilesOf /\ Honest(o, g, f)
      BY <1>2 DEF FilesOf
    <2>2. Drive(o, "tick", "tick", f)
      BY <1>0, <1>4 DEF RecoverClearsBlocker
    <2> HIDE DEF f
    <2> QED
      BY <1>0, <2>1, <2>2, DriveKeeps DEF DriverStates
  <1>5. CASE Observe(o)
    <2>1. PICK w \in World : Drive(o, "tick", "observed", [g EXCEPT !.observation = w])
      BY <1>0, <1>5 DEF Observe
    <2> DEFINE f == [g EXCEPT !.observation = w]
    <2>2. f \in FilesOf /\ Honest(o, g, f) /\ f.observation = w
      BY DEF FilesOf, Honest
    <2> HIDE DEF f
    <2>3. w # None
      BY NoneAssumption
    <2> QED
      BY <1>0, <2>1, <2>2, <2>3, DriveKeeps DEF DriverStates, f
  <1>6. CASE EndTick(o)
    <2>1. Honest(o, g, g)
      BY <1>2
    <2> QED
      BY <1>0, <1>6, <2>1, DriveKeeps DEF EndTick, DriverStates
  <1>7. CASE StartIteration(o)
    <2> DEFINE f == [g EXCEPT !.session = TRUE]
    <2>1. f \in FilesOf /\ Honest(o, g, f) /\ f.observation = g.observation
      BY <1>2 DEF FilesOf
    <2>2. Drive(o, "observed", "pass", f) /\ driver[o] = "observed"
      BY <1>0, <1>7 DEF StartIteration, Drive
    <2> HIDE DEF f
    <2> QED
      BY <1>0, <1>1, <2>1, <2>2, NoneAssumption, DriveKeeps DEF DriverStates
  <1>8. CASE FinishIteration(o)
    <2> DEFINE f == [g EXCEPT !.session = FALSE]
    <2>1. f \in FilesOf /\ Honest(o, g, f) /\ f.observation = g.observation
      BY <1>2 DEF FilesOf
    <2>2. Drive(o, "pass", "finished", f) /\ driver[o] = "pass"
      BY <1>0, <1>8 DEF FinishIteration, Drive
    <2> HIDE DEF f
    <2> QED
      BY <1>0, <1>1, <2>1, <2>2, NoneAssumption, DriveKeeps DEF DriverStates
  <1>9. CASE ObserveAgain(o)
    <2>1. PICK w \in World : Drive(o, "finished", "judged", [g EXCEPT !.observation = w])
      BY <1>0, <1>9 DEF ObserveAgain
    <2> DEFINE f == [g EXCEPT !.observation = w]
    <2>2. f \in FilesOf /\ Honest(o, g, f) /\ f.observation = w
      BY DEF FilesOf, Honest
    <2> HIDE DEF f
    <2>3. w # None
      BY NoneAssumption
    <2> QED
      BY <1>0, <2>1, <2>2, <2>3, DriveKeeps DEF DriverStates, f
  <1>10. CASE RecordBlocker(o)
    <2> DEFINE b == [input |-> g.observation.input]
               f == [g EXCEPT !.blocker = b]
    <2>1. PICK from \in {"finished", "conceded"} : Drive(o, from, "idle", f)
      BY <1>0, <1>10 DEF RecordBlocker
    <2>2. g.observation \in World /\ g.observation.input \in Input
      BY <1>1, <2>1 DEF Drive
    <2>3. b \in Blocker /\ b.input = g.observation.input
      BY <2>2 DEF Blocker
    <2> HIDE DEF b
    <2>4. f \in FilesOf /\ f.blocker = b /\ f.observation = g.observation
          /\ f.processed = g.processed /\ f.checkpoint = g.checkpoint
      BY <2>3 DEF FilesOf
    <2> HIDE DEF f
    <2>5. Honest(o, g, f)
      BY <2>2, <2>3, <2>4, NoneAssumption DEF Honest, BlockerCurrent
    <2> QED
      BY <1>0, <2>1, <2>4, <2>5, DriveKeeps DEF DriverStates
  <1>11. CASE MarkReady(o)
    <2> DEFINE r == [input |-> g.observation.input, outcome |-> "ready"]
               f == [g EXCEPT !.processed = r]
    <2>1. Drive(o, "judged", "certify", f)
      BY <1>0, <1>11 DEF MarkReady
    <2>2. g.observation \in World /\ g.observation.input \in Input
      BY <1>1, <2>1 DEF Drive
    <2>3. r \in Processed /\ r.outcome = "ready"
      BY <2>2 DEF Processed
    <2> HIDE DEF r
    <2>4. f \in FilesOf /\ f.processed = r /\ f.observation = g.observation
          /\ f.blocker = g.blocker /\ f.checkpoint = g.checkpoint
      BY <2>3 DEF FilesOf
    <2> HIDE DEF f
    <2>5. Honest(o, g, f)
      BY <2>3, <2>4 DEF Honest
    <2> QED
      BY <1>0, <2>1, <2>2, <2>4, <2>5, NoneAssumption, DriveKeeps DEF DriverStates
  <1>12. CASE MarkBlocked(o)
    <2> DEFINE r == [input |-> g.observation.input, outcome |-> "blocked"]
               f == [g EXCEPT !.processed = r]
    <2>1. Drive(o, "judged", "conceded", f)
      BY <1>0, <1>12 DEF MarkBlocked
    <2>2. g.observation \in World /\ g.observation.input \in Input
      BY <1>1, <2>1 DEF Drive
    <2>3. r \in Processed /\ r = [input |-> g.observation.input, outcome |-> "blocked"]
      BY <2>2 DEF Processed
    <2> HIDE DEF r
    <2>4. f \in FilesOf /\ f.processed = r /\ f.observation = g.observation
          /\ f.blocker = g.blocker /\ f.checkpoint = g.checkpoint
      BY <2>3 DEF FilesOf
    <2> HIDE DEF f
    <2>5. Honest(o, g, f)
      BY <2>2, <2>3, <2>4, NoneAssumption DEF Honest, ProcessedBlocks
    <2> QED
      BY <1>0, <2>1, <2>2, <2>4, <2>5, NoneAssumption, DriveKeeps DEF DriverStates
  <1>13. CASE WriteCheckpoint(o)
    <2> DEFINE k == [input |-> g.observation.input, generation |-> g.observation.generation,
                     output |-> TRUE]
               f == [g EXCEPT !.checkpoint = k]
    <2>1. Drive(o, "certify", "unblock", f)
      BY <1>0, <1>13 DEF WriteCheckpoint
    <2>2. g.observation \in World /\ g.observation.input \in Input
          /\ g.observation.generation \in Generation
      BY <1>1, <2>1 DEF Drive
    <2>3. k \in Checkpoint /\ k.input = g.observation.input
          /\ k.generation = g.observation.generation /\ k.output
      BY <2>2 DEF Checkpoint
    <2> HIDE DEF k
    <2>4. f \in FilesOf /\ f.checkpoint = k /\ f.observation = g.observation
          /\ f.blocker = g.blocker /\ f.processed = g.processed
      BY <2>3 DEF FilesOf
    <2> HIDE DEF f
    <2>5. Honest(o, g, f)
      BY <2>2, <2>3, <2>4, NoneAssumption DEF Honest, CheckpointCurrent
    <2> QED
      BY <1>0, <2>1, <2>2, <2>4, <2>5, NoneAssumption, DriveKeeps DEF DriverStates
  <1>14. CASE CheckpointDropsBlocker(o)
    <2> DEFINE f == [g EXCEPT !.blocker = None]
    <2>1. f \in FilesOf /\ Honest(o, g, f)
      BY <1>2 DEF FilesOf
    <2>2. Drive(o, "unblock", "idle", f)
      BY <1>0, <1>14 DEF CheckpointDropsBlocker
    <2> HIDE DEF f
    <2> QED
      BY <1>0, <2>1, <2>2, DriveKeeps DEF DriverStates
  <1>15. CASE Complete(o)
    <2> DEFINE f == [g EXCEPT !.lifecycle = "completed"]
    <2>1. f \in FilesOf /\ Honest(o, g, f)
      BY <1>2 DEF FilesOf, Lifecycle
    <2>2. Drive(o, "idle", "completed", f)
      BY <1>0, <1>15 DEF Complete
    <2> HIDE DEF f
    <2> QED
      BY <1>0, <2>1, <2>2, DriveKeeps DEF DriverStates
  <1> QED
    BY <1>3, <1>4, <1>5, <1>6, <1>7, <1>8, <1>9, <1>10, <1>11, <1>12, <1>13, <1>14, <1>15
       DEF DriverStep

LEMMA ClearsKeep ==
    ASSUME SInv, NEW o \in Op, ClearBlocker(o)
    PROVE  SInv'
  <1> USE DEF SInv
  <1>1. PICK g \in FilesOf : g = files[o]
    BY DEF Typed
  <1> DEFINE f == [g EXCEPT !.blocker = None]
  <1>2. f \in FilesOf /\ Honest(o, g, f) /\ f.observation = g.observation
    BY DEF FilesOf, Honest
  <1>3. Write(o, f) /\ UNCHANGED driver
    BY <1>1 DEF ClearBlocker
  <1> HIDE DEF f
  <1>4. \A q \in Op : files'[q] = IF q = o THEN f ELSE files[q]
    BY <1>3 DEF Write, Typed
  <1>5. Observed'
    BY <1>1, <1>2, <1>3, <1>4 DEF Observed
  <1>6. driver' \in [Op -> DriverStates]
    BY <1>3 DEF Typed
  <1> QED
    BY <1>1, <1>2, <1>3, <1>5, <1>6, WriteKeeps

-----------------------------------------------------------------------------
(* The reader *)

LEMMA StartKeeps ==
    ASSUME SInv, Start
    PROVE  SInv'
  <1> USE DEF SInv
  <1>1. reader.step = "idle" /\ shown' = None /\ held' = [o \in Op |-> {}]
        /\ UNCHANGED <<files, driver, got>>
    BY DEF Start
  <1>2. PICK explicit \in Dir \cup {None}, env \in Dir \cup {None}, cwd \in Dir :
            LET d == Resolve(explicit, env, cwd)
            IN  reader' = IF d = None THEN reader ELSE [reader EXCEPT !.step = "list", !.dir = d]
    BY DEF Start
  <1>3. Resolve(explicit, env, cwd) \in Dirs
    BY DEF Resolve, Dirs
  <1>4. /\ reader' \in Readers /\ reader'.step \in {"idle", "list"} /\ reader'.at = reader.at
    BY <1>1, <1>2, <1>3 DEF Typed, Readers, Steps
  <1>5. Typed' /\ Observed'
    BY <1>1, <1>4 DEF Typed, Observed
  <1>6. Placed' /\ Witnessed'
    BY <1>1, <1>4 DEF Placed, Witnessed, Joining
  <1>7. JoinedWasSo'
    BY <1>1 DEF Placed, JoinedWasSo
  <1>8. ShownHeld'
    BY <1>1 DEF ShownHeld
  <1> QED
    BY <1>5, <1>6, <1>7, <1>8

LEMMA GoesOn ==
    ASSUME NEW r \in Readers, NEW left \in SUBSET Op, GoOnTo(r, left)
    PROVE  /\ reader' \in Readers /\ reader'.step \in {"show", "lifecycle"}
           /\ reader'.step = "show" => reader'.at = None
           /\ reader'.step = "lifecycle" => reader'.at \in left
           /\ reader'.answers = r.answers /\ reader'.dir = r.dir
  <1>1. FirstOf(left) \subseteq left
    BY DEF FirstOf
  <1> QED
    BY <1>1 DEF GoOnTo, Readers, Steps

\* A step of the reader between two operations.
LEMMA BetweenKeeps ==
    ASSUME SInv, UNCHANGED <<files, driver, shown, held>>, reader' \in Readers, shown = None,
           reader'.step \in {"show", "lifecycle"},
           reader'.step = "show" => reader'.at = None,
           reader'.step = "lifecycle" => reader'.at \in Op \ DOMAIN got',
           DOMAIN got' \subseteq Op, JoinedWasSo'
    PROVE  SInv'
  <1> USE DEF SInv
  <1>1. Typed' /\ Observed'
    BY DEF Typed, Observed
  <1>2. Placed' /\ Witnessed'
    BY DEF Placed, Witnessed, Joining
  <1>3. ShownHeld'
    BY DEF ShownHeld
  <1> QED
    BY <1>1, <1>2, <1>3

LEMMA ListKeeps ==
    ASSUME SInv, List
    PROVE  SInv'
  <1> USE DEF SInv
  <1>1. reader.step = "list" /\ got = <<>> /\ shown = None /\ reader \in Readers
        /\ UNCHANGED <<files, driver, got, shown, held>>
    BY DEF List, Placed, Typed
  <1>2. PICK answers \in Answer :
            GoOnTo([reader EXCEPT !.answers = answers], Owned([reader EXCEPT !.answers = answers]))
    BY DEF List
  <1>3. PICK r \in Readers : r = [reader EXCEPT !.answers = answers]
    BY <1>1 DEF Readers
  <1>4. Owned(r) \in SUBSET Op
    BY DEF Owned
  <1>5. GoOnTo(r, Owned(r))
    BY <1>2, <1>3
  <1>6. DOMAIN got = {}
    BY <1>1
  <1>7. JoinedWasSo'
    BY <1>1, <1>6 DEF JoinedWasSo
  <1> QED
    BY <1>1, <1>4, <1>5, <1>6, <1>7, GoesOn, BetweenKeeps

LEMMA LifecycleKeeps ==
    ASSUME SInv, ReadLifecycle
    PROVE  SInv'
  <1> USE DEF SInv
  <1>1. PICK o \in Op : o = reader.at /\ o \notin DOMAIN got
    BY DEF ReadLifecycle, ReadFile, Placed
  <1>2. PICK g \in FilesOf : g = files[o]
    BY DEF Typed
  <1>3. /\ reader.step = "lifecycle" /\ UNCHANGED <<files, driver, got, shown>>
        /\ reader' = [reader EXCEPT !.step = "observation", !.partial = Unread(g)]
        /\ held' = [held EXCEPT ![o] = Facts(o, g)]
    BY <1>1, <1>2 DEF ReadLifecycle, ReadFile
  <1>4. Unread(g) \in FilesOf
    BY DEF Unread, FilesOf
  <1>5. /\ reader' \in Readers /\ reader'.step = "observation" /\ reader'.at = o
        /\ reader'.partial = Unread(g)
    BY <1>1, <1>3, <1>4 DEF Typed, Readers, Steps
  <1>6. Facts(o, g) \subseteq Own
    BY FactsAre DEF Own
  <1>7. held' \in [Op -> SUBSET Own] /\ held'[o] = Facts(o, g)
        /\ \A q \in Op \ {o} : held'[q] = held[q]
    BY <1>3, <1>6 DEF Typed
  <1>8. Typed' /\ Observed'
    BY <1>3, <1>5, <1>7 DEF Typed, Observed
  <1>9. Placed'
    BY <1>1, <1>3, <1>4, <1>5 DEF Placed, Joining
  <1>10. Facts(o, Seen("observation", Unread(g), g)) = Facts(o, g)
    BY SameFacts DEF Seen
  <1>11. Witnessed'
    BY <1>2, <1>3, <1>5, <1>7, <1>10 DEF Witnessed
  <1>12. JoinedWasSo'
    BY <1>1, <1>3, <1>7 DEF JoinedWasSo, Placed
  <1>13. ShownHeld'
    BY <1>3 DEF ShownHeld, Placed
  <1> QED
    BY <1>8, <1>9, <1>11, <1>12, <1>13

\* A file is read: what was seen of it so far is now had.
LEMMA ReadKeeps ==
    ASSUME SInv, NEW step \in Joining, NEW next \in Joining, NEW p \in FilesOf, NEW g \in FilesOf,
           ReadFile(step, next, p), UNCHANGED held, g = files[reader.at],
           Facts(reader.at, Seen(next, p, g)) = Facts(reader.at, Seen(step, reader.partial, g))
    PROVE  SInv'
  <1> USE DEF SInv
  <1>1. /\ reader.step = step /\ UNCHANGED <<files, driver, got, shown, held>>
        /\ reader' = [reader EXCEPT !.step = next, !.partial = p]
    BY DEF ReadFile
  <1>2. PICK o \in Op : o = reader.at
    BY <1>1 DEF Placed
  <1>3. reader' \in Readers /\ reader'.step = next /\ reader'.at = o /\ reader'.partial = p
    BY <1>1, <1>2 DEF Typed, Readers, Steps, Joining
  <1>4. Typed' /\ Observed'
    BY <1>1, <1>3 DEF Typed, Observed
  <1>5. Placed'
    BY <1>1, <1>2, <1>3 DEF Placed, Joining
  <1>6. Witnessed'
    BY <1>1, <1>2, <1>3 DEF Witnessed
  <1>7. JoinedWasSo' /\ ShownHeld'
    BY <1>1 DEF JoinedWasSo, ShownHeld
  <1> QED
    BY <1>4, <1>5, <1>6, <1>7

LEMMA ReadsKeep ==
    ASSUME SInv, ReadObservation \/ ReadProcessed \/ ReadCheckpoint \/ ReadBlocker
    PROVE  SInv'
  <1> USE DEF SInv
  <1>1. PICK o \in Op, p \in FilesOf, g \in FilesOf :
            o = reader.at /\ p = reader.partial /\ g = files[reader.at]
    BY DEF ReadObservation, ReadProcessed, ReadCheckpoint, ReadBlocker, ReadFile, Placed, Typed, Joining
  <1>2. CASE ReadObservation
    <2> DEFINE f == [p EXCEPT !.observation = g.observation]
    <2>1. f \in FilesOf
      BY DEF FilesOf
    <2>2. Facts(o, Seen("processed", f, g)) = Facts(o, Seen("observation", p, g))
      BY SameFacts DEF Seen, FilesOf
    <2>3. ReadFile("observation", "processed", f) /\ UNCHANGED held
      BY <1>1, <1>2 DEF ReadObservation
    <2> HIDE DEF f
    <2> QED
      BY <1>1, <2>1, <2>2, <2>3, ReadKeeps DEF Joining
  <1>3. CASE ReadProcessed
    <2> DEFINE f == [p EXCEPT !.processed = g.processed]
    <2>1. f \in FilesOf
      BY DEF FilesOf
    <2>2. Facts(o, Seen("checkpoint", f, g)) = Facts(o, Seen("processed", p, g))
      BY SameFacts DEF Seen, FilesOf
    <2>3. ReadFile("processed", "checkpoint", f) /\ UNCHANGED held
      BY <1>1, <1>3 DEF ReadProcessed
    <2> HIDE DEF f
    <2> QED
      BY <1>1, <2>1, <2>2, <2>3, ReadKeeps DEF Joining
  <1>4. CASE ReadCheckpoint
    <2> DEFINE f == [p EXCEPT !.checkpoint = g.checkpoint]
    <2>1. f \in FilesOf
      BY DEF FilesOf
    <2>2. Facts(o, Seen("blocker", f, g)) = Facts(o, Seen("checkpoint", p, g))
      BY SameFacts DEF Seen, FilesOf
    <2>3. ReadFile("checkpoint", "blocker", f) /\ UNCHANGED held
      BY <1>1, <1>4 DEF ReadCheckpoint
    <2> HIDE DEF f
    <2> QED
      BY <1>1, <2>1, <2>2, <2>3, ReadKeeps DEF Joining
  <1>5. CASE ReadBlocker
    <2> DEFINE f == [p EXCEPT !.blocker = g.blocker]
    <2>1. f \in FilesOf
      BY DEF FilesOf
    <2>2. Facts(o, Seen("session", f, g)) = Facts(o, Seen("blocker", p, g))
      BY SameFacts DEF Seen, FilesOf
    <2>3. ReadFile("blocker", "session", f) /\ UNCHANGED held
      BY <1>1, <1>5 DEF ReadBlocker
    <2> HIDE DEF f
    <2> QED
      BY <1>1, <2>1, <2>2, <2>3, ReadKeeps DEF Joining
  <1> QED
    BY <1>2, <1>3, <1>4, <1>5

LEMMA JoinKeeps ==
    ASSUME SInv, JoinOperator
    PROVE  SInv'
  <1> USE DEF SInv
  <1>1. PICK o \in Op, p \in FilesOf, g \in FilesOf :
            o = reader.at /\ p = reader.partial /\ g = files[reader.at]
    BY DEF JoinOperator, Placed, Typed, Joining
  <1>2. PICK f : f = [p EXCEPT !.session = g.session]
    OBVIOUS
  <1>3. f \in FilesOf
    BY <1>2 DEF FilesOf
  <1>4. /\ reader.step = "session" /\ shown = None
        /\ UNCHANGED <<files, driver, shown, held>>
        /\ got' = [q \in DOMAIN got \cup {o} |-> IF q = o THEN Joined(o, f) ELSE got[q]]
        /\ GoOnTo(reader, Owned(reader) \ DOMAIN got')
    BY <1>1, <1>2 DEF JoinOperator, Placed
  <1>5. Facts(o, f) = Facts(o, Seen("session", p, g))
    BY <1>2, SameFacts DEF Seen, FilesOf
  <1>6. Facts(o, f) \subseteq held[o]
    BY <1>1, <1>4, <1>5 DEF Witnessed, Joining
  <1>7. PICK j : j = Joined(o, f)
    OBVIOUS
  <1>8. j.own \in held[o] \cup {"stale", "neutral"}
    BY <1>6, <1>7, OwnIsAFact DEF Joined
  <1>9. /\ DOMAIN got' = DOMAIN got \cup {o}
        /\ got'[o] = j
        /\ \A q \in DOMAIN got : q # o => got'[q] = got[q]
    BY <1>4, <1>7
  <1>10. JoinedWasSo'
    BY <1>4, <1>8, <1>9 DEF JoinedWasSo
  <1>11. Owned(reader) \ DOMAIN got' \in SUBSET Op /\ reader \in Readers
    BY DEF Owned, Typed
  <1>12. DOMAIN got' \subseteq Op
    BY <1>9 DEF Placed
  <1> QED
    BY <1>4, <1>10, <1>11, <1>12, GoesOn, BetweenKeeps

LEMMA ShowKeeps ==
    ASSUME SInv, Show
    PROVE  SInv'
  <1> USE DEF SInv
  <1>1. /\ reader.step = "show" /\ shown' = Aggregate(Manifest[reader.dir])
        /\ reader' = NoReader /\ got' = <<>> /\ UNCHANGED <<files, driver, held>>
    BY DEF Show
  <1>2. NoReader \in Readers /\ NoReader.step = "idle" /\ NoReader.at = None
    BY DEF NoReader, Readers, Steps, Dirs
  <1>3. shown'.owned = DOMAIN got /\ shown'.join = got
    BY <1>1 DEF Aggregate
  <1>4. DOMAIN got' = {}
    BY <1>1
  <1>5. Typed' /\ Observed' /\ Witnessed'
    BY <1>1, <1>2 DEF Typed, Observed, Witnessed, Joining
  <1>6. Placed'
    BY <1>1, <1>2, <1>4 DEF Placed, Joining
  <1>7. JoinedWasSo'
    BY <1>4 DEF JoinedWasSo
  <1>8. ShownHeld'
    BY <1>1, <1>3 DEF ShownHeld, JoinedWasSo, Placed
  <1> QED
    BY <1>5, <1>6, <1>7, <1>8

-----------------------------------------------------------------------------
(* The theorems *)

LEMMA InitHolds ==
    ASSUME Init
    PROVE  SInv
  <1>1. NoReader \in Readers /\ NoReader.step = "idle" /\ NoReader.at = None
    BY DEF NoReader, Readers, Steps, Dirs
  <1>2. files \in [Op -> FilesOf]
    BY ScopeAssumption DEF Init
  <1>3. Typed /\ Observed /\ Witnessed
    BY <1>1, <1>2 DEF Init, Typed, Observed, Witnessed, Joining, DriverStates
  <1>4. DOMAIN got = {}
    BY DEF Init
  <1>5. Placed /\ JoinedWasSo /\ ShownHeld
    BY <1>1, <1>4 DEF Init, Placed, JoinedWasSo, ShownHeld, Joining
  <1> QED
    BY <1>3, <1>5 DEF SInv

LEMMA StepKeeps ==
    ASSUME SInv, [Next]_vars
    PROVE  SInv'
  <1>1. Driven \subseteq Op /\ Released \subseteq Op
    BY ScopeAssumption
  <1>2. CASE UNCHANGED vars
    BY <1>2 DEF vars, SInv, Typed, Observed, Placed, Witnessed, JoinedWasSo, ShownHeld
  <1>3. CASE ReaderStep
    BY <1>3, StartKeeps, ListKeeps, LifecycleKeeps, ReadsKeep, JoinKeeps, ShowKeeps DEF ReaderStep
  <1>4. CASE \E o \in Driven : DriverStep(o)
    BY <1>1, <1>4, DriversKeep
  <1>5. CASE \E o \in Released : ClearBlocker(o)
    BY <1>1, <1>5, ClearsKeep
  <1> QED
    BY <1>2, <1>3, <1>4, <1>5 DEF Next

\* Whatever the drivers write meanwhile, what scope show says of an operation's
\* own files was so at one moment while it read them.
THEOREM ShownAlwaysWasSo == Spec => []ShownWasSo
  <1>1. Init => SInv
    BY InitHolds
  <1>2. SInv /\ [Next]_vars => SInv'
    BY StepKeeps
  <1>3. SInv => ShownWasSo
    BY DEF SInv, ShownHeld, ShownWasSo
  <1> QED
    BY <1>1, <1>2, <1>3, PTL DEF Spec

-----------------------------------------------------------------------------
(* Nothing is silent *)

LabelCodes == {"deploy_stalled", "canary_pending", "admission_unconsumed"}

Blaming == {"operation_failed", "operation_unknown", "wanted_inactive"}

Labelled == \A o \in DOMAIN got : got[o].labels \subseteq LabelCodes

\* systemd never says of a failed service that its result is success, or nothing.
FailureAnswered(raw) ==
    HasFailed(raw) => Shown(raw, "service").result \notin {None, "success"}

\* The highest of what raises the health.
LEMMA RaisedIs ==
    ASSUME NEW raises \in SUBSET {"unknown", "degraded", "failed"}
    PROVE  /\ Raised(raises) = "healthy" <=> raises = {}
           /\ Raised(raises) \in raises \cup {"healthy"}
  <1> DEFINE Highest(h) == \A g \in raises : Rank[g] <= Rank[h]
  <1>1. Rank.healthy = 0 /\ Rank.unknown = 1 /\ Rank.degraded = 2 /\ Rank.failed = 3
    BY DEF Rank
  <1>2. \E h \in raises \cup {"healthy"} : Highest(h)
    <2>1. CASE raises = {}
      BY <2>1
    <2>2. CASE "failed" \in raises
      <3>1. Highest("failed")
        BY <1>1
      <3> QED
        BY <2>2, <3>1
    <2>3. CASE "failed" \notin raises /\ "degraded" \in raises
      <3>1. Highest("degraded")
        BY <1>1, <2>3
      <3> QED
        BY <2>3, <3>1
    <2>4. CASE raises = {"unknown"}
      <3>1. Highest("unknown")
        BY <1>1, <2>4
      <3> QED
        BY <2>4, <3>1
    <2> QED
      BY <2>1, <2>2, <2>3, <2>4
  <1>3. Raised(raises) \in raises \cup {"healthy"} /\ Highest(Raised(raises))
    BY <1>2 DEF Raised
  <1>4. Highest("healthy") => raises = {}
    BY <1>1
  <1> QED
    BY <1>3, <1>4

LEMMA FailedIs ==
    ASSUME NEW v, ~v.missing, v.result \notin {None, "success"},
           v.state = "failed" \/ v.kind = "oneshot"
    PROVE  UnitHealth(v) = "failed"
  BY DEF UnitHealth, SimpleHealth, OneshotHealth, OtherHealth

LEMMA DownIs ==
    ASSUME NEW v, ~v.missing, v.kind = "simple", v.enabled, v.state # "active"
    PROVE  UnitHealth(v) = "failed"
  BY DEF UnitHealth, SimpleHealth

LEMMA NeverRanIs ==
    ASSUME NEW v, ~v.missing, v.kind = "oneshot", v.result = None, ~v.last
    PROVE  UnitHealth(v) = "unknown"
  BY DEF UnitHealth, OneshotHealth

\* A failed service is in failed health, whatever its operation is.
LEMMA FailureShows ==
    ASSUME NEW raw, FailureAnswered(raw), HasFailed(raw)
    PROVE  UnitHealth(OperationView(raw)) = "failed"
  <1> DEFINE r == OperationView(raw)
             service == Shown(raw, "service")
  <1>1. /\ service # None /\ service.state = "failed" /\ (LastTrigger(raw) \/ service.started)
        /\ service.result \notin {None, "success"}
        /\ Timed(raw) => raw.type # None
    BY DEF HasFailed, FailureAnswered
  <1>2. "service" \in DOMAIN raw.units
    BY <1>1 DEF Shown
  <1>3. ~r.missing /\ r.result = service.result /\ r.kind = Kind(raw)
    BY <1>1, <1>2 DEF OperationView, HonestResult
  <1>4. CASE Timed(raw)
    <2>1. r.kind = "oneshot"
      BY <1>1, <1>3, <1>4 DEF Kind
    <2> QED
      BY <1>1, <1>3, <2>1, FailedIs
  <1>5. CASE ~Timed(raw)
    <2>1. r.state = "failed"
      BY <1>1, <1>2, <1>5 DEF OperationView, Primary
    <2> QED
      BY <1>1, <1>3, <2>1, FailedIs
  <1> QED
    BY <1>4, <1>5

\* So is one that should run on and does not.
LEMMA DownShows ==
    ASSUME NEW raw, IsDown(raw)
    PROVE  UnitHealth(OperationView(raw)) = "failed"
  <1> DEFINE r == OperationView(raw)
             service == Shown(raw, "service")
  <1>1. /\ raw.type = "simple" /\ ~Timed(raw)
        /\ service # None /\ service.enabled /\ service.state # "active"
    BY DEF IsDown
  <1>2. "service" \in DOMAIN raw.units
    BY <1>1 DEF Shown
  <1>3. ~r.missing /\ r.kind = "simple" /\ r.enabled = service.enabled /\ r.state # "active"
    BY <1>1, <1>2, NoneAssumption DEF OperationView, Primary, Kind, Type
  <1>4. r.enabled
    BY <1>1, <1>3
  <1> QED
    BY <1>3, <1>4, DownIs

\* And of one that never ran nothing is known.
LEMMA NeverRanShows ==
    ASSUME NEW raw, NeverRan(raw)
    PROVE  UnitHealth(OperationView(raw)) = "unknown"
  <1> DEFINE r == OperationView(raw)
  <1>1. /\ DOMAIN raw.units # {} /\ Kind(raw) = "oneshot" /\ ~LastTrigger(raw)
        /\ Shown(raw, "service") # None => ~Shown(raw, "service").started
    BY DEF NeverRan
  <1>2. ~r.missing /\ r.kind = "oneshot" /\ ~r.last
    BY <1>1 DEF OperationView
  <1>3. r.result = None
    BY <1>1 DEF OperationView, HonestResult
  <1> QED
    BY <1>2, <1>3, NeverRanIs

\* The view that is computed from here is silent about nothing.
LEMMA AggregateSpeaks ==
    ASSUME NEW m, Labelled, shown' = Aggregate(m), shown' # None,
           \A o \in DOMAIN got : FailureAnswered(reader.answers[o])
    PROVE  NeverSilent'
  <1> DEFINE owned == DOMAIN got
             sick == {o \in m.watch : UnitHealth(Row(o)) = "failed"}
             raises == (UNION {OwnedRaises(m, o) : o \in owned})
                         \cup (IF sick = {} THEN {} ELSE {"degraded"})
             attention == (UNION {{<<o, "owned", code>> : code \in OwnedCodes(m, o)} : o \in owned})
                            \cup {<<o, "watching", "operation_failed">> : o \in sick}
             blamed == {a \in attention : a[3] \in Blaming}
  <1>1. /\ shown'.owned = owned /\ shown'.attention = attention
        /\ shown'.health = IF owned \cup m.watch = {} THEN "unknown" ELSE Raised(raises)
        /\ shown'.answers = reader.answers /\ shown'.join = got /\ shown'.critical = m.critical
    BY DEF Aggregate
  <1>2. \A g : g \in raises <=> \/ \E o \in owned : g \in OwnedRaises(m, o)
                                \/ sick # {} /\ g = "degraded"
    <2> HIDE DEF sick
    <2> QED
      OBVIOUS
  <1>3. \A a : a \in attention <=> \/ \E o \in owned : \E code \in OwnedCodes(m, o) : a = <<o, "owned", code>>
                                   \/ \E o \in sick : a = <<o, "watching", "operation_failed">>
    <2> HIDE DEF sick
    <2> QED
      OBVIOUS
  <1> HIDE DEF raises, attention, sick
  <1>4. \A o \in owned : OwnedRaises(m, o) \in SUBSET {"unknown", "degraded", "failed"}
    BY DEF OwnedRaises
  <1>5. Raised(raises) = "healthy" <=> raises = {}
    <2>1. raises \in SUBSET {"unknown", "degraded", "failed"}
      BY <1>2, <1>4
    <2> QED
      BY <2>1, RaisedIs
  <1>6. ASSUME raises # {}
        PROVE  blamed # {}
    <2>1. CASE sick # {}
      <3>1. PICK o \in sick : TRUE
        BY <2>1
      <3>2. <<o, "watching", "operation_failed">> \in attention
        BY <1>3
      <3> QED
        BY <3>2 DEF Blaming
    <2>2. CASE sick = {}
      <3>1. PICK o \in owned : OwnedRaises(m, o) # {}
        BY <1>2, <1>6, <2>2
      <3>2. PICK code \in OwnedCodes(m, o) : code \in Blaming
        BY <3>1 DEF OwnedRaises, OwnedCodes, Blaming
      <3>3. <<o, "owned", code>> \in attention
        BY <1>3
      <3> QED
        BY <3>2, <3>3
    <2> QED
      BY <2>1, <2>2
  <1>7. ASSUME raises = {}, NEW a \in blamed
        PROVE  a[3] = "wanted_inactive"
    <2>1. sick = {}
      BY <1>2, <1>7
    <2>2. PICK o \in owned : \E code \in OwnedCodes(m, o) : a = <<o, "owned", code>>
      BY <1>3, <1>7, <2>1
    <2>3. PICK code \in OwnedCodes(m, o) : a = <<o, "owned", code>>
      BY <2>2
    <2>4. OwnedRaises(m, o) = {}
      BY <1>2, <1>7
    <2>5. a[3] = code
      BY <2>3
    <2>6. code \in Blaming
      BY <1>7, <2>5
    <2>7. code \notin got[o].labels
      BY <2>6 DEF Labelled, LabelCodes, Blaming
    <2>8. code = "wanted_inactive"
      BY <2>4, <2>6, <2>7 DEF OwnedRaises, OwnedCodes
    <2> QED
      BY <2>5, <2>8
  <1>8. ASSUME NEW o \in owned, ~got[o].completed,
               HasFailed(reader.answers[o]) \/ IsDown(reader.answers[o])
        PROVE  <<o, "owned", "operation_failed">> \in attention
    <2>1. UnitHealth(Row(o)) = "failed"
      BY <1>8, FailureShows, DownShows DEF Row
    <2>2. "operation_failed" \in OwnedCodes(m, o)
      BY <1>8, <2>1 DEF OwnedCodes, HealthOf
    <2> QED
      BY <1>3, <2>2
  <1>9. ASSUME NEW o \in owned, ~got[o].completed, o \in m.critical, NeverRan(reader.answers[o])
        PROVE  raises # {}
    <2>1. UnitHealth(Row(o)) = "unknown"
      BY <1>9, NeverRanShows DEF Row
    <2>2. "unknown" \in OwnedRaises(m, o)
      BY <1>9, <2>1 DEF OwnedRaises, HealthOf
    <2> QED
      BY <1>2, <2>2
  <1> HIDE DEF owned
  <1> QED
    BY <1>1, <1>5, <1>6, <1>7, <1>8, <1>9 DEF NeverSilent, Blaming, owned

LEMMA LabelsAre ==
    ASSUME NEW o, NEW f
    PROVE  Joined(o, f).labels \subseteq LabelCodes
  BY DEF Joined, Labels, LabelCodes

\* What systemd answered in this view.
Answered ==
    reader.step \notin {"idle", "list"} => \A o \in Op : FailureAnswered(reader.answers[o])

Speaking == Labelled /\ Answered /\ NeverSilent

LEMMA ListSpeaks ==
    ASSUME SInv, Speaking, List, \A answers \in Answer : \A o \in Op : FailureAnswered(answers[o])
    PROVE  Speaking'
  <1> USE DEF SInv
  <1>1. PICK answers \in Answer :
            GoOnTo([reader EXCEPT !.answers = answers], Owned([reader EXCEPT !.answers = answers]))
    BY DEF List
  <1>2. PICK r \in Readers : r = [reader EXCEPT !.answers = answers]
    BY DEF Typed, Readers
  <1>3. Owned(r) \in SUBSET Op
    BY DEF Owned
  <1>4. reader'.answers = answers
    BY <1>1, <1>2, <1>3, GoesOn DEF Typed, Readers
  <1> QED
    BY <1>1, <1>4 DEF List, Speaking, Labelled, Answered, NeverSilent

LEMMA JoinSpeaks ==
    ASSUME SInv, Speaking, JoinOperator
    PROVE  Speaking'
  <1> USE DEF SInv
  <1>1. PICK f : got' = [q \in DOMAIN got \cup {reader.at} |->
                            IF q = reader.at THEN Joined(reader.at, f) ELSE got[q]]
    BY DEF JoinOperator
  <1>2. Labelled'
    BY <1>1, LabelsAre DEF Speaking, Labelled
  <1>3. GoOnTo(reader, Owned(reader) \ DOMAIN got') /\ shown' = shown /\ reader.step = "session"
    BY DEF JoinOperator
  <1>4. Owned(reader) \ DOMAIN got' \in SUBSET Op /\ reader \in Readers
    BY DEF Owned, Typed
  <1>5. reader'.answers = reader.answers
    BY <1>3, <1>4, GoesOn
  <1> QED
    BY <1>2, <1>3, <1>5 DEF Speaking, Answered, NeverSilent

LEMMA ReadsSpeak ==
    ASSUME SInv, Speaking,
           ReadLifecycle \/ ReadObservation \/ ReadProcessed \/ ReadCheckpoint \/ ReadBlocker
    PROVE  Speaking'
  <1>1. /\ UNCHANGED <<got, shown>> /\ reader'.answers = reader.answers
        /\ reader.step \notin {"idle", "list"}
    BY DEF SInv, Typed, Readers, ReadLifecycle, ReadObservation, ReadProcessed, ReadCheckpoint,
           ReadBlocker, ReadFile
  <1> QED
    BY <1>1 DEF Speaking, Labelled, Answered, NeverSilent

LEMMA StepSpeaks ==
    ASSUME SInv, Speaking, [Next]_vars, \A answers \in Answer : \A o \in Op : FailureAnswered(answers[o])
    PROVE  Speaking'
  <1> USE DEF Speaking, Labelled, Answered
  <1>1. CASE UNCHANGED <<reader, got, shown>>
    BY <1>1 DEF NeverSilent
  <1>2. CASE Start
    <2>1. shown' = None /\ got' = got /\ (reader' = reader \/ reader'.step = "list")
      BY <1>2 DEF Start, SInv, Typed, Readers
    <2> QED
      BY <2>1 DEF NeverSilent
  <1>3. CASE Show
    <2>1. /\ shown' = Aggregate(Manifest[reader.dir]) /\ reader' = NoReader /\ got' = <<>>
          /\ reader.step = "show"
      BY <1>3 DEF Show
    <2>2. \A o \in DOMAIN got : FailureAnswered(reader.answers[o])
      BY <2>1 DEF SInv, Placed
    <2>3. NeverSilent'
      BY <2>1, <2>2, AggregateSpeaks DEF NeverSilent
    <2> QED
      BY <2>1, <2>3 DEF NoReader
  <1>4. CASE UNCHANGED vars
    BY <1>1, <1>4 DEF vars
  <1>5. CASE \E o \in Op : DriverStep(o) \/ ClearBlocker(o)
    <2>1. UNCHANGED <<reader, got, shown>>
      BY <1>5 DEF DriverStep, ClearBlocker, Drive, Write, StartTick, RecoverClearsBlocker, Observe,
            EndTick, StartIteration, FinishIteration, ObserveAgain, RecordBlocker, MarkReady,
            MarkBlocked, WriteCheckpoint, CheckpointDropsBlocker, Complete
    <2> QED
      BY <1>1, <2>1
  <1> QED
    BY <1>2, <1>3, <1>4, <1>5, ListSpeaks, JoinSpeaks, ReadsSpeak, ScopeAssumption
       DEF Next, ReaderStep

\* For any operations, drivers, files, manifests and answers of systemd: a scope
\* is never unhealthy without an entry of its attention list to blame, never
\* healthy with one or with a critical operation that never ran, and no operation
\* that failed or is down is missing from the list; provided that systemd says of
\* no failed service that its result is success, or nothing.
THEOREM NothingIsSilent ==
    ASSUME \A answers \in Answer : \A o \in Op : FailureAnswered(answers[o])
    PROVE  Spec => []NeverSilent
  <1>1. Init => SInv
    BY InitHolds
  <1>2. Init => Speaking
    BY DEF Init, Speaking, Labelled, Answered, NeverSilent, NoReader
  <1>3. SInv /\ [Next]_vars => SInv'
    BY StepKeeps
  <1>4. SInv /\ Speaking /\ [Next]_vars => Speaking'
    BY StepSpeaks
  <1>5. Speaking => NeverSilent
    BY DEF Speaking
  <1> QED
    BY <1>1, <1>2, <1>3, <1>4, <1>5, PTL DEF Spec

-----------------------------------------------------------------------------
(* Functions by recursion over the numbers up to N: the operations in order, and *)
(* the depth of a search.                                                        *)

\* A set of numbers that is not empty has a least one.
LEMMA Least ==
    ASSUME NEW S \in SUBSET Nat, S # {}
    PROVE  \E m \in S : \A n \in S : m <= n
  <1>1. PICK m \in S : \A n \in S : ~(<<n, m>> \in OpToRel(<, Nat))
    BY NatLessThanWellFounded, WFMin
  <1>2. \A n \in S : ~(n < m)
    BY <1>1 DEF OpToRel
  <1> QED
    BY <1>2

\* 0 is good, and up to N what follows a good number.
GoesUp(N, Good) == 0 \in Good /\ \A k \in 1..N : k - 1 \in Good => k \in Good

LEMMA ByCounting ==
    ASSUME NEW N \in Nat, NEW Good, GoesUp(N, Good)
    PROVE  N \in Good
  <1> DEFINE Bad == {k \in 0..N : k \notin Good}
  <1>1. SUFFICES ASSUME Bad # {} PROVE FALSE
    <2>1. N \in 0..N
      OBVIOUS
    <2> QED
      BY <2>1
  <1>2. Bad \in SUBSET Nat
    OBVIOUS
  <1>3. PICK k \in Bad : \A j \in Bad : k <= j
    <2> HIDE DEF Bad
    <2> QED
      BY <1>1, <1>2, Least
  <1>4. k # 0
    BY <1>3 DEF GoesUp
  <1>5. k \in 1..N /\ k - 1 \in 0..N /\ ~(k <= k - 1)
    BY <1>3, <1>4
  <1>6. k - 1 \in Good
    BY <1>3, <1>5
  <1> QED
    BY <1>3, <1>5, <1>6 DEF GoesUp

\* f starts from base and goes from k - 1 to k by step[k].
Recurs(f, N, base, step) ==
    \A k \in 0..N : f[k] = IF k = 0 THEN base ELSE step[k][f[k - 1]]

\* There is a function that does so: the definitions by recursion mean something.
LEMMA RecursionExists ==
    ASSUME NEW N \in Nat, NEW T, NEW base \in T, NEW step \in [1..N -> [T -> T]]
    PROVE  \E f \in [0..N -> T] : Recurs(f, N, base, step)
  <1> USE DEF Recurs
  <1> DEFINE Solves(f, m) ==
                /\ f \in [0..m -> T]
                /\ \A k \in 0..m : f[k] = IF k = 0 THEN base ELSE step[k][f[k - 1]]
             Good == {m \in 0..N : \E f : Solves(f, m)}
  <1>1. 0 \in Good
    <2> DEFINE f == [k \in 0..0 |-> base]
    <2>1. f \in [0..0 -> T] /\ \A k \in 0..0 : k = 0 /\ f[k] = base
      OBVIOUS
    <2> HIDE DEF f
    <2>2. Solves(f, 0)
      BY <2>1
    <2> QED
      BY <2>2
  <1>2. ASSUME NEW m \in 1..N, m - 1 \in Good
        PROVE  m \in Good
    <2>1. m - 1 \in 0..m
      OBVIOUS
    <2>2. PICK g : Solves(g, m - 1)
      BY <1>2
    <2> DEFINE f == [k \in 0..m |-> IF k = m THEN step[m][g[m - 1]] ELSE g[k]]
    <2>3. \A k \in 0..m : f[k] \in T
      BY <2>1, <2>2
    <2>4. \A k \in 0..m : f[k] = IF k = 0 THEN base ELSE step[k][f[k - 1]]
      <3> SUFFICES ASSUME NEW k \in 0..m
                   PROVE  f[k] = IF k = 0 THEN base ELSE step[k][f[k - 1]]
        OBVIOUS
      <3>1. \A j \in 0..m : f[j] = IF j = m THEN step[m][g[m - 1]] ELSE g[j]
        OBVIOUS
      <3> HIDE DEF f
      <3>2. CASE k = m
        <4>1. m - 1 \in 0..m /\ m - 1 # m
          BY <2>1
        <4>2. f[m - 1] = g[m - 1]
          BY <3>1, <4>1
        <4>3. f[m] = step[m][g[m - 1]]
          BY <3>1
        <4> QED
          BY <2>1, <3>2, <4>2, <4>3
      <3>3. CASE k # m
        <4>1. k \in 0..m - 1 /\ f[k] = g[k]
          BY <2>1, <3>1, <3>3
        <4>2. k # 0 => k - 1 \in 0..m /\ k - 1 # m
          BY <2>1, <3>3
        <4>3. k # 0 => f[k - 1] = g[k - 1]
          BY <3>1, <4>2
        <4>4. g[k] = IF k = 0 THEN base ELSE step[k][g[k - 1]]
          BY <2>2, <4>1
        <4> QED
          BY <4>1, <4>3, <4>4
      <3> QED
        BY <3>2, <3>3
    <2>5. Solves(f, m)
      <3>1. f = [k \in 0..m |-> f[k]]
        OBVIOUS
      <3> HIDE DEF f
      <3>2. f \in [0..m -> T]
        BY <2>3, <3>1
      <3> QED
        BY <2>4, <3>2
    <2> HIDE DEF Solves, f
    <2> QED
      BY <2>5
  <1>3. N \in Good
    <2>1. GoesUp(N, Good)
      BY <1>1, <1>2 DEF GoesUp
    <2> HIDE DEF Good
    <2> QED
      BY <2>1, ByCounting
  <1> QED
    BY <1>3

-----------------------------------------------------------------------------
(* What a view says of an operation *)

\* A join: of each operation its own state.
JoinOK(join) ==
    /\ DOMAIN join \subseteq Op
    /\ \A o \in DOMAIN join : join[o].own \in Own

\* What SCOPES.md says of u.
Documented(join, u) ==
    IF join[u].own \in {"neutral", "running", "blocked"} THEN join[u].own
    ELSE IF \E c \in ActiveChildren(join, u) : c \notin Grounded(join) THEN "waiting"
    ELSE IF join[u].own = "current" THEN "ready" ELSE "stale"

LEMMA KidsAreListed ==
    ASSUME NEW join, NEW u
    PROVE  ActiveChildren(join, u) \subseteq DOMAIN join
  BY DEF ActiveChildren, ChildrenOf

\* Grounded is a fixed point.
LEMMA GroundedIs ==
    ASSUME NEW join, NEW u \in DOMAIN join
    PROVE  u \in Grounded(join) <=>
               join[u].own = "current" /\ ActiveChildren(join, u) \subseteq Grounded(join)
  <1> DEFINE Closed(S) == \A o \in DOMAIN join :
                  (join[o].own = "current" /\ ActiveChildren(join, o) \subseteq S) => o \in S
             G == Grounded(join)
  <1>1. G = {o \in DOMAIN join : \A S \in SUBSET DOMAIN join : Closed(S) => o \in S}
    BY DEF Grounded
  <1>2. ASSUME join[u].own = "current", ActiveChildren(join, u) \subseteq G
        PROVE  u \in G
    <2>1. SUFFICES ASSUME NEW S \in SUBSET DOMAIN join, Closed(S)
                   PROVE  u \in S
      BY <1>1
    <2>2. ActiveChildren(join, u) \subseteq S
      BY <1>1, <1>2, <2>1
    <2> QED
      BY <1>2, <2>1, <2>2
  <1>3. Closed(G)
    <2> SUFFICES ASSUME NEW o \in DOMAIN join, join[o].own = "current",
                        ActiveChildren(join, o) \subseteq G
                 PROVE  o \in G
      OBVIOUS
    <2>1. SUFFICES ASSUME NEW S \in SUBSET DOMAIN join, Closed(S)
                   PROVE  o \in S
      BY <1>1
    <2>2. ActiveChildren(join, o) \subseteq S
      BY <1>1, <2>1
    <2> QED
      BY <2>1, <2>2
  <1>4. ASSUME u \in G, ~(join[u].own = "current" /\ ActiveChildren(join, u) \subseteq G)
        PROVE  FALSE
    <2> DEFINE S == G \ {u}
    <2>1. S \in SUBSET DOMAIN join
      BY <1>1
    <2>2. Closed(S)
      <3> SUFFICES ASSUME NEW o \in DOMAIN join, join[o].own = "current",
                          ActiveChildren(join, o) \subseteq S
                   PROVE  o \in S
        OBVIOUS
      <3>1. ActiveChildren(join, o) \subseteq G
        OBVIOUS
      <3>2. o \in G /\ o # u
        BY <1>3, <1>4, <3>1
      <3> QED
        BY <3>2
    <2>3. u \notin S
      OBVIOUS
    <2> HIDE DEF S
    <2> QED
      BY <1>1, <1>4, <2>1, <2>2, <2>3
  <1> QED
    BY <1>2, <1>4

LEMMA ReadyIsGrounded ==
    ASSUME NEW join, JoinOK(join), NEW u \in DOMAIN join
    PROVE  /\ Documented(join, u) = "ready" <=> u \in Grounded(join)
           /\ Documented(join, u) \in Semantic
  BY GroundedIs DEF Documented, JoinOK, Own, Semantic

\* Of operations each of which has an active child among them none is grounded.
LEMMA CirclesAreNot ==
    ASSUME NEW join, NEW v \in SUBSET DOMAIN join,
           \A w \in v : \E c \in ActiveChildren(join, w) : c \in v
    PROVE  v \cap Grounded(join) = {}
  <1> DEFINE Closed(S) == \A o \in DOMAIN join :
                  (join[o].own = "current" /\ ActiveChildren(join, o) \subseteq S) => o \in S
             G == Grounded(join)
             S == G \ v
  <1>1. G = {o \in DOMAIN join : \A T \in SUBSET DOMAIN join : Closed(T) => o \in T}
    BY DEF Grounded
  <1>2. S \in SUBSET DOMAIN join
    BY <1>1
  <1>3. Closed(S)
    <2> SUFFICES ASSUME NEW o \in DOMAIN join, join[o].own = "current",
                        ActiveChildren(join, o) \subseteq S
                 PROVE  o \in S
      OBVIOUS
    <2>1. o \in G
      BY GroundedIs
    <2>2. o \notin v
      OBVIOUS
    <2> QED
      BY <2>1, <2>2
  <1>4. G \subseteq S
    <2> HIDE DEF S
    <2> QED
      BY <1>1, <1>2, <1>3
  <1> QED
    BY <1>4

-----------------------------------------------------------------------------
(* Calls and replies of derive *)

Reply(join) == [state : Semantic, memo : Memo(join)]

\* What is remembered is right.
Sound(join, memo) ==
    /\ memo \in Memo(join)
    /\ \A x \in DOMAIN join : memo[x] # None => memo[x] = Documented(join, x)

\* The path: no operation of it is remembered yet, and each has an active child on
\* it or next to be visited.
PathOK(join, path, u, memo) ==
    /\ path \in SUBSET DOMAIN join
    /\ \A w \in path : /\ memo[w] = None
                       /\ \E c \in ActiveChildren(join, w) : c \in path \cup {u}

CallOK(join, path, u, memo) ==
    u \in DOMAIN join /\ Sound(join, memo) /\ PathOK(join, path, u, memo)

\* later knows all that memo knows, and nothing of the path.
Grows(join, path, memo, later) ==
    /\ Sound(join, later)
    /\ \A x \in DOMAIN join : memo[x] # None => later[x] = memo[x]
    /\ \A w \in path : later[w] = None

ReplyOK(join, path, u, memo, r) ==
    /\ r \in Reply(join)
    /\ r.state = "ready" <=> u \in Grounded(join)
    /\ Grows(join, path, memo, r.memo)
    /\ u \notin path => r.memo[u] # None

LEMMA GrowsTransitively ==
    ASSUME NEW join, NEW path, NEW m1, NEW m2, NEW m3,
           Grows(join, path, m1, m2), Grows(join, path, m2, m3)
    PROVE  Grows(join, path, m1, m3)
  BY DEF Grows

\* The children of u are asked from below u, and what each says is right.
Asking(join, visit, path, u) ==
    \A c \in ActiveChildren(join, u), m \in Memo(join) :
        CallOK(join, path, c, m) => ReplyOK(join, path, c, m, visit[<<path, c, m>>])

LEMMA OrderIs == Order \in Seq(Op) /\ Len(Order) \in Nat /\ Op = {Order[k] : k \in 1..Len(Order)}
  BY ScopeAssumption DEF Op, Range

Asks(join) == [waits : BOOLEAN, memo : Memo(join)]

LEMMA AskNextTyped ==
    ASSUME NEW join, NEW visit \in [Calls(join) -> Reply(join)], NEW path \in SUBSET DOMAIN join,
           NEW u, NEW k, NEW acc \in Asks(join)
    PROVE  AskNext(join, visit, path, u, k, acc) \in Asks(join)
  <1>1. CASE acc.waits \/ Order[k] \notin ActiveChildren(join, u)
    BY <1>1 DEF AskNext
  <1>2. CASE ~(acc.waits \/ Order[k] \notin ActiveChildren(join, u))
    <2> DEFINE r == visit[<<path, Order[k], acc.memo>>]
    <2>1. Order[k] \in DOMAIN join
      BY <1>2, KidsAreListed
    <2>2. <<path, Order[k], acc.memo>> \in Calls(join)
      BY <2>1 DEF Calls, Asks
    <2>3. r \in Reply(join)
      BY <2>2
    <2>4. AskNext(join, visit, path, u, k, acc) = [waits |-> r.state # "ready", memo |-> r.memo]
      BY <1>2 DEF AskNext
    <2> HIDE DEF r
    <2>5. r.memo \in Memo(join) /\ (r.state # "ready") \in BOOLEAN
      BY <2>3 DEF Reply
    <2> QED
      BY <2>4, <2>5 DEF Asks
  <1> QED
    BY <1>1, <1>2

\* The operations are asked one after the other.
InOrder(f, join, visit, path, u, memo) ==
    /\ f[0] = [waits |-> FALSE, memo |-> memo]
    /\ \A k \in 1..Len(Order) : f[k] = AskNext(join, visit, path, u, k, f[k - 1])

LEMMA AskedFrom ==
    ASSUME NEW join, NEW visit \in [Calls(join) -> Reply(join)], NEW path \in SUBSET DOMAIN join,
           NEW u, NEW memo \in Memo(join)
    PROVE  \E f : /\ InOrder(f, join, visit, path, u, memo)
                  /\ Asked(join, visit, path, u, memo) = f[Len(Order)]
  <1> DEFINE N == Len(Order)
             T == Asks(join)
             start == [waits |-> FALSE, memo |-> memo]
             after == CHOOSE f : f = [k \in 0..N |->
                          IF k = 0 THEN [waits |-> FALSE, memo |-> memo]
                          ELSE AskNext(join, visit, path, u, k, f[k - 1])]
  <1>1. N \in Nat
    BY OrderIs
  <1>2. start \in T
    BY DEF Asks
  <1> DEFINE step == [k \in 1..N |-> [acc \in T |-> AskNext(join, visit, path, u, k, acc)]]
  <1>4. step \in [1..N -> [T -> T]]
    <2> SUFFICES ASSUME NEW k \in 1..N, NEW acc \in T
                 PROVE  AskNext(join, visit, path, u, k, acc) \in T
      OBVIOUS
    <2> QED
      BY AskNextTyped
  <1>5. PICK f \in [0..N -> T] : Recurs(f, N, start, step)
    <2> HIDE DEF step, T, start, N, after
    <2> QED
      BY <1>1, <1>2, <1>4, RecursionExists
  <1>6. \A k \in 0..N : f[k] = IF k = 0 THEN start ELSE step[k][f[k - 1]]
    BY <1>5 DEF Recurs
  <1>8. \A k \in 0..N : f[k] = IF k = 0 THEN start ELSE AskNext(join, visit, path, u, k, f[k - 1])
    <2> SUFFICES ASSUME NEW k \in 0..N, k # 0
                 PROVE  f[k] = AskNext(join, visit, path, u, k, f[k - 1])
      BY <1>6
    <2>1. k \in 1..N /\ f[k - 1] \in T
      <3> HIDE DEF step, T, start, after
      <3> QED
        BY <1>1, <1>5
    <2>2. f[k] = step[k][f[k - 1]]
      BY <1>6
    <2> DEFINE acc == f[k - 1]
    <2> HIDE DEF T, acc
    <2>3. step[k][acc] = AskNext(join, visit, path, u, k, acc)
      BY <2>1 DEF acc
    <2> QED
      BY <2>2, <2>3 DEF acc
  <1>9. f = [k \in 0..N |-> IF k = 0 THEN [waits |-> FALSE, memo |-> memo]
                            ELSE AskNext(join, visit, path, u, k, f[k - 1])]
    <2>1. f = [k \in 0..N |-> f[k]]
      <3> HIDE DEF T
      <3> QED
        BY <1>5
    <2> QED
      BY <1>8, <2>1
  <1>10. after = [k \in 0..N |-> IF k = 0 THEN [waits |-> FALSE, memo |-> memo]
                                 ELSE AskNext(join, visit, path, u, k, after[k - 1])]
    BY <1>9, Zenon
  <1>11. Asked(join, visit, path, u, memo) = after[N]
    BY Zenon DEF Asked
  <1> HIDE DEF after
  <1>12. InOrder(after, join, visit, path, u, memo)
    <2>1. \A k \in 0..N : after[k] = IF k = 0 THEN start
                                    ELSE AskNext(join, visit, path, u, k, after[k - 1])
      BY <1>10
    <2>2. after[0] = start
      <3>1. 0 \in 0..N
        BY <1>1
      <3> HIDE DEF start, N
      <3> QED
        BY <2>1, <3>1
    <2>3. ASSUME NEW k \in 1..N
          PROVE  after[k] = AskNext(join, visit, path, u, k, after[k - 1])
      <3>1. k \in 0..N /\ k # 0
        BY <1>1
      <3> QED
        BY <2>1, <3>1
    <2> QED
      BY <2>2, <2>3 DEF InOrder
  <1> QED
    BY <1>11, <1>12

LEMMA AskedTyped ==
    ASSUME NEW join, NEW visit \in [Calls(join) -> Reply(join)], NEW path \in SUBSET DOMAIN join,
           NEW u, NEW memo \in Memo(join)
    PROVE  Asked(join, visit, path, u, memo) \in Asks(join)
  <1> DEFINE N == Len(Order)
  <1>1. N \in Nat
    BY OrderIs
  <1>2. PICK f : /\ InOrder(f, join, visit, path, u, memo)
                 /\ Asked(join, visit, path, u, memo) = f[N]
    BY AskedFrom
  <1> DEFINE Good == {k \in 0..N : f[k] \in Asks(join)}
  <1>3. 0 \in Good
    <2>1. f[0] = [waits |-> FALSE, memo |-> memo]
      BY <1>2 DEF InOrder
    <2>2. [waits |-> FALSE, memo |-> memo] \in Asks(join)
      BY DEF Asks
    <2> QED
      BY <1>1, <2>1, <2>2
  <1>4. ASSUME NEW k \in 1..N, k - 1 \in Good
        PROVE  k \in Good
    <2> DEFINE acc == f[k - 1]
    <2>1. acc \in Asks(join)
      BY <1>4
    <2>2. f[k] = AskNext(join, visit, path, u, k, acc)
      BY <1>2 DEF InOrder
    <2> HIDE DEF acc
    <2>3. f[k] \in Asks(join)
      BY <2>1, <2>2, AskNextTyped
    <2> QED
      BY <2>3
  <1>5. N \in Good
    <2>1. GoesUp(N, Good)
      BY <1>3, <1>4 DEF GoesUp
    <2> HIDE DEF Good
    <2> QED
      BY <1>1, <2>1, ByCounting
  <1> QED
    BY <1>2, <1>5

\* u waits exactly when an active child is not grounded.
LEMMA AskedIs ==
    ASSUME NEW join, JoinOK(join), NEW visit, NEW path \in SUBSET DOMAIN join, NEW u \in path,
           NEW memo, Sound(join, memo), \A w \in path : memo[w] = None,
           \A w \in path \ {u} : \E c \in ActiveChildren(join, w) : c \in path,
           visit \in [Calls(join) -> Reply(join)], Asking(join, visit, path, u)
    PROVE  LET r == Asked(join, visit, path, u, memo)
           IN  /\ r.waits <=> \E c \in ActiveChildren(join, u) : c \notin Grounded(join)
               /\ Grows(join, path, memo, r.memo)
  <1> DEFINE N == Len(Order)
             T == Asks(join)
             start == [waits |-> FALSE, memo |-> memo]
             \* After k operations: the first not grounded one was met, or none.
             Right(k, acc) ==
                 /\ acc \in T
                 /\ Grows(join, path, memo, acc.memo)
                 /\ acc.waits => \E c \in ActiveChildren(join, u) : c \notin Grounded(join)
                 /\ ~acc.waits => \A i \in 1..k :
                        Order[i] \in ActiveChildren(join, u) => Order[i] \in Grounded(join)
  <1>1. N \in Nat
    BY OrderIs
  <1>2. start \in T /\ Right(0, start)
    BY DEF Sound, Grows, Asks
  <1>3. ASSUME NEW k \in 1..N, NEW acc, Right(k - 1, acc)
        PROVE  Right(k, AskNext(join, visit, path, u, k, acc))
    <2>1. CASE acc.waits
      BY <1>3, <2>1 DEF AskNext
    <2>2. CASE ~acc.waits /\ Order[k] \notin ActiveChildren(join, u)
      <3>1. AskNext(join, visit, path, u, k, acc) = acc
        BY <2>2 DEF AskNext
      <3>2. \A i \in 1..k : i = k \/ i \in 1..k - 1
        BY <1>1
      <3> QED
        BY <1>3, <2>2, <3>1, <3>2
    <2>3. CASE ~acc.waits /\ Order[k] \in ActiveChildren(join, u)
      <3> DEFINE c == Order[k]
                 r == visit[<<path, c, acc.memo>>]
      <3>1. c \in DOMAIN join
        BY <2>3, KidsAreListed
      <3>2. acc.memo \in Memo(join)
        BY <1>3 DEF Asks
      <3>3. PathOK(join, path, c, acc.memo)
        BY <1>3, <2>3 DEF PathOK, Grows
      <3>4. CallOK(join, path, c, acc.memo)
        BY <1>3, <3>1, <3>3 DEF CallOK, Grows
      <3>5. ReplyOK(join, path, c, acc.memo, r)
        BY <2>3, <3>2, <3>4 DEF Asking
      <3>6. AskNext(join, visit, path, u, k, acc) = [waits |-> r.state # "ready", memo |-> r.memo]
        BY <2>3 DEF AskNext
      <3>7. Grows(join, path, memo, r.memo)
        BY <1>3, <3>5, GrowsTransitively DEF ReplyOK
      <3>8. (r.state = "ready") <=> c \in Grounded(join)
        BY <3>5 DEF ReplyOK
      <3>9. r.memo \in Memo(join)
        BY <3>5 DEF ReplyOK, Reply
      <3>10. \A i \in 1..k : i = k \/ i \in 1..k - 1
        BY <1>1
      <3> DEFINE a == AskNext(join, visit, path, u, k, acc)
      <3> HIDE DEF r, a
      <3>11. a.waits = (r.state # "ready") /\ a.memo = r.memo /\ a \in T
        <4>1. a = [waits |-> r.state # "ready", memo |-> r.memo]
          BY <3>6 DEF a
        <4>2. (r.state # "ready") \in BOOLEAN
          OBVIOUS
        <4> QED
          BY <3>9, <4>1, <4>2 DEF Asks
      <3>12. Grows(join, path, memo, a.memo)
        BY <3>7, <3>11
      <3>13. a.waits => \E d \in ActiveChildren(join, u) : d \notin Grounded(join)
        BY <2>3, <3>8, <3>11
      <3>14. ~a.waits => \A i \in 1..k :
                 Order[i] \in ActiveChildren(join, u) => Order[i] \in Grounded(join)
        BY <1>3, <2>3, <3>8, <3>10, <3>11
      <3>15. Right(k, a)
        BY <3>11, <3>12, <3>13, <3>14
      <3> QED
        BY <3>15 DEF a
    <2> QED
      BY <2>1, <2>2, <2>3
  <1>4. memo \in Memo(join)
    BY DEF Sound
  <1>5. PICK after : /\ InOrder(after, join, visit, path, u, memo)
                     /\ Asked(join, visit, path, u, memo) = after[N]
    BY <1>4, AskedFrom
  <1> DEFINE Good == {k \in 0..N : Right(k, after[k])}
  <1> HIDE DEF Right, T
  <1>6. 0 \in Good
    BY <1>1, <1>2, <1>5 DEF InOrder
  <1>7. ASSUME NEW k \in 1..N, k - 1 \in Good
        PROVE  k \in Good
    BY <1>3, <1>5, <1>7 DEF InOrder
  <1>8. N \in Good
    <2>1. GoesUp(N, Good)
      BY <1>6, <1>7 DEF GoesUp
    <2> HIDE DEF Good
    <2> QED
      BY <1>1, <2>1, ByCounting
  <1>9. \A c \in ActiveChildren(join, u) : \E k \in 1..N : c = Order[k]
    BY OrderIs, KidsAreListed DEF JoinOK
  <1> QED
    BY <1>5, <1>8, <1>9 DEF Right

-----------------------------------------------------------------------------
(* The search *)

LEMMA VisitedTyped ==
    ASSUME NEW join, JoinOK(join), NEW visit \in [Calls(join) -> Reply(join)],
           NEW path \in SUBSET DOMAIN join, NEW u \in DOMAIN join, NEW memo \in Memo(join)
    PROVE  Visited(join, "stale", visit, path, u, memo) \in Reply(join)
  <1> DEFINE asks == join[u].own \in {"current", "stale"}
             kids == IF asks THEN Asked(join, visit, path \cup {u}, u, memo)
                     ELSE [waits |-> FALSE, memo |-> memo]
             state == IF ~asks THEN join[u].own
                      ELSE IF kids.waits THEN "waiting"
                      ELSE IF join[u].own = "current" THEN "ready" ELSE "stale"
             v == Visited(join, "stale", visit, path, u, memo)
  <1>1. v = IF memo[u] # None THEN [state |-> memo[u], memo |-> memo]
            ELSE IF u \in path THEN [state |-> "stale", memo |-> memo]
            ELSE [state |-> state, memo |-> [kids.memo EXCEPT ![u] = state]]
    BY DEF Visited
  <1>2. memo[u] \in Semantic \cup {None}
    BY DEF Memo
  <1>3. kids.memo \in Memo(join)
    BY AskedTyped DEF Asks
  <1>4. state \in Semantic
    BY DEF JoinOK, Own, Semantic
  <1> HIDE DEF state, kids, v
  <1>5. [kids.memo EXCEPT ![u] = state] \in Memo(join)
    BY <1>3, <1>4 DEF Memo
  <1>6. "stale" \in Semantic
    BY DEF Own, Semantic
  <1> QED
    BY <1>1, <1>2, <1>4, <1>5, <1>6 DEF v, Reply

\* A visit is right, if those of the operations below it are.
LEMMA VisitedIs ==
    ASSUME NEW join, JoinOK(join), NEW visit \in [Calls(join) -> Reply(join)],
           NEW path, NEW u, NEW memo, CallOK(join, path, u, memo),
           u \notin path => Asking(join, visit, path \cup {u}, u)
    PROVE  ReplyOK(join, path, u, memo, Visited(join, "stale", visit, path, u, memo))
  <1> DEFINE asks == join[u].own \in {"current", "stale"}
             kids == IF asks THEN Asked(join, visit, path \cup {u}, u, memo)
                     ELSE [waits |-> FALSE, memo |-> memo]
             state == IF ~asks THEN join[u].own
                      ELSE IF kids.waits THEN "waiting"
                      ELSE IF join[u].own = "current" THEN "ready" ELSE "stale"
             v == Visited(join, "stale", visit, path, u, memo)
  <1>1. v = IF memo[u] # None THEN [state |-> memo[u], memo |-> memo]
            ELSE IF u \in path THEN [state |-> "stale", memo |-> memo]
            ELSE [state |-> state, memo |-> [kids.memo EXCEPT ![u] = state]]
    BY DEF Visited
  <1>2. /\ u \in DOMAIN join /\ path \in SUBSET DOMAIN join /\ memo \in Memo(join)
        /\ Sound(join, memo) /\ \A w \in path : memo[w] = None
    BY DEF CallOK, PathOK, Sound
  <1>3. v \in Reply(join)
    BY <1>2, VisitedTyped
  <1>4. Grows(join, path, memo, memo)
    BY <1>2 DEF Grows
  <1>5. CASE memo[u] # None
    <2>1. memo[u] = Documented(join, u)
      BY <1>2, <1>5 DEF Sound
    <2>2. v.state = memo[u] /\ v.memo = memo
      BY <1>1, <1>5
    <2> HIDE DEF v
    <2> QED
      BY <1>2, <1>3, <1>4, <1>5, <2>1, <2>2, ReadyIsGrounded DEF ReplyOK, v
  <1>6. CASE memo[u] = None /\ u \in path
    <2>1. \A w \in path : \E c \in ActiveChildren(join, w) : c \in path
      BY <1>6 DEF CallOK, PathOK
    <2>2. u \notin Grounded(join)
      BY <1>2, <1>6, <2>1, CirclesAreNot
    <2>3. v.state = "stale" /\ v.memo = memo
      BY <1>1, <1>6
    <2> HIDE DEF v
    <2> QED
      BY <1>3, <1>4, <1>6, <2>2, <2>3 DEF ReplyOK, v
  <1>7. CASE memo[u] = None /\ u \notin path
    <2> DEFINE below == path \cup {u}
    <2>1. /\ below \in SUBSET DOMAIN join /\ u \in below /\ \A w \in below : memo[w] = None
          /\ Asking(join, visit, below, u)
      BY <1>2, <1>7
    <2>2. \A w \in below \ {u} : \E c \in ActiveChildren(join, w) : c \in below
      BY DEF CallOK, PathOK
    <2> HIDE DEF below
    <2>3. asks => /\ kids.waits <=> \E c \in ActiveChildren(join, u) : c \notin Grounded(join)
                  /\ Grows(join, below, memo, kids.memo)
      BY <1>2, <2>1, <2>2, AskedIs DEF below
    <2>4. Grows(join, below, memo, kids.memo)
      <3>1. CASE asks
        BY <2>3, <3>1
      <3>2. CASE ~asks
        <4>1. kids.memo = memo
          BY <3>2
        <4> QED
          BY <1>2, <2>1, <4>1 DEF Grows
      <3> QED
        BY <3>1, <3>2
    <2>5. state = Documented(join, u)
      BY <1>2, <2>3 DEF Documented, JoinOK, Own
    <2>6. state \in Semantic /\ state # None /\ (state = "ready" <=> u \in Grounded(join))
      <3>1. Documented(join, u) \in Semantic /\ (Documented(join, u) = "ready" <=> u \in Grounded(join))
        BY <1>2, ReadyIsGrounded
      <3>2. None \notin Semantic
        BY NoneAssumption
      <3> HIDE DEF state
      <3> QED
        BY <2>5, <3>1, <3>2
    <2> DEFINE later == [kids.memo EXCEPT ![u] = state]
    <2> HIDE DEF v, kids, state
    <2>7. v.state = state /\ v.memo = later
      BY <1>1, <1>7
    <2>8. kids.memo \in [DOMAIN join -> Semantic \cup {None}]
      BY <2>4 DEF Grows, Sound, Memo
    <2>9. later \in Memo(join) /\ \A x \in DOMAIN join : later[x] = IF x = u THEN state ELSE kids.memo[x]
      BY <2>6, <2>8 DEF Memo
    <2> HIDE DEF later
    <2>10. Sound(join, later)
      BY <2>4, <2>5, <2>9 DEF Sound, Grows
    <2>11. Grows(join, path, memo, later)
      BY <1>2, <1>7, <2>4, <2>9, <2>10 DEF Grows, below
    <2>12. later[u] # None
      BY <1>2, <2>6, <2>9
    <2> QED
      BY <1>3, <2>6, <2>7, <2>11, <2>12 DEF ReplyOK, v
  <1> QED
    BY <1>5, <1>6, <1>7

\* n visits deep, what is said is right of whoever has at most n operations off
\* the path.
Deep(join, n, visit) ==
    /\ visit \in [Calls(join) -> Reply(join)]
    /\ \A path \in SUBSET DOMAIN join : \A u \in DOMAIN join : \A memo \in Memo(join) :
           CallOK(join, path, u, memo) /\ Cardinality(DOMAIN join \ path) <= n =>
               ReplyOK(join, path, u, memo, visit[<<path, u, memo>>])

LEMMA DeepNone ==
    ASSUME NEW join, JoinOK(join), IsFiniteSet(DOMAIN join)
    PROVE  Deep(join, 0, [call \in Calls(join) |-> [state |-> "stale", memo |-> call[3]]])
  <1> DEFINE visit == [call \in Calls(join) |-> [state |-> "stale", memo |-> call[3]]]
  <1>1. visit \in [Calls(join) -> Reply(join)]
    BY DEF Calls, Reply, Own, Semantic
  <1>2. ASSUME NEW path \in SUBSET DOMAIN join, NEW u \in DOMAIN join, NEW memo \in Memo(join),
               CallOK(join, path, u, memo), Cardinality(DOMAIN join \ path) <= 0
        PROVE  ReplyOK(join, path, u, memo, visit[<<path, u, memo>>])
    <2>1. IsFiniteSet(DOMAIN join \ path) /\ Cardinality(DOMAIN join \ path) \in Nat
      BY FS_Difference, FS_CardinalityType
    <2>2. Cardinality(DOMAIN join \ path) = 0
      BY <1>2, <2>1
    <2>3. u \in path
      BY <2>1, <2>2, FS_EmptySet
    <2>4. \A w \in path : \E c \in ActiveChildren(join, w) : c \in path
      BY <1>2, <2>3 DEF CallOK, PathOK
    <2>5. u \notin Grounded(join)
      BY <2>3, <2>4, CirclesAreNot
    <2>6. <<path, u, memo>> \in Calls(join)
      BY DEF Calls
    <2>7. visit[<<path, u, memo>>] = [state |-> "stale", memo |-> memo]
      BY <2>6
    <2>8. Grows(join, path, memo, memo)
      BY <1>2 DEF CallOK, PathOK, Grows
    <2> HIDE DEF visit
    <2> QED
      BY <1>1, <2>3, <2>5, <2>6, <2>7, <2>8 DEF ReplyOK
  <1> HIDE DEF visit
  <1>3. Deep(join, 0, visit)
    BY <1>1, <1>2 DEF Deep
  <1> QED
    BY <1>3 DEF visit

\* One visit deeper.
Deeper(join, visit) ==
    [call \in Calls(join) |-> Visited(join, "stale", visit, call[1], call[2], call[3])]

LEMMA DeeperTyped ==
    ASSUME NEW join, JoinOK(join), NEW visit \in [Calls(join) -> Reply(join)]
    PROVE  Deeper(join, visit) \in [Calls(join) -> Reply(join)]
  <1>1. ASSUME NEW call \in Calls(join)
        PROVE  Visited(join, "stale", visit, call[1], call[2], call[3]) \in Reply(join)
    BY VisitedTyped DEF Calls
  <1> QED
    BY <1>1 DEF Deeper

LEMMA DeepNext ==
    ASSUME NEW join, JoinOK(join), IsFiniteSet(DOMAIN join), NEW n \in Nat, n # 0,
           NEW visit, Deep(join, n - 1, visit)
    PROVE  Deep(join, n, Deeper(join, visit))
  <1>1. visit \in [Calls(join) -> Reply(join)]
    BY DEF Deep
  <1>2. ASSUME NEW path \in SUBSET DOMAIN join, NEW u \in DOMAIN join, NEW memo \in Memo(join),
               CallOK(join, path, u, memo), Cardinality(DOMAIN join \ path) <= n
        PROVE  ReplyOK(join, path, u, memo, Deeper(join, visit)[<<path, u, memo>>])
    <2>1. <<path, u, memo>> \in Calls(join)
      BY DEF Calls
    <2>2. Deeper(join, visit)[<<path, u, memo>>] = Visited(join, "stale", visit, path, u, memo)
      BY <2>1 DEF Deeper
    <2>3. ASSUME u \notin path
          PROVE  Asking(join, visit, path \cup {u}, u)
      <3> DEFINE left == DOMAIN join \ path
                 below == path \cup {u}
      <3>1. IsFiniteSet(left) /\ Cardinality(left) \in Nat /\ u \in left
        BY <2>3, FS_Difference, FS_CardinalityType
      <3>2. Cardinality(left \ {u}) = Cardinality(left) - 1
        BY <3>1, FS_RemoveElement
      <3>3. DOMAIN join \ below = left \ {u}
        OBVIOUS
      <3> HIDE DEF left, below
      <3>4. Cardinality(DOMAIN join \ below) <= n - 1
        BY <1>2, <3>1, <3>2, <3>3 DEF left
      <3>5. below \in SUBSET DOMAIN join
        BY DEF below
      <3> SUFFICES ASSUME NEW c \in ActiveChildren(join, u), NEW m \in Memo(join),
                          CallOK(join, below, c, m)
                   PROVE  ReplyOK(join, below, c, m, visit[<<below, c, m>>])
        BY DEF Asking, below
      <3>6. c \in DOMAIN join
        BY KidsAreListed
      <3> QED
        BY <3>4, <3>5, <3>6 DEF Deep
    <2> QED
      BY <1>1, <1>2, <2>2, <2>3, VisitedIs
  <1>3. Deeper(join, visit) \in [Calls(join) -> Reply(join)]
    BY <1>1, DeeperTyped
  <1> QED
    BY <1>2, <1>3 DEF Deep

LEMMA VisitsIs ==
    ASSUME NEW join, JoinOK(join), IsFiniteSet(DOMAIN join)
    PROVE  Deep(join, Cardinality(DOMAIN join), Visits(join, "stale"))
  <1> DEFINE N == Cardinality(DOMAIN join)
             T == [Calls(join) -> Reply(join)]
             start == [call \in Calls(join) |-> [state |-> "stale", memo |-> call[3]]]
             visit == CHOOSE f : f = [n \in 0..N |->
                          [call \in Calls(join) |->
                              IF n = 0 THEN [state |-> "stale", memo |-> call[3]]
                              ELSE Visited(join, "stale", f[n - 1], call[1], call[2], call[3])]]
             step == [n \in 1..N |-> [v \in T |-> Deeper(join, v)]]
  <1>1. N \in Nat
    BY FS_CardinalityType
  <1>2. start \in T
    BY DeepNone DEF Deep
  <1>3. step \in [1..N -> [T -> T]]
    BY DeeperTyped
  <1>4. PICK f \in [0..N -> T] : Recurs(f, N, start, step)
    <2> HIDE DEF step, T, start, N, visit
    <2> QED
      BY <1>1, <1>2, <1>3, RecursionExists
  <1>5. \A n \in 0..N : f[n] = IF n = 0 THEN start ELSE Deeper(join, f[n - 1])
    <2> SUFFICES ASSUME NEW n \in 0..N, n # 0
                 PROVE  f[n] = Deeper(join, f[n - 1])
      BY <1>4 DEF Recurs
    <2>1. n \in 1..N /\ f[n - 1] \in T
      <3> HIDE DEF step, T, start, visit
      <3> QED
        BY <1>1, <1>4
    <2>2. f[n] = step[n][f[n - 1]]
      BY <1>4 DEF Recurs
    <2> DEFINE v == f[n - 1]
    <2> HIDE DEF T, v
    <2>3. step[n][v] = Deeper(join, v)
      BY <2>1 DEF v
    <2> QED
      BY <2>2, <2>3 DEF v
  <1>6. f = [n \in 0..N |->
                [call \in Calls(join) |->
                    IF n = 0 THEN [state |-> "stale", memo |-> call[3]]
                    ELSE Visited(join, "stale", f[n - 1], call[1], call[2], call[3])]]
    <2>1. \A n \in 0..N :
              f[n] = [call \in Calls(join) |->
                         IF n = 0 THEN [state |-> "stale", memo |-> call[3]]
                         ELSE Visited(join, "stale", f[n - 1], call[1], call[2], call[3])]
      <3> SUFFICES ASSUME NEW n \in 0..N
                   PROVE  f[n] = [call \in Calls(join) |->
                                     IF n = 0 THEN [state |-> "stale", memo |-> call[3]]
                                     ELSE Visited(join, "stale", f[n - 1], call[1], call[2], call[3])]
        OBVIOUS
      <3>1. CASE n = 0
        BY <1>5, <3>1
      <3>2. CASE n # 0
        BY <1>5, <3>2 DEF Deeper
      <3> QED
        BY <3>1, <3>2
    <2>2. f = [n \in 0..N |-> f[n]]
      <3> HIDE DEF T
      <3> QED
        BY <1>4
    <2> QED
      BY <2>1, <2>2
  <1>7. visit = [n \in 0..N |->
                    [call \in Calls(join) |->
                        IF n = 0 THEN [state |-> "stale", memo |-> call[3]]
                        ELSE Visited(join, "stale", visit[n - 1], call[1], call[2], call[3])]]
    BY <1>6, Zenon
  <1>8. Visits(join, "stale") = visit[N]
    BY Zenon DEF Visits
  <1> HIDE DEF visit
  <1>9. visit[0] = start
    <2>1. 0 \in 0..N
      BY <1>1
    <2>2. visit[0] = [call \in Calls(join) |->
                        IF 0 = 0 THEN [state |-> "stale", memo |-> call[3]]
                        ELSE Visited(join, "stale", visit[0 - 1], call[1], call[2], call[3])]
      <3> HIDE DEF N
      <3> QED
        BY <1>7, <2>1
    <2> QED
      BY <2>2
  <1>10. ASSUME NEW n \in 1..N
         PROVE  visit[n] = Deeper(join, visit[n - 1])
    <2>1. n \in 0..N /\ n # 0
      BY <1>1
    <2>2. visit[n] = [call \in Calls(join) |->
                        IF n = 0 THEN [state |-> "stale", memo |-> call[3]]
                        ELSE Visited(join, "stale", visit[n - 1], call[1], call[2], call[3])]
      <3> HIDE DEF N
      <3> QED
        BY <1>7, <2>1
    <2> QED
      BY <2>1, <2>2 DEF Deeper
  <1> DEFINE Good == {n \in 0..N : Deep(join, n, visit[n])}
  <1>11. 0 \in Good
    BY <1>1, <1>9, DeepNone
  <1>12. ASSUME NEW n \in 1..N, n - 1 \in Good
         PROVE  n \in Good
    <2> DEFINE v == visit[n - 1]
    <2>1. Deep(join, n - 1, v) /\ n \in Nat /\ n # 0 /\ n \in 0..N
      BY <1>1, <1>12
    <2>2. visit[n] = Deeper(join, v)
      BY <1>10
    <2> HIDE DEF v
    <2>3. Deep(join, n, visit[n])
      BY <2>1, <2>2, DeepNext
    <2> QED
      BY <2>1, <2>3
  <1>13. N \in Good
    <2>1. GoesUp(N, Good)
      BY <1>11, <1>12 DEF GoesUp
    <2> HIDE DEF Good
    <2> QED
      BY <1>1, <2>1, ByCounting
  <1> QED
    BY <1>8, <1>13

\* Every operation of a view is derived as documented.
LEMMA DerivedIs ==
    ASSUME NEW join, JoinOK(join), IsFiniteSet(DOMAIN join)
    PROVE  Derived(join) = [u \in DOMAIN join |-> Documented(join, u)]
  <1> DEFINE N == Len(Order)
             T == Memo(join)
             visits == Visits(join, "stale")
             start == [u \in DOMAIN join |-> None]
             after == CHOOSE f : f = [k \in 0..N |-> IF k = 0 THEN [u \in DOMAIN join |-> None]
                                                     ELSE DeriveNext(join, visits, k, f[k - 1])]
             step == [k \in 1..N |-> [memo \in T |-> DeriveNext(join, visits, k, memo)]]
  <1>1. N \in Nat
    BY OrderIs
  <1>2. start \in T
    BY DEF Memo
  <1>3. /\ visits \in [Calls(join) -> Reply(join)]
        /\ \A u \in DOMAIN join : \A memo \in Memo(join) :
               CallOK(join, {}, u, memo) => ReplyOK(join, {}, u, memo, visits[<<{}, u, memo>>])
    <2>1. Deep(join, Cardinality(DOMAIN join), visits)
      BY VisitsIs
    <2>2. DOMAIN join \ {} = DOMAIN join /\ {} \in SUBSET DOMAIN join
      OBVIOUS
    <2>3. Cardinality(DOMAIN join) \in Nat
      BY FS_CardinalityType
    <2> HIDE DEF visits
    <2> QED
      BY <2>1, <2>2, <2>3 DEF Deep
  <1> HIDE DEF visits
  <1>4. ASSUME NEW k \in 1..N, NEW memo \in T
        PROVE  DeriveNext(join, visits, k, memo) \in T
    <2>1. CASE Order[k] \notin DOMAIN join
      BY <2>1 DEF DeriveNext
    <2>2. CASE Order[k] \in DOMAIN join
      <3>1. <<{}, Order[k], memo>> \in Calls(join)
        BY <2>2 DEF Calls
      <3>2. visits[<<{}, Order[k], memo>>].memo \in T
        BY <1>3, <3>1 DEF Reply
      <3> QED
        BY <2>2, <3>2 DEF DeriveNext
    <2> QED
      BY <2>1, <2>2
  <1>5. step \in [1..N -> [T -> T]]
    BY <1>4
  <1>6. PICK f \in [0..N -> T] : Recurs(f, N, start, step)
    <2> HIDE DEF step, T, start, N, after
    <2> QED
      BY <1>1, <1>2, <1>5, RecursionExists
  <1>7. \A k \in 0..N : f[k] = IF k = 0 THEN start ELSE DeriveNext(join, visits, k, f[k - 1])
    <2> SUFFICES ASSUME NEW k \in 0..N, k # 0
                 PROVE  f[k] = DeriveNext(join, visits, k, f[k - 1])
      BY <1>6 DEF Recurs
    <2>1. k \in 1..N /\ f[k - 1] \in T
      <3> HIDE DEF step, T, start, after
      <3> QED
        BY <1>1, <1>6
    <2>2. f[k] = step[k][f[k - 1]]
      BY <1>6 DEF Recurs
    <2> DEFINE memo == f[k - 1]
    <2> HIDE DEF T, memo
    <2>3. step[k][memo] = DeriveNext(join, visits, k, memo)
      BY <2>1 DEF memo
    <2> QED
      BY <2>2, <2>3 DEF memo
  <1>8. f = [k \in 0..N |-> IF k = 0 THEN [u \in DOMAIN join |-> None]
                            ELSE DeriveNext(join, visits, k, f[k - 1])]
    <2>1. f = [k \in 0..N |-> f[k]]
      <3> HIDE DEF T
      <3> QED
        BY <1>6
    <2> QED
      BY <1>7, <2>1
  <1>9. after = [k \in 0..N |-> IF k = 0 THEN [u \in DOMAIN join |-> None]
                                ELSE DeriveNext(join, visits, k, after[k - 1])]
    BY <1>8, Zenon
  <1>10. Derived(join) = after[N]
    BY Zenon DEF Derived, DerivedWith, visits
  <1> HIDE DEF after
  <1>11. \A k \in 0..N : after[k] = IF k = 0 THEN start ELSE DeriveNext(join, visits, k, after[k - 1])
    BY <1>9
  <1> HIDE DEF step
  <1> DEFINE Right(k, memo) ==
                 /\ Sound(join, memo)
                 /\ \A i \in 1..k : Order[i] \in DOMAIN join => memo[Order[i]] # None
             Good == {k \in 0..N : Right(k, after[k])}
  <1>12. 0 \in Good
    <2>1. Right(0, start)
      BY <1>2 DEF Sound
    <2>2. after[0] = start
      <3>1. 0 \in 0..N
        BY <1>1
      <3> HIDE DEF start, N
      <3> QED
        BY <1>11, <3>1
    <2> HIDE DEF Right, start
    <2> QED
      BY <1>1, <2>1, <2>2
  <1>13. ASSUME NEW k \in 1..N, k - 1 \in Good
         PROVE  k \in Good
    <2> DEFINE memo == after[k - 1]
               later == DeriveNext(join, visits, k, memo)
    <2>1. Right(k - 1, memo) /\ k \in 0..N /\ k # 0
      BY <1>1, <1>13
    <2>2. after[k] = later
      BY <1>11, <2>1
    <2> HIDE DEF memo
    <2>3. \A i \in 1..k : i = k \/ i \in 1..k - 1
      BY <1>1
    <2>4. CASE Order[k] \notin DOMAIN join
      <3>1. later = memo
        BY <2>4 DEF DeriveNext
      <3>2. Right(k, later)
        BY <2>1, <2>3, <2>4, <3>1
      <3> QED
        BY <2>1, <2>2, <3>2
    <2>5. CASE Order[k] \in DOMAIN join
      <3> DEFINE r == visits[<<{}, Order[k], memo>>]
      <3>1. memo \in Memo(join) /\ CallOK(join, {}, Order[k], memo)
        BY <2>1, <2>5 DEF CallOK, PathOK, Sound
      <3>2. ReplyOK(join, {}, Order[k], memo, r)
        BY <1>3, <2>5, <3>1
      <3>3. later = r.memo
        BY <2>5 DEF DeriveNext
      <3> HIDE DEF r, later
      <3>4. Grows(join, {}, memo, later) /\ later[Order[k]] # None
        BY <3>2, <3>3 DEF ReplyOK
      <3>5. Right(k, later)
        BY <2>1, <2>3, <3>4 DEF Grows
      <3> QED
        BY <2>1, <2>2, <3>5
    <2> QED
      BY <2>4, <2>5
  <1>14. N \in Good
    <2>1. GoesUp(N, Good)
      BY <1>12, <1>13 DEF GoesUp
    <2> HIDE DEF Good
    <2> QED
      BY <1>1, <2>1, ByCounting
  <1> DEFINE memo == after[N]
  <1>15. Right(N, memo)
    BY <1>14
  <1> HIDE DEF memo
  <1>16. \A u \in DOMAIN join : \E k \in 1..N : u = Order[k]
    BY OrderIs DEF JoinOK
  <1>17. \A u \in DOMAIN join : memo[u] = Documented(join, u)
    BY <1>15, <1>16 DEF Sound
  <1>18. memo = [u \in DOMAIN join |-> memo[u]]
    BY <1>15 DEF Sound, Memo
  <1> QED
    BY <1>10, <1>17, <1>18 DEF memo

-----------------------------------------------------------------------------
(* The view *)

LEMMA OperationsAreFinite == IsFiniteSet(Op)
  <1> DEFINE f == [k \in 1..Len(Order) |-> Order[k]]
  <1>1. f \in Surjection(1..Len(Order), Op)
    BY OrderIs DEF Surjection
  <1>2. IsFiniteSet(1..Len(Order))
    <2>1. 1 \in Int /\ Len(Order) \in Int
      BY OrderIs
    <2> QED
      BY <2>1, FS_Interval
  <1> HIDE DEF f
  <1> QED
    BY <1>1, <1>2, FS_Surjection

\* What is joined is a join.
Joins ==
    \A o \in DOMAIN got : got[o].own \in Own /\ got[o].parent \in Op \cup {None}

ShownTyped ==
    shown # None => shown.health \in Health /\ shown.semantic \in [shown.owned -> Semantic]

Derivation == Joins /\ ShownTyped /\ DerivedAsDocumented

LEMMA OwnStates ==
    ASSUME NEW o \in Op, NEW f \in FilesOf
    PROVE  Joined(o, f).own \in Own /\ Joined(o, f).parent \in Op \cup {None}
  BY DEF Joined, OwnState, Own, FilesOf

LEMMA JoinDerives ==
    ASSUME SInv, Derivation, JoinOperator
    PROVE  Derivation'
  <1> DEFINE o == reader.at
             f == [reader.partial EXCEPT !.session = files[o].session]
  <1>1. /\ got' = [q \in DOMAIN got \cup {o} |-> IF q = o THEN Joined(o, f) ELSE got[q]]
        /\ shown' = shown /\ reader.step = "session"
    BY DEF JoinOperator
  <1>2. o \in Op /\ reader.partial \in FilesOf /\ files[o] \in FilesOf
    BY <1>1 DEF SInv, Placed, Typed, Joining
  <1>3. f \in FilesOf
    BY <1>2 DEF FilesOf
  <1> HIDE DEF f
  <1>4. Joins'
    BY <1>1, <1>2, <1>3, OwnStates DEF Derivation, Joins
  <1> QED
    BY <1>1, <1>4 DEF Derivation, ShownTyped, DerivedAsDocumented

\* The view that is computed is as documented.
LEMMA ShowDerives ==
    ASSUME SInv, Derivation, NEW m, shown' = Aggregate(m)
    PROVE  ShownTyped' /\ DerivedAsDocumented'
  <1> DEFINE owned == DOMAIN got
             semantic == Derived(got)
             sick == {o \in m.watch : UnitHealth(Row(o)) = "failed"}
             raises == (UNION {OwnedRaises(m, o) : o \in owned})
                         \cup (IF sick = {} THEN {} ELSE {"degraded"})
  <1>1. /\ shown'.owned = owned /\ shown'.semantic = semantic /\ shown'.join = got
        /\ shown'.health = IF owned \cup m.watch = {} THEN "unknown" ELSE Raised(raises)
        /\ shown'.relations = [o \in owned |-> Relations(semantic, o)]
    BY DEF Aggregate
  <1>2. JoinOK(got)
    BY DEF SInv, Placed, Derivation, Joins, JoinOK
  <1>3. IsFiniteSet(DOMAIN got)
    BY OperationsAreFinite, FS_Subset DEF SInv, Placed
  <1>4. semantic = [u \in owned |-> Documented(got, u)]
    BY <1>2, <1>3, DerivedIs
  <1>5. shown'.health \in Health
    <2>1. \A o : OwnedRaises(m, o) \in SUBSET {"unknown", "degraded", "failed"}
      BY DEF OwnedRaises
    <2>2. raises \in SUBSET {"unknown", "degraded", "failed"}
      BY <2>1
    <2> HIDE DEF raises
    <2>3. Raised(raises) \in {"healthy", "unknown", "degraded", "failed"}
      BY <2>2, RaisedIs
    <2> QED
      BY <1>1, <2>3 DEF Health
  <1> HIDE DEF raises, semantic
  <1>6. \A u \in owned : /\ semantic[u] = Documented(got, u)
                         /\ semantic[u] = "ready" <=> u \in Grounded(got)
                         /\ semantic[u] \in Semantic
    BY <1>2, <1>4, ReadyIsGrounded
  <1>7. ShownTyped'
    BY <1>1, <1>4, <1>5, <1>6 DEF ShownTyped
  <1>8. ASSUME NEW o \in owned, semantic[o] = "waiting"
        PROVE  \E s \in Relations(semantic, o).children : ~s.completed /\ s.semantic # "ready"
    <2>1. PICK c \in ActiveChildren(got, o) : c \notin Grounded(got)
      BY <1>2, <1>6, <1>8 DEF Documented, JoinOK, Own
    <2>2. c \in ChildrenOf(got, o) /\ ~got[c].completed /\ c \in owned
      BY <2>1, KidsAreListed DEF ActiveChildren
    <2>3. /\ Summary(semantic, c) \in Relations(semantic, o).children
          /\ ~Summary(semantic, c).completed
          /\ Summary(semantic, c).semantic = semantic[c]
      BY <2>2 DEF Relations, Summary
    <2> QED
      BY <1>6, <2>1, <2>2, <2>3
  <1>9. DerivedAsDocumented'
    <2> SUFFICES ASSUME NEW o \in owned
                 PROVE  /\ semantic[o] =
                               IF got[o].own \in {"neutral", "running", "blocked"} THEN got[o].own
                               ELSE IF \E c \in ActiveChildren(got, o) : c \notin Grounded(got)
                                    THEN "waiting"
                               ELSE IF got[o].own = "current" THEN "ready" ELSE "stale"
                        /\ semantic[o] = "waiting" =>
                               \E s \in Relations(semantic, o).children :
                                   ~s.completed /\ s.semantic # "ready"
      BY <1>1 DEF DerivedAsDocumented
    <2> QED
      BY <1>6, <1>8 DEF Documented
  <1> QED
    BY <1>7, <1>9

LEMMA StepDerives ==
    ASSUME SInv, Derivation, [Next]_vars
    PROVE  Derivation'
  <1>1. CASE UNCHANGED <<got, shown>>
    BY <1>1 DEF Derivation, Joins, ShownTyped, DerivedAsDocumented
  <1>2. CASE Start
    BY <1>2 DEF Start, Derivation, Joins, ShownTyped, DerivedAsDocumented
  <1>3. CASE Show
    <2>1. shown' = Aggregate(Manifest[reader.dir]) /\ got' = <<>>
      BY <1>3 DEF Show
    <2>2. Joins'
      BY <2>1 DEF Joins
    <2> QED
      BY <2>1, <2>2, ShowDerives DEF Derivation
  <1>4. CASE List \/ ReadLifecycle \/ ReadObservation \/ ReadProcessed \/ ReadCheckpoint \/ ReadBlocker
    BY <1>1, <1>4 DEF List, ReadLifecycle, ReadObservation, ReadProcessed, ReadCheckpoint, ReadBlocker,
                      ReadFile
  <1>5. CASE \E o \in Op : DriverStep(o) \/ ClearBlocker(o)
    <2>1. UNCHANGED <<reader, got, shown>>
      BY <1>5 DEF DriverStep, ClearBlocker, Drive, Write, StartTick, RecoverClearsBlocker, Observe,
            EndTick, StartIteration, FinishIteration, ObserveAgain, RecordBlocker, MarkReady,
            MarkBlocked, WriteCheckpoint, CheckpointDropsBlocker, Complete
    <2> QED
      BY <1>1, <2>1
  <1>6. CASE UNCHANGED vars
    BY <1>1, <1>6 DEF vars
  <1> QED
    BY <1>2, <1>3, <1>4, <1>5, <1>6, JoinDerives, ScopeAssumption DEF Next, ReaderStep

LEMMA InitDerives ==
    ASSUME Init
    PROVE  Derivation
  BY DEF Init, Derivation, Joins, ShownTyped, DerivedAsDocumented

\* For any operations and parents among them, and whatever their files say: an
\* operation is shown ready exactly when it and everything below it is current, an
\* operation that waits for itself never is, and whoever waits is shown with the
\* child it waits for. That derive_semantic_states remembers results, and in which
\* order it visits the operations, makes no difference.
THEOREM ViewsAreAsDocumented == Spec => []DerivedAsDocumented
  <1>1. Init => SInv
    BY InitHolds
  <1>2. Init => Derivation
    BY InitDerives
  <1>3. SInv /\ [Next]_vars => SInv'
    BY StepKeeps
  <1>4. SInv /\ Derivation /\ [Next]_vars => Derivation'
    BY StepDerives
  <1>5. Derivation => DerivedAsDocumented
    BY DEF Derivation
  <1> QED
    BY <1>1, <1>2, <1>3, <1>4, <1>5, PTL DEF Spec

\* Every variable has its type: whatever the files say and however the parents are
\* declared, each operation of a view has a semantic state and the scope a health.
THEOREM ScopeTypes == Spec => []ScopeTypeOK
  <1>1. Init => SInv
    BY InitHolds
  <1>2. Init => Derivation
    BY InitDerives
  <1>3. SInv /\ [Next]_vars => SInv'
    BY StepKeeps
  <1>4. SInv /\ Derivation /\ [Next]_vars => Derivation'
    BY StepDerives
  <1>5. SInv /\ Derivation => ScopeTypeOK
    BY DEF SInv, Typed, Placed, Derivation, Joins, ShownTyped, ScopeTypeOK
  <1> QED
    BY <1>1, <1>2, <1>3, <1>4, <1>5, PTL DEF Spec
=============================================================================
