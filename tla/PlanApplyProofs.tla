-------------------------- MODULE PlanApplyProofs ---------------------------
(***************************************************************************)
(* Theorems about PlanApply and Authoring.                                 *)
(*                                                                         *)
(* PlanApply, for any number of clients, operations, specs, plans and      *)
(* events: PlanOK says what a token can carry, JobOK how far an apply that *)
(* is at some step can have come; both hold however applies overlap.       *)
(* Serial adds, for applies that do not overlap, what the files look like  *)
(* at every step.                                                          *)
(*                                                                         *)
(* Authoring, for words of any length over any alphabet: the loops over    *)
(* words and lists are recursive functions, so their definitions are first *)
(* shown to mean something (RecursionExists, from counting, from the least *)
(* number), then what each loop makes of a word with one more character,   *)
(* then that reading back undoes writing, and last that the files, drafts  *)
(* and intentions agree (WrittenAsMeant).                                  *)
(***************************************************************************)
EXTENDS PlanApply, Authoring, FiniteSetTheorems, WellFoundedInduction, TLAPS

Authored == {"create", "update"}

\* A plan changes only what it looked at, never looked at an unmarked file, and
\* wants what its verb can want.
PlanOK(p) ==
    /\ \A q \in Part : p.saw[q] = Unlisted => p.new[q] = Unlisted
    /\ \A u \in UnitPart : p.saw[u] # Foreign
    /\ p.new["automation"] \in Stem \union {Root, Unlisted}
    /\ p.verb \in Authored =>
        /\ p.spec \in OpSpec
        /\ \A u \in UnitPart : p.new[u] \in OpSpec \union {Unlisted}
        /\ p.new["service"] # Unlisted
        /\ p.new["lifecycle"] = Unlisted
    /\ p.verb = "retire" =>
        /\ \A u \in UnitPart : p.new[u] \in {Absent, Unlisted}
        /\ \E u \in UnitPart : p.new[u] # Unlisted
        /\ p.new["automation"] = Unlisted /\ p.new["lifecycle"] = Unlisted
    /\ p.verb = "complete" =>
        /\ \A q \in UnitPart \union {"automation"} : p.new[q] = Unlisted
        /\ p.new["lifecycle"] = Completed
        /\ \A u \in UnitPart : p.saw[u] = Unlisted
    /\ p.verb \in ControlVerb =>
        \A q \in Part : p.saw[q] = Unlisted /\ p.new[q] = Unlisted

\* What client c can have left to write at each step, and for which verb.
JobOK(j) ==
    j.at # "idle" =>
      LET p == j.plan
      IN  /\ p \in plans
          /\ j.left \subseteq Changed(p)
          /\ j.at = "files" => p.verb \in Authored \union {"retire"} /\ j.left = Changed(p)
          /\ j.at \in {"define", "rename"} =>
                p.verb \in Authored /\ j.left \intersect UnitPart # {}
          /\ j.at \in {"enable", "start"} =>
                p.verb \in Authored /\ j.left \subseteq {"automation"}
          /\ j.at = "quiesce" => p.verb = "retire" /\ j.left = Changed(p)
          /\ j.at = "unlink" => p.verb = "retire" /\ j.left \intersect UnitPart # {}
          /\ j.at \in {"stop", "disable"} => p.verb = "complete" /\ j.left = Changed(p)
          /\ j.at = "record" =>
                \/ p.verb \in Authored /\ j.left \subseteq {"automation"}
                \/ p.verb = "complete" /\ j.left \subseteq {"lifecycle"}
          /\ j.at = "verb" => p.verb \in ControlVerb /\ j.left = {}
          /\ j.at = "done" => j.left = {}

Typed ==
    /\ TypeOK
    /\ \A p \in plans : PlanOK(p)
    /\ \A c \in Client : JobOK(job[c])

\* Applies that do not overlap: at most one client is in one, and the files its
\* plan looked at are as it saw them, but for those it has replaced.
Alone == \A c, d \in Client : job[c].at # "idle" /\ job[d].at # "idle" => c = d

Half(c) ==
    LET p == PlanOf(c)  s == PlanOf(c).stem
    IN  /\ job[c].at = "files" => Fresh(p, {"automation", "lifecycle"})
        /\ job[c].at \notin {"idle", "files"} =>
            \A q \in Part : p.saw[q] # Unlisted =>
                store[s][q] = IF q \in job[c].left \/ p.new[q] = Unlisted
                              THEN p.saw[q] ELSE p.new[q]
        /\ job[c].at = "rename" => staged[s][NextUnit(c)] = p.new[NextUnit(c)]

Serial == Alone /\ \A c \in Client : Half(c)

\* A completion has dealt with the timer before it records anything.
Hushed(c) ==
    LET s == PlanOf(c).stem
    IN  /\ job[c].at = "disable" => <<s, "timer">> \notin active
        /\ job[c].at = "record" /\ PlanOf(c).verb = "complete" /\ Known(s, "timer") =>
                <<s, "timer">> \notin enabled \union active

-----------------------------------------------------------------------------
(* Plans *)

LEMMA SeenIsWanted ==
    ASSUME TypeOK, NEW s \in Stem, NEW P
    PROVE  Seen(s, P) \in Wanted /\ Untouched \in Wanted
  BY DEF Seen, Untouched, Wanted, TypeOK

\* Author makes a sound plan when the unit files it looks at are not foreign.
LEMMA AuthorIsSound ==
    ASSUME TypeOK, NEW s \in Stem, NEW verb \in Authored, NEW x \in OpSpec,
           NEW lane \in Lanes, NEW m \in Parents(lane),
           \A u \in Files(x) : store[s][u] # Foreign
    PROVE  /\ Author(verb, s, x, lane, m) \in Plan
           /\ PlanOK(Author(verb, s, x, lane, m))
           /\ Author(verb, s, x, lane, m).new["automation"] = m
  <1> DEFINE p == Author(verb, s, x, lane, m)
  <1>1. m \in Stem \union {Root, Unlisted}
    BY DEF Parents
  <1>2. Seen(s, LooksAt(lane, x)) \in Wanted
    BY SeenIsWanted
  <1>3. p.new \in Wanted
    BY <1>1 DEF Author, Wanted, Value
  <1>4. /\ p.verb = verb /\ p.spec = x /\ p.saw = Seen(s, LooksAt(lane, x))
        /\ p.new = [q \in Part |-> IF q \in Files(x) THEN x
                                   ELSE IF q = "automation" THEN m ELSE Unlisted]
    BY DEF Author
  <1>5. p \in Plan
    BY <1>2, <1>3 DEF Author, Plan, Verb, Authored, UnitPart
  <1>6. Files(x) \subseteq UnitPart /\ "service" \in Files(x)
    BY DEF Files, UnitPart
  <1>7. \A q \in Part : p.saw[q] = Unlisted => p.new[q] = Unlisted
    <2> SUFFICES ASSUME NEW q \in Part, p.new[q] # Unlisted PROVE p.saw[q] # Unlisted
      OBVIOUS
    <2>1. q \in LooksAt(lane, x)
      BY <1>4 DEF LooksAt, Parents
    <2>2. store[s][q] \in Value
      BY DEF TypeOK
    <2> QED
      BY <1>4, <2>1, <2>2, PlanApplyAssumption DEF Seen, Value
  <1>8. \A u \in UnitPart : p.saw[u] # Foreign
    BY <1>4, <1>6, PlanApplyAssumption DEF Seen, LooksAt, UnitPart, Part
  <1>9. p.new["automation"] = m
    BY <1>4, <1>6 DEF Part, UnitPart
  <1>10. /\ \A u \in UnitPart : p.new[u] \in OpSpec \union {Unlisted}
         /\ p.new["service"] # Unlisted
         /\ p.new["lifecycle"] = Unlisted
    BY <1>4, <1>6, PlanApplyAssumption DEF Part, UnitPart
  <1> HIDE DEF p
  <1> QED
    BY <1>1, <1>4, <1>5, <1>7, <1>8, <1>9, <1>10 DEF PlanOK, Authored, ControlVerb, p

\* Every way to plan mints a sound plan.
LEMMA PlansAreSound ==
    ASSUME TypeOK, NEW s \in Stem, Planning(s)
    PROVE  \E p \in Plan : Mint(p) /\ PlanOK(p) /\ p.stem = s
                             /\ \E n : ValidParent(s, n) /\ p.new["automation"] = n
  <1> DEFINE Goal == \E p \in Plan : Mint(p) /\ PlanOK(p) /\ p.stem = s
                             /\ \E n : ValidParent(s, n) /\ p.new["automation"] = n
  <1>1. ValidParent(s, Unlisted)
    BY PlanApplyAssumption DEF ValidParent
  <1>2. ASSUME NEW x \in OpSpec, NEW lane \in Lanes, NEW m \in Parents(lane),
               PlanCreate(s, x, lane, m) \/ PlanUpdate(s, x, lane, m)
        PROVE  Goal
    <2>1. \A u \in Files(x) : store[s][u] # Foreign
      BY <1>2, PlanApplyAssumption DEF PlanCreate, PlanUpdate, LooksAt
    <2>2. PICK verb \in Authored : Mint(Author(verb, s, x, lane, m)) /\ ValidParent(s, m)
      BY <1>2 DEF PlanCreate, PlanUpdate, Authored
    <2>3. Author(verb, s, x, lane, m).stem = s
      BY DEF Author
    <2> QED
      BY <2>1, <2>2, <2>3, AuthorIsSound
  <1>3. CASE PlanRetire(s)
    <2> DEFINE found == {u \in UnitPart : store[s][u] # Absent}
               p == [verb |-> "retire", stem |-> s, spec |-> Unlisted, unit |-> "service",
                     observed |-> FALSE, saw |-> Seen(s, found),
                     new |-> [q \in Part |-> IF q \in found THEN Absent ELSE Unlisted]]
    <2>1. Mint(p) /\ found # {} /\ \A u \in found : store[s][u] # Foreign
      BY <1>3 DEF PlanRetire
    <2>2. p.new \in Wanted
      BY DEF Wanted, Value
    <2>3. p \in Plan
      BY <2>2, SeenIsWanted DEF Plan, Verb, UnitPart
    <2>4. /\ p.verb = "retire" /\ p.stem = s /\ p.saw = Seen(s, found)
          /\ p.new = [q \in Part |-> IF q \in found THEN Absent ELSE Unlisted]
      OBVIOUS
    <2>5. \A q \in Part : p.saw[q] = Unlisted => p.new[q] = Unlisted
      BY <2>4, PlanApplyAssumption DEF Seen, TypeOK, Value
    <2>6. \A u \in UnitPart : p.saw[u] # Foreign
      BY <2>1, <2>4, PlanApplyAssumption DEF Seen, Part
    <2>7. /\ \A u \in UnitPart : p.new[u] \in {Absent, Unlisted}
          /\ \E u \in UnitPart : p.new[u] # Unlisted
          /\ p.new["automation"] = Unlisted /\ p.new["lifecycle"] = Unlisted
      BY <2>1, <2>4, PlanApplyAssumption DEF Part, UnitPart
    <2> HIDE DEF p, found
    <2>8. PlanOK(p)
      BY <2>4, <2>5, <2>6, <2>7 DEF PlanOK, Authored, ControlVerb
    <2> QED
      BY <1>1, <2>1, <2>3, <2>4, <2>7, <2>8
  <1>4. CASE PlanComplete(s)
    <2> DEFINE p == [verb |-> "complete", stem |-> s, spec |-> Unlisted, unit |-> "service",
                     observed |-> FALSE, saw |-> Seen(s, {"lifecycle"}),
                     new |-> [Untouched EXCEPT !["lifecycle"] = Completed]]
    <2>1. Mint(p) /\ store[s]["lifecycle"] = Absent
      BY <1>4 DEF PlanComplete
    <2>2. p.new \in Wanted
      BY SeenIsWanted DEF Wanted, Value
    <2>3. p \in Plan
      BY <2>2, SeenIsWanted DEF Plan, Verb, UnitPart
    <2>4. /\ p.verb = "complete" /\ p.stem = s /\ p.saw = Seen(s, {"lifecycle"})
          /\ \A q \in Part : p.new[q] = IF q = "lifecycle" THEN Completed ELSE Unlisted
      BY DEF Untouched, Part
    <2>5. \A q \in Part : p.saw[q] = Unlisted => p.new[q] = Unlisted
      BY <2>1, <2>4, PlanApplyAssumption DEF Seen
    <2>6. \A u \in UnitPart : p.saw[u] # Foreign
      BY <2>4, PlanApplyAssumption DEF Seen, Part, UnitPart
    <2>7. /\ \A q \in UnitPart \union {"automation"} : p.new[q] = Unlisted
          /\ p.new["lifecycle"] = Completed
          /\ \A u \in UnitPart : p.saw[u] = Unlisted
      BY <2>4 DEF Part, UnitPart, Seen
    <2> HIDE DEF p
    <2>8. PlanOK(p)
      BY <2>4, <2>5, <2>6, <2>7 DEF PlanOK, Authored, ControlVerb
    <2> QED
      BY <1>1, <2>1, <2>3, <2>4, <2>7, <2>8
  <1>5. ASSUME NEW verb \in Controls, NEW u \in UnitPart, PlanControl(verb, s, u)
        PROVE  Goal
    <2> DEFINE p == [verb |-> verb, stem |-> s, spec |-> Unlisted, unit |-> u,
                     observed |-> Observed(verb, s, u), saw |-> Untouched,
                     new |-> Untouched]
    <2>1. Mint(p)
      BY <1>5 DEF PlanControl
    <2>2. verb \in ControlVerb
      BY PlanApplyAssumption DEF ControlVerb
    <2>3. Observed(verb, s, u) \in BOOLEAN
      BY DEF Observed
    <2>4. p \in Plan
      BY <2>2, <2>3, SeenIsWanted DEF Plan, Verb
    <2>5. /\ p.verb = verb /\ p.stem = s
          /\ \A q \in Part : p.saw[q] = Unlisted /\ p.new[q] = Unlisted
      BY DEF Untouched
    <2> HIDE DEF p
    <2>6. PlanOK(p)
      BY <2>2, <2>5, PlanApplyAssumption DEF PlanOK, Authored, ControlVerb, Part, UnitPart
    <2>7. p.new["automation"] = Unlisted
      BY <2>5 DEF Part
    <2> QED
      BY <1>1, <2>1, <2>4, <2>5, <2>6, <2>7
  <1> QED
    BY <1>2, <1>3, <1>4, <1>5 DEF Planning

-----------------------------------------------------------------------------
(* Types *)

\* Everything but plans and jobs has its type after the step.
RestTyped ==
    /\ store' \in [Stem -> [Part -> Value]]
    /\ staged' \in [Stem -> [UnitPart -> OpSpec \union {Absent}]]
    /\ enabled' \subseteq Unit /\ active' \subseteq Unit
    /\ expired' \subseteq plans'
    /\ answer' \in [Client -> {"none", "applied", "error"}]
    /\ events' \in Nat

LEMMA TypedInit == Init => Typed
  <1> SUFFICES ASSUME Init PROVE Typed
    OBVIOUS
  <1>1. \A o \in Origins : Installed(o[1], o[2]) \in [Part -> Value]
    BY PlanApplyAssumption DEF Installed, Value
  <1>2. Nothing \in [Part -> Value]
    BY DEF Nothing, Value
  <1>3. store \in [Stem -> [Part -> Value]]
    BY <1>1, <1>2 DEF Init
  <1>4. \A x : EnableUnit(x) \subseteq UnitPart
    BY DEF EnableUnit, Trigger, UnitPart
  <1>5. enabled \subseteq Unit
    BY <1>4 DEF Init, Unit
  <1>6. Idle \in Job /\ JobOK(Idle)
    BY DEF Idle, Job, Step, JobOK
  <1> QED
    BY <1>3, <1>5, <1>6 DEF Init, Typed, TypeOK

\* A step of one client that makes no plan.
LEMMA JobStep ==
    ASSUME Typed, RestTyped, plans' = plans, NEW c \in Client, NEW j \in Job,
           JobOK(j), job' = [job EXCEPT ![c] = j]
    PROVE  Typed'
  <1>1. job' \in [Client -> Job]
    BY DEF Typed, TypeOK
  <1>2. ASSUME NEW d \in Client PROVE JobOK(job[d])'
    <2>1. CASE d = c
      BY <2>1 DEF JobOK, Typed, TypeOK
    <2>2. CASE d # c
      <3>1. job'[d] = job[d]
        BY <2>2 DEF Typed, TypeOK
      <3> QED
        BY <3>1 DEF JobOK, Typed
    <2> QED
      BY <2>1, <2>2
  <1>3. \A p \in plans : PlanOK(p)'
    BY DEF Typed, PlanOK
  <1> QED
    BY <1>1, <1>2, <1>3 DEF Typed, TypeOK, RestTyped

\* A step that touches neither plans nor jobs.
LEMMA RestStep ==
    ASSUME Typed, RestTyped, plans' = plans, job' = job
    PROVE  Typed'
  BY DEF Typed, TypeOK, RestTyped, JobOK, PlanOK

\* What a client in an apply is known to hold.
LEMMA InJob ==
    ASSUME Typed, NEW c \in Client, job[c].at # "idle"
    PROVE  /\ job[c] \in Job /\ JobOK(job[c])
           /\ PlanOf(c) \in plans /\ PlanOf(c) \in Plan /\ PlanOK(PlanOf(c))
           /\ PlanOf(c).stem \in Stem
           /\ job[c].left \subseteq Changed(PlanOf(c))
  BY DEF Typed, TypeOK, PlanOf, JobOK, Plan

\* The other variables of a step that leaves all of them alone.
LEMMA RestUnchanged ==
    ASSUME Typed, NEW a \in {"none", "applied", "error"}, NEW c \in Client,
           answer' \in {answer, [answer EXCEPT ![c] = a]},
           UNCHANGED <<store, staged, runtime, tokens, events>>
    PROVE  RestTyped /\ plans' = plans
  BY DEF Typed, TypeOK, RestTyped, runtime, tokens

\* Going on to another step of the same apply with the same parts to write.
LEMMA GotoStep ==
    ASSUME Typed, RestTyped, plans' = plans, NEW c \in Client, job[c].at # "idle",
           NEW step \in Step, Goto(c, step), JobOK([job[c] EXCEPT !.at = step])
    PROVE  Typed'
  <1>1. [job[c] EXCEPT !.at = step] \in Job
    BY InJob DEF Job
  <1>2. job' = [job EXCEPT ![c] = [job[c] EXCEPT !.at = step]]
    BY DEF Goto
  <1> QED
    BY <1>1, <1>2, JobStep

LEMMA GotoIsOK ==
    ASSUME Typed, NEW c \in Client, job[c].at # "idle", NEW step \in Step,
           \/ job[c].at = "files" /\ step = "quiesce" /\ PlanOf(c).verb = "retire"
           \/ job[c].at = "files" /\ step = "define" /\ PlanOf(c).verb # "retire"
           \/ job[c].at = "define" /\ step = "rename"
           \/ job[c].at = "enable" /\ step = "start"
           \/ job[c].at = "start" /\ step = "done" /\ job[c].left = {}
           \/ job[c].at = "start" /\ step = "record"
           \/ job[c].at = "quiesce" /\ step = "unlink"
           \/ job[c].at = "stop" /\ step \in {"disable", "record"}
           \/ job[c].at = "disable" /\ step = "record"
           \/ job[c].at = "verb" /\ step = "done"
    PROVE  JobOK([job[c] EXCEPT !.at = step])
  <1> DEFINE j == [job[c] EXCEPT !.at = step]
             p == PlanOf(c)
  <1>1. /\ j.at = step /\ j.plan = p /\ j.left = job[c].left
        /\ job[c] \in Job /\ JobOK(job[c]) /\ p \in plans /\ PlanOK(p)
        /\ job[c].left \subseteq Changed(p) /\ job[c].plan = p
    BY InJob DEF Job, PlanOf
  <1>2. job[c].at = "files" /\ p.verb # "retire" =>
            p.verb \in Authored /\ job[c].left \intersect UnitPart # {}
    BY <1>1 DEF JobOK, PlanOK, Authored, Changed, UnitPart, Part
  <1>3. job[c].at = "quiesce" => p.verb = "retire" /\ job[c].left \intersect UnitPart # {}
    BY <1>1 DEF JobOK, PlanOK, Changed, UnitPart, Part
  <1>4. job[c].at \in {"stop", "disable"} =>
            p.verb = "complete" /\ job[c].left = Changed(p) /\ job[c].left \subseteq {"lifecycle"}
    BY <1>1 DEF JobOK, PlanOK, Changed, UnitPart, Part
  <1> HIDE DEF j
  <1>5. JobOK(j)
    BY <1>1, <1>2, <1>3, <1>4 DEF JobOK
  <1> QED
    BY <1>5 DEF j

\* A part is written: what is left is less, and the next step fits it.
LEMMA WroteIsOK ==
    ASSUME Typed, RestTyped, plans' = plans, NEW c \in Client, job[c].at # "idle",
           NEW q \in Part,
           \/ job[c].at = "rename" /\ Wrote(c, q, "define", "enable")
           \/ job[c].at = "unlink" /\ Wrote(c, q, "unlink", "done")
           \/ job[c].at = "record" /\ q \in job[c].left /\ Wrote(c, q, "done", "done")
    PROVE  Typed'
  <1> DEFINE rest == job[c].left \ {q}
             at == CASE job[c].at = "rename" ->
                            IF rest \intersect UnitPart # {} THEN "define" ELSE "enable"
                     [] job[c].at = "unlink" ->
                            IF rest \intersect UnitPart # {} THEN "unlink" ELSE "done"
                     [] OTHER -> "done"
             p == PlanOf(c)
             j == [at |-> at, plan |-> p, left |-> rest]
  <1>1. /\ job[c] \in Job /\ JobOK(job[c]) /\ p \in plans /\ p \in Plan /\ PlanOK(p)
        /\ job[c].left \subseteq Changed(p) /\ job[c].plan = p
    BY InJob DEF PlanOf
  <1>2. job' = [job EXCEPT ![c] = j]
    BY DEF Wrote
  <1>3. j \in Job
    BY <1>1 DEF Job, Step
  <1>4. j.at = at /\ j.plan = p /\ j.left = rest /\ rest \subseteq Changed(p)
    BY <1>1
  <1>5. JobOK(j)
    <2>1. CASE job[c].at = "rename"
      <3>1. p.verb \in Authored /\ rest \subseteq UnitPart \union {"automation"}
        BY <1>1, <1>4, <2>1 DEF JobOK, PlanOK, Authored, Changed, Part, UnitPart
      <3> HIDE DEF j, p, rest
      <3> QED
        BY <1>1, <1>4, <2>1, <3>1 DEF JobOK
    <2>2. CASE job[c].at = "unlink"
      <3>1. p.verb = "retire" /\ rest \subseteq UnitPart
        BY <1>1, <1>4, <2>2 DEF JobOK, PlanOK, Changed, Part, UnitPart
      <3> HIDE DEF j, p, rest
      <3> QED
        BY <1>1, <1>4, <2>2, <3>1 DEF JobOK
    <2>3. CASE job[c].at = "record" /\ q \in job[c].left
      <3>1. rest = {}
        BY <1>1, <2>3 DEF JobOK
      <3> HIDE DEF j, p, rest
      <3> QED
        BY <1>1, <1>4, <2>3, <3>1 DEF JobOK
    <2> QED
      BY <2>1, <2>2, <2>3
  <1> HIDE DEF j
  <1> QED
    BY <1>2, <1>3, <1>5, JobStep

LEMMA TypedApplying ==
    ASSUME Typed, NEW c \in Client, Applying(c)
    PROVE  Typed'
  <1>1. ASSUME NEW p \in plans, Present(c, p) PROVE Typed'
    <2> DEFINE j == [at |-> FirstStep(p), plan |-> p, left |-> Changed(p)]
    <2>1. p \in Plan /\ PlanOK(p)
      BY DEF Typed, TypeOK
    <2>2. p.verb \in Verb
      BY <2>1 DEF Plan
    <2>3. j \in Job
      BY <2>1 DEF Job, Step, FirstStep, Changed
    <2>4. p.verb = "complete" => FirstStep(p) = "stop"
      BY DEF FirstStep, ControlVerb
    <2>5. p.verb \in ControlVerb => FirstStep(p) = "verb" /\ Changed(p) = {}
      BY <2>1 DEF FirstStep, ControlVerb, PlanOK, Changed
    <2>6. p.verb \in Authored \union {"retire"} => FirstStep(p) = "files"
      BY DEF FirstStep, ControlVerb, Authored
    <2>7. JobOK(j)
      BY <2>2, <2>4, <2>5, <2>6 DEF JobOK, Verb, Authored
    <2>8. RestTyped /\ plans' = plans
      BY <1>1, RestUnchanged DEF Present
    <2>9. job' = [job EXCEPT ![c] = j]
      BY <1>1 DEF Present
    <2> HIDE DEF j
    <2> QED
      BY <2>3, <2>7, <2>8, <2>9, JobStep
  <1>2. CASE CheckFiles(c)
    <2> DEFINE step == IF PlanOf(c).verb = "retire" THEN "quiesce" ELSE "define"
    <2>1. RestTyped /\ plans' = plans
      BY <1>2, RestUnchanged DEF CheckFiles
    <2>2. At(c, "files") /\ Goto(c, step)
      BY <1>2 DEF CheckFiles
    <2> QED
      BY <2>1, <2>2, GotoIsOK, GotoStep DEF At, Step
  <1>3. CASE StageFile(c)
    <2> DEFINE p == PlanOf(c)  u == NextUnit(c)
    <2>1. /\ At(c, "define") /\ Goto(c, "rename")
          /\ staged' = [staged EXCEPT ![p.stem][u] = p.new[u]]
          /\ UNCHANGED <<store, runtime, tokens, answer, events>>
      BY <1>3 DEF StageFile
    <2>2. PlanOK(p) /\ JobOK(job[c]) /\ p \in Plan /\ job[c].left \subseteq Changed(p)
      BY <2>1, InJob DEF At
    <2>3. u \in job[c].left /\ u \in UnitPart
      BY <2>1, <2>2 DEF JobOK, NextUnit, UnitPart, At
    <2>4. p.new[u] \in OpSpec
      BY <2>1, <2>2, <2>3 DEF JobOK, PlanOK, Changed, PlanOf, At, UnitPart
    <2>5. RestTyped /\ plans' = plans
      <3> HIDE DEF p, u
      <3> QED
        BY <2>1, <2>3, <2>4 DEF Typed, TypeOK, RestTyped, runtime, tokens
    <2> QED
      BY <2>1, <2>5, GotoIsOK, GotoStep DEF At, Step
  <1>4. CASE RenameFile(c)
    <2> DEFINE s == PlanOf(c).stem  u == NextUnit(c)
    <2>1. /\ At(c, "rename") /\ Wrote(c, u, "define", "enable") /\ staged[s][u] # Absent
          /\ store' = [store EXCEPT ![s][u] = staged[s][u]]
          /\ staged' = [staged EXCEPT ![s][u] = Absent]
          /\ UNCHANGED <<runtime, tokens, answer, events>>
      BY <1>4 DEF RenameFile
    <2>2. s \in Stem /\ u \in UnitPart /\ u \in Part
      BY <2>1, InJob DEF At, NextUnit, UnitPart, Part
    <2>3. staged[s][u] \in Value
      BY <2>2 DEF Typed, TypeOK, Value
    <2>4. RestTyped /\ plans' = plans
      <3> HIDE DEF s, u
      <3> QED
        BY <2>1, <2>2, <2>3 DEF Typed, TypeOK, RestTyped, runtime, tokens
    <2> QED
      BY <2>1, <2>2, <2>4, WroteIsOK DEF At
  <1>5. CASE EnableUnits(c)
    <2> DEFINE s == PlanOf(c).stem
    <2>1. /\ At(c, "enable") /\ Goto(c, "start")
          /\ enabled' \subseteq enabled \union ({s} \X EnableUnit(PlanOf(c).spec))
          /\ UNCHANGED <<store, staged, active, tokens, answer, events>>
      BY <1>5 DEF EnableUnits
    <2>2. s \in Stem /\ EnableUnit(PlanOf(c).spec) \subseteq UnitPart
      BY <2>1, InJob DEF At, EnableUnit, Trigger, UnitPart
    <2>3. enabled' \subseteq Unit
      BY <2>1, <2>2 DEF Typed, TypeOK, Unit
    <2>4. RestTyped /\ plans' = plans
      BY <2>1, <2>3 DEF Typed, TypeOK, RestTyped, tokens
    <2> QED
      BY <2>1, <2>4, GotoIsOK, GotoStep DEF At, Step
  <1>6. CASE StartUnits(c)
    <2> DEFINE s == PlanOf(c).stem  step == IF job[c].left = {} THEN "done" ELSE "record"
    <2>1. /\ At(c, "start") /\ Goto(c, step)
          /\ active' = active \union ({s} \X StartUnit(PlanOf(c).spec))
          /\ UNCHANGED <<store, staged, enabled, tokens, answer, events>>
      BY <1>6 DEF StartUnits
    <2>2. s \in Stem /\ StartUnit(PlanOf(c).spec) \subseteq UnitPart
      BY <2>1, InJob DEF At, StartUnit, Trigger, UnitPart
    <2>3. active' \subseteq Unit
      BY <2>1, <2>2 DEF Typed, TypeOK, Unit
    <2>4. RestTyped /\ plans' = plans
      BY <2>1, <2>3 DEF Typed, TypeOK, RestTyped, tokens
    <2> QED
      BY <2>1, <2>4, GotoIsOK, GotoStep DEF At, Step
  <1>7. CASE RecordState(c)
    <2> DEFINE p == PlanOf(c)
    <2>1. At(c, "record") /\ UNCHANGED <<staged, runtime, tokens, answer, events>>
      BY <1>7 DEF RecordState
    <2>2. PICK q \in job[c].left :
            /\ store' = [store EXCEPT ![p.stem][q] = p.new[q]]
            /\ Wrote(c, q, "done", "done")
      BY <1>7 DEF RecordState
    <2>3. p \in Plan /\ q \in Part /\ p.new[q] # Unlisted /\ p.stem \in Stem
      BY <2>1, InJob DEF At, Changed
    <2>4. p.new[q] \in Value
      BY <2>3 DEF Plan, Wanted
    <2>5. RestTyped /\ plans' = plans
      <3> HIDE DEF p
      <3> QED
        BY <2>1, <2>2, <2>3, <2>4 DEF Typed, TypeOK, RestTyped, runtime, tokens
    <2> QED
      BY <2>1, <2>2, <2>3, <2>5, WroteIsOK DEF At
  <1>8. CASE Quiesce(c)
    <2>1. /\ At(c, "quiesce") /\ Goto(c, "unlink")
          /\ enabled' \subseteq enabled /\ active' \subseteq active
          /\ UNCHANGED <<store, staged, tokens, answer, events>>
      BY <1>8 DEF Quiesce
    <2>2. RestTyped /\ plans' = plans
      BY <2>1 DEF Typed, TypeOK, RestTyped, tokens
    <2> QED
      BY <2>1, <2>2, GotoIsOK, GotoStep DEF At, Step
  <1>9. CASE UnlinkFile(c)
    <2> DEFINE s == PlanOf(c).stem  u == NextUnit(c)
    <2>1. /\ At(c, "unlink") /\ Wrote(c, u, "unlink", "done")
          /\ store' = [store EXCEPT ![s][u] = Absent]
          /\ UNCHANGED <<staged, runtime, tokens, answer, events>>
      BY <1>9 DEF UnlinkFile
    <2>2. s \in Stem /\ u \in Part /\ Absent \in Value
      BY <2>1, InJob DEF At, NextUnit, UnitPart, Part, Value
    <2>3. RestTyped /\ plans' = plans
      <3> HIDE DEF s, u
      <3> QED
        BY <2>1, <2>2 DEF Typed, TypeOK, RestTyped, runtime, tokens
    <2> QED
      BY <2>1, <2>2, <2>3, WroteIsOK DEF At
  <1>10. CASE StopTimer(c)
    <2>1. /\ At(c, "stop") /\ active' \subseteq active
          /\ Goto(c, "disable") \/ Goto(c, "record")
          /\ UNCHANGED <<store, staged, enabled, tokens, answer, events>>
      BY <1>10 DEF StopTimer
    <2>2. RestTyped /\ plans' = plans
      BY <2>1 DEF Typed, TypeOK, RestTyped, tokens
    <2> QED
      BY <2>1, <2>2, GotoIsOK, GotoStep DEF At, Step
  <1>11. CASE DisableTimer(c)
    <2>1. /\ At(c, "disable") /\ enabled' \subseteq enabled /\ Goto(c, "record")
          /\ UNCHANGED <<store, staged, active, tokens, answer, events>>
      BY <1>11 DEF DisableTimer
    <2>2. RestTyped /\ plans' = plans
      BY <2>1 DEF Typed, TypeOK, RestTyped, tokens
    <2> QED
      BY <2>1, <2>2, GotoIsOK, GotoStep DEF At, Step
  <1>12. CASE Control(c)
    <2> DEFINE unit == {<<PlanOf(c).stem, PlanOf(c).unit>>}
    <2>1. /\ At(c, "verb") /\ Goto(c, "done")
          /\ active' \subseteq active \union unit
          /\ enabled' \subseteq enabled \union unit
          /\ UNCHANGED <<store, staged, tokens, answer, events>>
      BY <1>12 DEF Control
    <2>2. unit \subseteq Unit
      BY <2>1, InJob DEF At, Plan, Unit
    <2>3. RestTyped /\ plans' = plans
      BY <2>1, <2>2 DEF Typed, TypeOK, RestTyped, tokens
    <2> QED
      BY <2>1, <2>3, GotoIsOK, GotoStep DEF At, Step
  <1>13. CASE Finish(c) \/ Abandon(c)
    <2>1. Idle \in Job /\ JobOK(Idle)
      BY DEF Idle, Job, Step, JobOK
    <2>2. RestTyped /\ plans' = plans
      BY <1>13, RestUnchanged DEF Finish, Abandon
    <2>3. job' = [job EXCEPT ![c] = Idle]
      BY <1>13 DEF Finish, Abandon
    <2> QED
      BY <2>1, <2>2, <2>3, JobStep
  <1> QED
    BY <1>1, <1>2, <1>3, <1>4, <1>5, <1>6, <1>7, <1>8, <1>9, <1>10, <1>11, <1>12, <1>13
       DEF Applying

LEMMA TypedStep == Typed /\ [Next]_vars => Typed'
  <1> SUFFICES ASSUME Typed, [Next]_vars PROVE Typed'
    OBVIOUS
  <1>1. ASSUME NEW s \in Moving, Planning(s) PROVE Typed'
    <2>1. s \in Stem
      BY PlanApplyAssumption
    <2>2. PICK p \in Plan : Mint(p) /\ PlanOK(p)
      BY <1>1, <2>1, PlansAreSound DEF Typed
    <2>3. plans' = plans \union {p} /\ UNCHANGED <<store, staged, runtime, expired, job, answer, events>>
      BY <2>2 DEF Mint
    <2> QED
      BY <2>2, <2>3 DEF Typed, TypeOK, JobOK, PlanOK, runtime
  <1>2. ASSUME NEW s \in Moving, Outside(s) PROVE Typed'
    <2>1. s \in Stem
      BY PlanApplyAssumption
    <2>2. RestTyped /\ plans' = plans /\ job' = job
      <3>1. ASSUME NotifyParent(s) \/ TimerFires(s) \/ ServiceEnds(s)
            PROVE  RestTyped /\ plans' = plans /\ job' = job
        <4>1. active' \subseteq Unit
          BY <2>1, <3>1 DEF NotifyParent, TimerFires, ServiceEnds, Typed, TypeOK, Unit, UnitPart
        <4>2. events' \in Nat /\ UNCHANGED <<store, staged, enabled, plans, expired, job, answer>>
          BY <3>1 DEF NotifyParent, TimerFires, ServiceEnds, Event, Typed, TypeOK, tokens
        <4> QED
          BY <4>1, <4>2 DEF RestTyped, Typed, TypeOK
      <3>2. ASSUME NEW u \in UnitPart, HandEdit(s, u)
            PROVE  RestTyped /\ plans' = plans /\ job' = job
        <4>1. events' \in Nat /\ UNCHANGED <<staged, enabled, active, plans, expired, job, answer>>
          BY <3>2 DEF HandEdit, Event, Typed, TypeOK, tokens, runtime
        <4>2. PICK v \in {Absent, Foreign} : store' = [store EXCEPT ![s][u] = v]
          BY <3>2 DEF HandEdit
        <4>3. store' \in [Stem -> [Part -> Value]]
          <5>1. v \in Value /\ u \in Part
            BY DEF Value, Part
          <5> QED
            BY <2>1, <4>2, <5>1 DEF Typed, TypeOK
        <4> QED
          BY <4>1, <4>3 DEF RestTyped, Typed, TypeOK
      <3> QED
        BY <1>2, <3>1, <3>2 DEF Outside
    <2> QED
      BY <2>2, RestStep
  <1>3. ASSUME NEW p \in plans, Expire(p) PROVE Typed'
    <2>1. RestTyped /\ plans' = plans /\ job' = job
      BY <1>3 DEF Expire, RestTyped, Typed, TypeOK, runtime
    <2> QED
      BY <2>1, RestStep
  <1>4. CASE UNCHANGED vars
    <2>1. RestTyped /\ plans' = plans /\ job' = job
      BY <1>4 DEF vars, RestTyped, Typed, TypeOK
    <2> QED
      BY <2>1, RestStep
  <1> QED
    BY <1>1, <1>2, <1>3, <1>4, TypedApplying DEF Next

\* However applies overlap, everything has its type, and a client that is in an
\* apply holds a plan that was minted.
THEOREM PlanApplyTyped == Spec => []TypeOK
  <1>1. Spec => []Typed
    BY TypedInit, TypedStep, PTL DEF Spec
  <1>2. Typed => TypeOK
    BY DEF Typed
  <1> QED
    BY <1>1, <1>2, PTL

-----------------------------------------------------------------------------
(* What a step does to the files *)

\* A write to one part of one operation.
Write(s, q, v) == store' = [store EXCEPT ![s][q] = v]

LEMMA WriteIsLocal ==
    ASSUME TypeOK, NEW s \in Stem, NEW q \in Part, NEW v, Write(s, q, v)
    PROVE  /\ store'[s][q] = v
           /\ \A t \in Stem, r \in Part : t # s \/ r # q => store'[t][r] = store[t][r]
  BY DEF Write, TypeOK

\* RecordState writes the part its plan wants.
LEMMA RecordWrites ==
    ASSUME Typed, NEW c \in Client, RecordState(c)
    PROVE  \E q \in job[c].left \intersect Part :
              /\ Write(PlanOf(c).stem, q, PlanOf(c).new[q])
              /\ Wrote(c, q, "done", "done")
              /\ PlanOf(c).new[q] # Unlisted
              /\ \/ PlanOf(c).verb \in Authored /\ q = "automation"
                 \/ PlanOf(c).verb = "complete" /\ q = "lifecycle"
  <1>1. job[c].at = "record"
    BY DEF RecordState, At
  <1>2. PICK q \in job[c].left : /\ Write(PlanOf(c).stem, q, PlanOf(c).new[q])
                                 /\ Wrote(c, q, "done", "done")
    BY DEF RecordState, Write
  <1>3. JobOK(job[c]) /\ job[c].left \subseteq Changed(PlanOf(c))
    BY <1>1, InJob
  <1>4. q \in Part /\ PlanOf(c).new[q] # Unlisted
    BY <1>3 DEF Changed
  <1> QED
    BY <1>1, <1>2, <1>3, <1>4 DEF JobOK, PlanOf

\* A step changes at most one part of one operation: a unit file by hand, by the
\* rename or the unlink of an apply, or a recorded state.
LEMMA StoreStep ==
    ASSUME Typed, [Next]_vars
    PROVE  \/ store' = store
           \/ \E s \in Moving, u \in UnitPart, v \in {Absent, Foreign} :
                HandEdit(s, u) /\ Write(s, u, v)
           \/ \E c \in Client : RenameFile(c) \/ UnlinkFile(c) \/ RecordState(c)
  <1>1. ASSUME NEW s \in Moving, Planning(s) PROVE store' = store
    BY <1>1 DEF Planning, PlanCreate, PlanUpdate, PlanRetire, PlanComplete, PlanControl, Mint
  <1>2. ASSUME NEW s \in Moving, Outside(s)
        PROVE  \/ store' = store
               \/ \E u \in UnitPart, v \in {Absent, Foreign} : HandEdit(s, u) /\ Write(s, u, v)
    BY <1>2 DEF Outside, NotifyParent, TimerFires, ServiceEnds, HandEdit, Write
  <1>3. ASSUME NEW c \in Client, Applying(c)
        PROVE  store' = store \/ RenameFile(c) \/ UnlinkFile(c) \/ RecordState(c)
    <2>1. ASSUME NEW p \in plans, Present(c, p) PROVE store' = store
      BY <2>1 DEF Present
    <2>2. ASSUME \/ CheckFiles(c) \/ StageFile(c) \/ EnableUnits(c) \/ StartUnits(c)
                 \/ Quiesce(c) \/ StopTimer(c) \/ DisableTimer(c) \/ Control(c)
                 \/ Finish(c) \/ Abandon(c)
          PROVE  store' = store
      BY <2>2 DEF CheckFiles, StageFile, EnableUnits, StartUnits, Quiesce, StopTimer,
                  DisableTimer, Control, Finish, Abandon
    <2> QED
      BY <1>3, <2>1, <2>2 DEF Applying
  <1> QED
    BY <1>1, <1>2, <1>3 DEF Next, Expire, vars

-----------------------------------------------------------------------------
(* Parents *)

\* What an automation.toml names, and what a plan may make it name, has one.
Named ==
    /\ ParentsHaveMetadata
    /\ \A p \in plans : p.new["automation"] \in Stem =>
            store[p.new["automation"]]["automation"] # Absent

\* An automation.toml only ever gives way to what some plan wants.
LEMMA AutomationStep ==
    ASSUME Typed, [Next]_vars, NEW t \in Stem
    PROVE  \/ store'[t]["automation"] = store[t]["automation"]
           \/ \E p \in plans : /\ store'[t]["automation"] = p.new["automation"]
                               /\ p.new["automation"] \in Stem \union {Root}
  <1>1. \A u \in UnitPart : u \in Part /\ u # "automation"
    BY DEF UnitPart, Part
  <1>2. "automation" \in Part
    BY DEF Part
  <1>3. ASSUME NEW s \in Moving, NEW u \in UnitPart, NEW v, Write(s, u, v)
        PROVE  store'[t]["automation"] = store[t]["automation"]
    BY <1>1, <1>2, <1>3, WriteIsLocal, PlanApplyAssumption DEF Typed
  <1>4. ASSUME NEW c \in Client, RenameFile(c) \/ UnlinkFile(c)
        PROVE  store'[t]["automation"] = store[t]["automation"]
    <2>1. job[c].at # "idle" /\ NextUnit(c) \in UnitPart
      BY <1>4 DEF RenameFile, UnlinkFile, At, NextUnit, UnitPart
    <2>2. PICK v : Write(PlanOf(c).stem, NextUnit(c), v)
      BY <1>4 DEF RenameFile, UnlinkFile, Write
    <2> QED
      BY <1>1, <1>2, <2>1, <2>2, InJob, WriteIsLocal DEF Typed
  <1>5. ASSUME NEW c \in Client, RecordState(c)
        PROVE  \/ store'[t]["automation"] = store[t]["automation"]
               \/ \E p \in plans : /\ store'[t]["automation"] = p.new["automation"]
                                   /\ p.new["automation"] \in Stem \union {Root}
    <2>1. job[c].at # "idle"
      BY <1>5 DEF RecordState, At
    <2>2. PICK q \in Part : /\ Write(PlanOf(c).stem, q, PlanOf(c).new[q])
                            /\ PlanOf(c).new[q] # Unlisted
      BY <1>5, RecordWrites
    <2>3. /\ PlanOf(c) \in plans /\ PlanOf(c).stem \in Stem
          /\ PlanOf(c).new["automation"] \in Stem \union {Root, Unlisted}
      BY <2>1, InJob DEF PlanOK
    <2>4. /\ store'[PlanOf(c).stem][q] = PlanOf(c).new[q]
          /\ \A r \in Part : t # PlanOf(c).stem \/ r # q => store'[t][r] = store[t][r]
      BY <2>2, <2>3, WriteIsLocal DEF Typed
    <2> QED
      BY <1>2, <2>2, <2>3, <2>4
  <1> QED
    BY StoreStep, <1>3, <1>4, <1>5

\* What has an automation.toml keeps one.
LEMMA AutomationStays ==
    ASSUME Typed, [Next]_vars, NEW t \in Stem, store[t]["automation"] # Absent
    PROVE  store'[t]["automation"] # Absent
  BY AutomationStep, PlanApplyAssumption

LEMMA NamedStep == Typed /\ Named /\ [Next]_vars => Named'
  <1> SUFFICES ASSUME Typed, Named, [Next]_vars PROVE Named'
    OBVIOUS
  <1>1. ParentsHaveMetadata'
    <2> SUFFICES ASSUME NEW s \in Stem, NEW m \in Stem, store'[s]["automation"] = m
                 PROVE  store'[m]["automation"] # Absent
      BY DEF ParentsHaveMetadata
    <2>1. store[m]["automation"] # Absent
      BY AutomationStep DEF Named, ParentsHaveMetadata
    <2> QED
      BY <2>1, AutomationStays
  <1>2. \A p \in plans : p.new["automation"] \in Stem =>
            store'[p.new["automation"]]["automation"] # Absent
    BY AutomationStays DEF Named
  <1>3. \/ plans' = plans
        \/ \E s \in Moving : Planning(s)
    <2>1. ASSUME NEW s \in Moving, Outside(s) PROVE plans' = plans
      BY <2>1 DEF Outside, NotifyParent, TimerFires, ServiceEnds, HandEdit, tokens
    <2>2. ASSUME NEW c \in Client, Applying(c) PROVE plans' = plans
      BY <2>2 DEF Applying, Present, CheckFiles, StageFile, RenameFile, EnableUnits, StartUnits,
                  RecordState, Quiesce, UnlinkFile, StopTimer, DisableTimer, Control, Finish,
                  Abandon, tokens
    <2> QED
      BY <2>1, <2>2 DEF Next, Expire, vars
  <1>4. ASSUME NEW s \in Moving, Planning(s)
        PROVE  \A p \in plans' : p.new["automation"] \in Stem =>
                    store'[p.new["automation"]]["automation"] # Absent
    <2>1. s \in Stem
      BY PlanApplyAssumption
    <2>2. PICK p \in Plan : /\ Mint(p)
                            /\ \E n : ValidParent(s, n) /\ p.new["automation"] = n
      BY <1>4, <2>1, PlansAreSound DEF Typed
    <2>3. p.new["automation"] \in Stem => store[p.new["automation"]]["automation"] # Absent
      BY <2>2 DEF ValidParent
    <2>4. plans' = plans \union {p} /\ store' = store
      BY <2>2 DEF Mint
    <2> QED
      BY <1>2, <2>3, <2>4
  <1> QED
    BY <1>1, <1>2, <1>3, <1>4 DEF Named

LEMMA NamedInit == Init => Named
  <1> SUFFICES ASSUME Init PROVE Named
    OBVIOUS
  <1>1. \A o \in Origins : Installed(o[1], o[2])["automation"] \in {Root, Absent}
    BY PlanApplyAssumption DEF Installed, Files, Part, UnitPart
  <1>2. Nothing["automation"] = Absent
    BY DEF Nothing, Part
  <1>3. \A s \in Stem : store[s]["automation"] \in {Root, Absent}
    BY <1>1, <1>2 DEF Init
  <1> QED
    BY <1>3, PlanApplyAssumption DEF Init, Named, ParentsHaveMetadata

\* Whatever is planned and applied in whatever order, and however applies overlap,
\* an automation.toml never names an operation without one.
THEOREM ParentsExist == Spec => []ParentsHaveMetadata
  <1>1. Spec => [](Typed /\ Named)
    BY TypedInit, TypedStep, NamedInit, NamedStep, PTL DEF Spec
  <1>2. Named => ParentsHaveMetadata
    BY DEF Named
  <1> QED
    BY <1>1, <1>2, PTL

-----------------------------------------------------------------------------
(* Applies that do not overlap *)

\* What a client is in the middle of, and where its files stand.
Middle(c) == job[c].at \notin {"idle", "files"}

\* The applying client alone moves, all others being idle: the next state is
\* serial when what it holds is half-way right.
LEMMA SerialOne ==
    ASSUME Typed, Alone, NEW c \in Client, job[c].at # "idle" \/ Quiet,
           NEW j, job' = [job EXCEPT ![c] = j], Half(c)'
    PROVE  Serial'
  <1>1. \A d \in Client : d # c => job[d].at = "idle" /\ job'[d] = job[d]
    BY DEF Alone, Quiet, Typed, TypeOK
  <1>2. Alone'
    BY <1>1 DEF Alone
  <1>3. \A d \in Client : d # c => Half(d)'
    BY <1>1 DEF Half
  <1> QED
    BY <1>2, <1>3 DEF Serial

\* Nothing that concerns an apply moves.
LEMMA SerialRest ==
    ASSUME Serial, UNCHANGED <<store, staged, job>>
    PROVE  Serial'
  BY DEF Serial, Alone, Half, Fresh, PlanOf, NextUnit

\* An apply goes on to a step that asks nothing more of the files.
LEMMA SerialGoto ==
    ASSUME Typed, Serial, NEW c \in Client, Middle(c), UNCHANGED store,
           NEW step \in Step, step \notin {"idle", "files", "rename"}, Goto(c, step)
    PROVE  Serial'
  <1>1. job[c] \in Job
    BY InJob DEF Middle
  <1>2. PICK j : j = job'[c]
    OBVIOUS
  <1>3. /\ job' = [job EXCEPT ![c] = j]
        /\ j.at = step /\ j.plan = job[c].plan /\ j.left = job[c].left
    BY <1>1, <1>2 DEF Goto, Typed, TypeOK, Job
  <1>4. Half(c)'
    BY <1>2, <1>3 DEF Half, Serial, Middle, PlanOf
  <1> QED
    BY <1>3, <1>4, SerialOne DEF Serial, Middle

\* An apply replaces one part by what its plan wants.
LEMMA SerialWrote ==
    ASSUME Typed, Serial, NEW c \in Client, Middle(c), NEW q \in job[c].left \intersect Part,
           Write(PlanOf(c).stem, q, PlanOf(c).new[q]),
           NEW next \in Step, NEW then \in Step,
           {next, then} \intersect {"idle", "files", "rename"} = {},
           Wrote(c, q, next, then)
    PROVE  Serial'
  <1> DEFINE p == PlanOf(c)
  <1>1. job[c] \in Job /\ p.stem \in Stem /\ q \in Changed(p)
    BY InJob DEF Middle
  <1>2. PICK j : j = job'[c]
    OBVIOUS
  <1>3. /\ job' = [job EXCEPT ![c] = j]
        /\ j.at \in {next, then} /\ j.plan = p /\ j.left = job[c].left \ {q}
    BY <1>1, <1>2 DEF Wrote, Typed, TypeOK, PlanOf
  <1>4. /\ store'[p.stem][q] = p.new[q] /\ p.new[q] # Unlisted
        /\ \A r \in Part : r # q => store'[p.stem][r] = store[p.stem][r]
    BY <1>1, WriteIsLocal DEF Typed, Changed
  <1>5. \A r \in Part : p.saw[r] # Unlisted =>
            store'[p.stem][r] = IF r \in j.left \/ p.new[r] = Unlisted
                                THEN p.saw[r] ELSE p.new[r]
    BY <1>3, <1>4 DEF Serial, Half, Middle, PlanOf
  <1>6. PlanOf(c)' = p
    BY <1>2, <1>3 DEF PlanOf
  <1> HIDE DEF p
  <1>7. Half(c)'
    BY <1>2, <1>3, <1>5, <1>6 DEF Half
  <1> QED
    BY <1>3, <1>7, SerialOne DEF Serial, Middle

LEMMA SerialApplying ==
    ASSUME ~Overlap, Typed, Serial, NEW c \in Client, Applying(c)
    PROVE  Serial'
  <1>1. ASSUME NEW p \in plans, Present(c, p) PROVE Serial'
    <2>1. p \in Plan /\ PlanOK(p)
      BY DEF Typed, TypeOK
    <2>2. PICK j : j = [at |-> FirstStep(p), plan |-> p, left |-> Changed(p)]
      OBVIOUS
    <2>3. /\ job' = [job EXCEPT ![c] = j] /\ Quiet /\ UNCHANGED <<store, staged>>
          /\ Fresh(p, {"automation", "lifecycle"})
      BY <1>1, <2>2 DEF Present
    <2>4. j.at = FirstStep(p) /\ j.plan = p /\ j.left = Changed(p) /\ j.at # "rename"
      BY <2>2 DEF FirstStep
    <2>5. job'[c] = j /\ PlanOf(c)' = p
      BY <2>3, <2>4 DEF PlanOf, Typed, TypeOK
    <2>6. FirstStep(p) # "files" => p.verb \in ControlVerb \union {"complete"}
      BY DEF FirstStep
    <2>7. FirstStep(p) # "files" =>
            \A q \in Part : p.saw[q] # Unlisted => store[p.stem][q] = p.saw[q]
      BY <2>1, <2>3, <2>6 DEF PlanOK, Fresh, Part
    <2>8. \A q \in Part : q \in Changed(p) \/ p.new[q] = Unlisted
      BY DEF Changed
    <2>9. Half(c)'
      BY <2>3, <2>4, <2>5, <2>7, <2>8 DEF Half, Fresh
    <2> QED
      BY <2>3, <2>9, SerialOne DEF Serial
  <1>2. CASE CheckFiles(c)
    <2> DEFINE step == IF PlanOf(c).verb = "retire" THEN "quiesce" ELSE "define"
    <2>1. /\ job[c].at = "files" /\ Goto(c, step) /\ UNCHANGED <<store, staged>>
          /\ Fresh(PlanOf(c), UnitPart)
      BY <1>2 DEF CheckFiles, At
    <2>2. Fresh(PlanOf(c), {"automation", "lifecycle"})
      BY <2>1 DEF Serial, Half
    <2>3. job[c] \in Job /\ job[c].left = Changed(PlanOf(c))
      BY <2>1, InJob DEF JobOK, PlanOf
    <2>4. PICK j : j = job'[c]
      OBVIOUS
    <2>5. /\ job' = [job EXCEPT ![c] = j]
          /\ j.at = step /\ j.plan = job[c].plan /\ j.left = job[c].left
      BY <2>1, <2>3, <2>4 DEF Goto, Typed, TypeOK, Job
    <2>6. step \notin {"idle", "files", "rename"}
      OBVIOUS
    <2>7. \A q \in Part : PlanOf(c).saw[q] # Unlisted =>
                /\ store[PlanOf(c).stem][q] = PlanOf(c).saw[q]
                /\ q \in job[c].left \/ PlanOf(c).new[q] = Unlisted
      BY <2>1, <2>2, <2>3 DEF Fresh, Changed, Part
    <2>8. PlanOf(c)' = PlanOf(c) /\ job[c].plan = PlanOf(c)
      BY <2>4, <2>5 DEF PlanOf
    <2> HIDE DEF step
    <2>9. Half(c)'
      BY <2>1, <2>4, <2>5, <2>6, <2>7, <2>8 DEF Half
    <2> QED
      BY <2>1, <2>5, <2>9, SerialOne DEF Serial
  <1>3. CASE StageFile(c)
    <2> DEFINE p == PlanOf(c)  u == NextUnit(c)
    <2>1. /\ job[c].at = "define" /\ Goto(c, "rename") /\ UNCHANGED store
          /\ staged' = [staged EXCEPT ![p.stem][u] = p.new[u]]
      BY <1>3 DEF StageFile, At
    <2>2. job[c] \in Job /\ p.stem \in Stem /\ u \in UnitPart
      BY <2>1, InJob DEF NextUnit, UnitPart
    <2>3. PICK j : j = job'[c]
      OBVIOUS
    <2>4. /\ job' = [job EXCEPT ![c] = j]
          /\ j.at = "rename" /\ j.plan = job[c].plan /\ j.left = job[c].left
      BY <2>1, <2>2, <2>3 DEF Goto, Typed, TypeOK, Job
    <2>5. staged'[p.stem][u] = p.new[u]
      BY <2>1, <2>2 DEF Typed, TypeOK
    <2>6. PlanOf(c)' = p /\ NextUnit(c)' = u /\ job[c].plan = p
      BY <2>3, <2>4 DEF PlanOf, NextUnit
    <2>7. \A q \in Part : p.saw[q] # Unlisted =>
            store[p.stem][q] = IF q \in job[c].left \/ p.new[q] = Unlisted
                               THEN p.saw[q] ELSE p.new[q]
      BY <2>1 DEF Serial, Half
    <2> HIDE DEF p, u
    <2>8. Half(c)'
      BY <2>1, <2>3, <2>4, <2>5, <2>6, <2>7 DEF Half
    <2> QED
      BY <2>1, <2>4, <2>8, SerialOne DEF Serial
  <1>4. CASE RenameFile(c)
    <2>1. /\ job[c].at = "rename" /\ Wrote(c, NextUnit(c), "define", "enable")
          /\ Write(PlanOf(c).stem, NextUnit(c), staged[PlanOf(c).stem][NextUnit(c)])
      BY <1>4 DEF RenameFile, At, Write
    <2>2. staged[PlanOf(c).stem][NextUnit(c)] = PlanOf(c).new[NextUnit(c)]
      BY <2>1 DEF Serial, Half
    <2>3. NextUnit(c) \in job[c].left \intersect Part
      BY <2>1, InJob DEF JobOK, NextUnit, UnitPart, Part
    <2> QED
      BY <2>1, <2>2, <2>3, SerialWrote DEF Middle, Step
  <1>5. CASE RecordState(c)
    <2>1. PICK q \in job[c].left \intersect Part :
            /\ Write(PlanOf(c).stem, q, PlanOf(c).new[q])
            /\ Wrote(c, q, "done", "done")
      BY <1>5, RecordWrites
    <2>2. Middle(c)
      BY <1>5 DEF RecordState, At, Middle
    <2> QED
      BY <2>1, <2>2, SerialWrote DEF Step
  <1>6. CASE UnlinkFile(c)
    <2>1. /\ job[c].at = "unlink" /\ Wrote(c, NextUnit(c), "unlink", "done")
          /\ Write(PlanOf(c).stem, NextUnit(c), Absent)
      BY <1>6 DEF UnlinkFile, At, Write
    <2>2. NextUnit(c) \in job[c].left \intersect UnitPart
      BY <2>1, InJob DEF JobOK, NextUnit, UnitPart
    <2>3. PlanOf(c).new[NextUnit(c)] = Absent
      BY <2>1, <2>2, InJob DEF JobOK, PlanOK, Changed, PlanOf
    <2>4. NextUnit(c) \in job[c].left \intersect Part
      BY <2>2 DEF Part
    <2> QED
      BY <2>1, <2>3, <2>4, SerialWrote DEF Middle, Step
  <1>7. ASSUME EnableUnits(c) \/ StartUnits(c) \/ Quiesce(c) \/ StopTimer(c)
                 \/ DisableTimer(c) \/ Control(c)
        PROVE  Serial'
    <2>1. UNCHANGED store /\ Middle(c)
      BY <1>7 DEF EnableUnits, StartUnits, Quiesce, StopTimer, DisableTimer, Control, At, Middle
    <2>2. PICK step \in {"start", "done", "record", "unlink", "disable"} : Goto(c, step)
      BY <1>7 DEF EnableUnits, StartUnits, Quiesce, StopTimer, DisableTimer, Control
    <2> QED
      BY <2>1, <2>2, SerialGoto DEF Step
  <1>8. CASE Finish(c) \/ Abandon(c)
    <2>1. job[c].at # "idle" /\ job' = [job EXCEPT ![c] = Idle]
      BY <1>8 DEF Finish, Abandon, At
    <2>2. job'[c].at = "idle"
      BY <2>1 DEF Typed, TypeOK, Idle
    <2>3. Half(c)'
      BY <2>2 DEF Half
    <2> QED
      BY <2>1, <2>3, SerialOne DEF Serial
  <1> QED
    BY <1>1, <1>2, <1>3, <1>4, <1>5, <1>6, <1>7, <1>8 DEF Applying

LEMMA SerialStep ==
    ASSUME ~Overlap, Typed, Serial, [Next]_vars
    PROVE  Serial'
  <1>1. ASSUME NEW s \in Moving, Planning(s) PROVE Serial'
    <2>1. UNCHANGED <<store, staged, job>>
      BY <1>1 DEF Planning, PlanCreate, PlanUpdate, PlanRetire, PlanComplete, PlanControl, Mint
    <2> QED
      BY <2>1, SerialRest
  <1>2. ASSUME NEW s \in Moving, Outside(s) PROVE Serial'
    <2>1. ASSUME NotifyParent(s) \/ TimerFires(s) \/ ServiceEnds(s) PROVE Serial'
      <3>1. UNCHANGED <<store, staged, job>>
        BY <2>1 DEF NotifyParent, TimerFires, ServiceEnds
      <3> QED
        BY <3>1, SerialRest
    <2>2. ASSUME NEW u \in UnitPart, HandEdit(s, u) PROVE Serial'
      <3>1. Quiet /\ UNCHANGED job
        BY <2>2 DEF HandEdit
      <3> QED
        BY <3>1 DEF Quiet, Serial, Alone, Half
    <2> QED
      BY <1>2, <2>1, <2>2 DEF Outside
  <1>3. ASSUME NEW p \in plans, Expire(p) PROVE Serial'
    BY <1>3, SerialRest DEF Expire
  <1>4. CASE UNCHANGED vars
    BY <1>4, SerialRest DEF vars
  <1> QED
    BY <1>1, <1>2, <1>3, <1>4, SerialApplying DEF Next

LEMMA SerialInit == Init => Serial
  BY DEF Init, Serial, Alone, Half, Idle

LEMMA SerialAlways == ASSUME ~Overlap PROVE Spec => [](Typed /\ Serial)
  <1>1. Typed /\ Serial /\ [Next]_vars => (Typed /\ Serial)'
    BY TypedStep, SerialStep
  <1> QED
    BY <1>1, TypedInit, SerialInit, PTL DEF Spec

-----------------------------------------------------------------------------
(* Markers *)

\* An apply that replaces or removes a unit file compared it and found its own.
LEMMA OwnFiles ==
    ASSUME Typed, Serial, NEW c \in Client, RenameFile(c) \/ UnlinkFile(c)
    PROVE  /\ NextUnit(c) \in UnitPart /\ PlanOf(c).stem \in Stem
           /\ store[PlanOf(c).stem][NextUnit(c)] # Foreign
           /\ \E v : Write(PlanOf(c).stem, NextUnit(c), v)
  <1> DEFINE s == PlanOf(c).stem  u == NextUnit(c)  p == PlanOf(c)
  <1>1. job[c].at \in {"rename", "unlink"} /\ \E v : Write(s, u, v)
    BY DEF RenameFile, UnlinkFile, At, Write
  <1>2. /\ JobOK(job[c]) /\ PlanOK(p) /\ s \in Stem /\ job[c].left \subseteq Changed(p)
        /\ job[c].plan = p
    BY <1>1, InJob DEF PlanOf
  <1>3. u \in job[c].left /\ u \in UnitPart /\ u \in Part
    BY <1>1, <1>2 DEF JobOK, NextUnit, UnitPart, Part
  <1>4. p.saw[u] # Unlisted /\ p.saw[u] # Foreign
    BY <1>2, <1>3 DEF PlanOK, Changed
  <1>5. store[s][u] = p.saw[u]
    BY <1>1, <1>3, <1>4 DEF Serial, Half
  <1> QED
    BY <1>1, <1>2, <1>3, <1>4, <1>5

\* As long as applies do not overlap, no apply replaces or removes a unit file
\* without the managed marker, whenever it appeared.
THEOREM MarkersRespected == ASSUME ~Overlap PROVE Spec => MarkerRespected
  <1>1. Typed /\ Serial /\ [Next]_vars =>
            [\A s \in Stem, u \in UnitPart :
                store[s][u] = Foreign /\ store'[s][u] # Foreign => events' = events + 1]_vars
    <2> SUFFICES ASSUME Typed, Serial, [Next]_vars, NEW s \in Stem, NEW u \in UnitPart,
                        store[s][u] = Foreign, store'[s][u] # Foreign
                 PROVE  events' = events + 1
      OBVIOUS
    <2>1. u \in Part /\ u \notin {"automation", "lifecycle"}
      BY DEF Part, UnitPart
    <2>2. ASSUME NEW t \in Moving, NEW r \in UnitPart, HandEdit(t, r)
          PROVE  events' = events + 1
      BY <2>2 DEF HandEdit, Event
    <2>3. ASSUME NEW c \in Client, RenameFile(c) \/ UnlinkFile(c) PROVE FALSE
      <3>1. \A r \in UnitPart : r \in Part
        BY DEF Part
      <3> QED
        BY <2>1, <2>3, <3>1, OwnFiles, WriteIsLocal DEF Typed
    <2>4. ASSUME NEW c \in Client, RecordState(c) PROVE FALSE
      <3>1. PICK q \in {"automation", "lifecycle"} :
                Write(PlanOf(c).stem, q, PlanOf(c).new[q])
        BY <2>4, RecordWrites
      <3>2. PlanOf(c).stem \in Stem /\ q \in Part
        BY <2>4, InJob DEF RecordState, At, Part
      <3> QED
        BY <2>1, <3>1, <3>2, WriteIsLocal DEF Typed
    <2> QED
      BY StoreStep, <2>2, <2>3, <2>4
  <1> QED
    BY <1>1, SerialAlways, PTL DEF Spec, MarkerRespected

-----------------------------------------------------------------------------
(* Completion *)

\* Steps outside the applies activate and stop services only.
LEMMA TimersRest ==
    ASSUME NEW s, Outside(s), NEW t
    PROVE  /\ enabled' = enabled
           /\ <<t, "timer">> \in active' => <<t, "timer">> \in active
  BY DEF Outside, NotifyParent, TimerFires, ServiceEnds, HandEdit, runtime

LEMMA HushedApplying ==
    ASSUME Typed, Serial, \A c \in Client : Hushed(c), NEW c \in Client, Applying(c)
    PROVE  \A d \in Client : Hushed(d)'
  <1>1. ASSUME NEW p \in plans, Present(c, p) PROVE Hushed(c)'
    <2>1. FirstStep(p) \notin {"disable", "record"}
      BY DEF FirstStep
    <2>2. job'[c].at = FirstStep(p)
      BY <1>1 DEF Present, Typed, TypeOK
    <2> QED
      BY <2>1, <2>2 DEF Hushed
  <1>2. ASSUME NEW step \in Step, Goto(c, step), job[c].at # "idle"
        PROVE  job'[c].at = step /\ PlanOf(c)' = PlanOf(c)
    BY <1>2, InJob DEF Goto, Typed, TypeOK, Job, PlanOf
  <1>3. ASSUME \/ CheckFiles(c) \/ StageFile(c) \/ EnableUnits(c) \/ Quiesce(c) \/ Control(c)
        PROVE  Hushed(c)'
    <2>1. job[c].at # "idle"
      BY <1>3 DEF CheckFiles, StageFile, EnableUnits, Quiesce, Control, At
    <2>2. PICK step \in {"quiesce", "define", "rename", "start", "unlink", "done"} : Goto(c, step)
      BY <1>3 DEF CheckFiles, StageFile, EnableUnits, Quiesce, Control
    <2> QED
      BY <1>2, <2>1, <2>2 DEF Hushed, Step
  <1>4. ASSUME StartUnits(c) PROVE Hushed(c)'
    <2>1. job[c].at = "start" /\ PlanOf(c).verb \in Authored
      BY <1>4, InJob DEF StartUnits, At, JobOK, PlanOf
    <2>2. PICK step \in {"record", "done"} : Goto(c, step)
      BY <1>4 DEF StartUnits
    <2> QED
      BY <1>2, <2>1, <2>2 DEF Hushed, Step, Authored
  <1>5. ASSUME RenameFile(c) \/ RecordState(c) \/ UnlinkFile(c)
        PROVE  Hushed(c)'
    <2>1. \E q, next, then : Wrote(c, q, next, then)
                              /\ {next, then} \subseteq {"define", "enable", "unlink", "done"}
      <3>1. CASE RenameFile(c)
        BY <3>1, Zenon DEF RenameFile
      <3>2. CASE UnlinkFile(c)
        BY <3>2, Zenon DEF UnlinkFile
      <3>3. CASE RecordState(c)
        BY <3>3, Zenon DEF RecordState
      <3> QED
        BY <1>5, <3>1, <3>2, <3>3
    <2>2. job'[c].at \in {"define", "enable", "unlink", "done"}
      BY <2>1 DEF Wrote, Typed, TypeOK
    <2> QED
      BY <2>2 DEF Hushed
  <1>6. ASSUME StopTimer(c) PROVE Hushed(c)'
    <2> DEFINE s == PlanOf(c).stem
    <2>1. job[c].at # "idle" /\ store' = store
      BY <1>6 DEF StopTimer, At
    <2>2. \/ active' = active \ {<<s, "timer">>} /\ Goto(c, "disable")
          \/ ~Known(s, "timer") /\ Goto(c, "record")
      BY <1>6 DEF StopTimer
    <2> QED
      BY <1>2, <2>1, <2>2 DEF Hushed, Step, Known
  <1>7. ASSUME DisableTimer(c) PROVE Hushed(c)'
    <2>1. /\ job[c].at = "disable" /\ Goto(c, "record")
          /\ enabled' = enabled \ {<<PlanOf(c).stem, "timer">>} /\ active' = active
      BY <1>7 DEF DisableTimer, At
    <2> QED
      BY <1>2, <2>1 DEF Hushed, Step
  <1>8. ASSUME Finish(c) \/ Abandon(c) PROVE Hushed(c)'
    <2>1. job'[c].at = "idle"
      BY <1>8 DEF Finish, Abandon, Typed, TypeOK, Idle
    <2> QED
      BY <2>1 DEF Hushed
  <1>9. Hushed(c)'
    BY <1>1, <1>3, <1>4, <1>5, <1>6, <1>7, <1>8 DEF Applying
  <1>10. ASSUME NEW d \in Client, d # c PROVE Hushed(d)'
    <2>1. job'[d] = job[d]
      BY <1>10 DEF Applying, Present, CheckFiles, StageFile, RenameFile, EnableUnits, StartUnits,
                   RecordState, Quiesce, UnlinkFile, StopTimer, DisableTimer, Control, Finish,
                   Abandon, Goto, Wrote, Typed, TypeOK
    <2>2. job[c].at = "idle" \/ job[d].at = "idle"
      BY <1>10 DEF Serial, Alone
    <2>3. CASE job[d].at = "idle"
      BY <2>1, <2>3 DEF Hushed
    <2>4. CASE job[c].at = "idle"
      <3>1. \E p \in plans : Present(c, p)
        BY <2>4 DEF Applying, CheckFiles, StageFile, RenameFile, EnableUnits, StartUnits,
                    RecordState, Quiesce, UnlinkFile, StopTimer, DisableTimer, Control, Finish,
                    Abandon, At
      <3>2. UNCHANGED <<store, enabled, active>>
        BY <3>1 DEF Present, runtime
      <3> QED
        BY <2>1, <3>2 DEF Hushed, PlanOf, Known
    <2> QED
      BY <2>2, <2>3, <2>4
  <1> QED
    BY <1>9, <1>10

LEMMA HushedStep ==
    ASSUME ~Overlap, Typed, Serial, \A c \in Client : Hushed(c), [Next]_vars
    PROVE  \A c \in Client : Hushed(c)'
  <1>1. ASSUME UNCHANGED <<store, enabled, active, job>> PROVE \A c \in Client : Hushed(c)'
    BY <1>1 DEF Hushed, PlanOf, Known
  <1>2. ASSUME NEW s \in Moving, Planning(s) PROVE \A c \in Client : Hushed(c)'
    <2>1. UNCHANGED <<store, enabled, active, job>>
      BY <1>2 DEF Planning, PlanCreate, PlanUpdate, PlanRetire, PlanComplete, PlanControl, Mint,
                  runtime
    <2> QED
      BY <1>1, <2>1
  <1>3. ASSUME NEW s \in Moving, Outside(s) PROVE \A c \in Client : Hushed(c)'
    <2>1. ASSUME NEW u \in UnitPart, HandEdit(s, u) PROVE \A c \in Client : Hushed(c)'
      BY <2>1 DEF HandEdit, Quiet, Hushed
    <2>2. ASSUME NotifyParent(s) \/ TimerFires(s) \/ ServiceEnds(s)
          PROVE  \A c \in Client : Hushed(c)'
      <3>1. UNCHANGED <<store, job>>
        BY <2>2 DEF NotifyParent, TimerFires, ServiceEnds
      <3> QED
        BY <1>3, <3>1, TimersRest DEF Hushed, PlanOf, Known
    <2> QED
      BY <1>3, <2>1, <2>2 DEF Outside
  <1> QED
    BY <1>1, <1>2, <1>3, HushedApplying DEF Next, Expire, vars, runtime

\* As long as applies do not overlap, lifecycle.json says completed only once the
\* timer, when there is one, is stopped and disabled.
THEOREM CompletedQuiet == ASSUME ~Overlap PROVE Spec => CompletedWhenQuiet
  <1> DEFINE AllHushed == \A c \in Client : Hushed(c)
  <1>1. Init => AllHushed
    BY DEF Init, Hushed, Idle
  <1>2. Typed /\ Serial /\ AllHushed /\ [Next]_vars => AllHushed'
    BY HushedStep
  <1>3. Typed /\ Serial /\ AllHushed /\ [Next]_vars =>
            [\A s \in Stem :
                store[s]["lifecycle"] = Absent /\ store'[s]["lifecycle"] = Completed
                  /\ Known(s, "timer") => <<s, "timer">> \notin enabled \union active]_vars
    <2> SUFFICES ASSUME Typed, Serial, AllHushed, [Next]_vars, NEW s \in Stem,
                        store[s]["lifecycle"] = Absent, store'[s]["lifecycle"] = Completed,
                        Known(s, "timer")
                 PROVE  <<s, "timer">> \notin enabled \union active
      OBVIOUS
    <2>1. "lifecycle" \in Part /\ \A u \in UnitPart : u \in Part /\ u # "lifecycle"
      BY DEF Part, UnitPart
    <2>2. ASSUME NEW t \in Moving, NEW u \in UnitPart, NEW v, Write(t, u, v) PROVE FALSE
      BY <2>1, <2>2, WriteIsLocal, PlanApplyAssumption DEF Typed
    <2>3. ASSUME NEW c \in Client, RenameFile(c) \/ UnlinkFile(c) PROVE FALSE
      BY <2>1, <2>3, OwnFiles, WriteIsLocal, PlanApplyAssumption DEF Typed
    <2>4. ASSUME NEW c \in Client, RecordState(c)
          PROVE  <<s, "timer">> \notin enabled \union active
      <3>1. PICK q \in Part :
              /\ Write(PlanOf(c).stem, q, PlanOf(c).new[q])
              /\ \/ PlanOf(c).verb \in Authored /\ q = "automation"
                 \/ PlanOf(c).verb = "complete" /\ q = "lifecycle"
        BY <2>4, RecordWrites
      <3>2. PlanOf(c).stem \in Stem /\ job[c].at = "record"
        BY <2>4, InJob DEF RecordState, At
      <3>3. q = "lifecycle" /\ PlanOf(c).stem = s
        BY <2>1, <3>1, <3>2, WriteIsLocal, PlanApplyAssumption DEF Typed
      <3> QED
        BY <3>1, <3>2, <3>3 DEF Hushed
    <2> QED
      BY StoreStep, <2>2, <2>3, <2>4, PlanApplyAssumption
  <1> HIDE DEF AllHushed
  <1> QED
    BY <1>1, <1>2, <1>3, SerialAlways, PTL DEF Spec, CompletedWhenQuiet

-----------------------------------------------------------------------------
(* Refinement of CheckedStore *)

\* The files as the abstract store has them: a client in the middle of its apply
\* has not replaced anything yet.
View ==
    /\ \A c \in Client : Middle(c) =>
        \A s \in Stem, q \in Part :
            StoreSeen[s][q] = IF s = PlanOf(c).stem /\ PlanOf(c).new[q] # Unlisted
                              THEN PlanOf(c).saw[q] ELSE store[s][q]
    /\ (\A c \in Client : ~Middle(c)) =>
        \A s \in Stem, q \in Part : StoreSeen[s][q] = store[s][q]

LEMMA SeenView == Typed /\ Serial => View
  <1> SUFFICES ASSUME Typed, Serial PROVE View
    OBVIOUS
  <1>1. \A s \in Stem, q \in Part :
            StoreSeen[s][q] = IF Replacing(s, q) = {} THEN store[s][q]
                              ELSE PlanOf(CHOOSE c \in Replacing(s, q) : TRUE).saw[q]
    BY DEF StoreSeen
  <1>2. ASSUME NEW c \in Client, Middle(c), NEW s \in Stem, NEW q \in Part
        PROVE  StoreSeen[s][q] = IF s = PlanOf(c).stem /\ PlanOf(c).new[q] # Unlisted
                                 THEN PlanOf(c).saw[q] ELSE store[s][q]
    <2>1. \A d \in Client : Middle(d) => d = c
      BY <1>2 DEF Serial, Alone, Middle
    <2>2. CASE s = PlanOf(c).stem /\ PlanOf(c).new[q] # Unlisted
      <3>1. Replacing(s, q) = {c}
        BY <1>2, <2>1, <2>2 DEF Replacing, Middle
      <3>2. (CHOOSE d \in Replacing(s, q) : TRUE) = c
        BY <3>1
      <3> QED
        BY <1>1, <2>2, <3>1, <3>2
    <2>3. CASE ~(s = PlanOf(c).stem /\ PlanOf(c).new[q] # Unlisted)
      <3>1. Replacing(s, q) = {}
        BY <2>1, <2>3 DEF Replacing, Middle
      <3> QED
        BY <1>1, <2>3, <3>1
    <2> QED
      BY <2>2, <2>3
  <1>3. ASSUME \A c \in Client : ~Middle(c), NEW s \in Stem, NEW q \in Part
        PROVE  StoreSeen[s][q] = store[s][q]
    <2>1. Replacing(s, q) = {}
      BY <1>3 DEF Replacing, Middle
    <2> QED
      BY <1>1, <2>1
  <1> QED
    BY <1>2, <1>3 DEF View

LEMMA SeenViewNext == Typed' /\ Serial' => View'
  BY SeenView, PTL

\* StoreSeen is what it has at every part of every operation.
LEMMA SeenIsFunction ==
    /\ StoreSeen = [s \in Stem |-> [q \in Part |-> StoreSeen[s][q]]]
    /\ StoreSeen' = [s \in Stem |-> [q \in Part |-> StoreSeen'[s][q]]]
  BY DEF StoreSeen

LEMMA SeenSame ==
    ASSUME \A s \in Stem, q \in Part : StoreSeen'[s][q] = StoreSeen[s][q]
    PROVE  StoreSeen' = StoreSeen
  BY SeenIsFunction, Zenon

\* What writes only what its plan changes leaves the abstract store alone.
LEMMA KeepsSeen ==
    ASSUME View, View', NEW c \in Client, NEW p, Middle(c), Middle(c)',
           PlanOf(c) = p, PlanOf(c)' = p,
           \A s \in Stem, q \in Part :
                s # p.stem \/ p.new[q] = Unlisted => store'[s][q] = store[s][q]
    PROVE  StoreSeen' = StoreSeen
  <1>1. \A s \in Stem, q \in Part : StoreSeen'[s][q] = StoreSeen[s][q]
    BY DEF View
  <1> QED
    BY <1>1, SeenSame

\* A client enters the middle of its apply with all files as its plan saw them.
LEMMA EntersSeen ==
    ASSUME Typed, Serial, View, Typed', Serial', View', \A d \in Client : ~Middle(d),
           NEW c \in Client, NEW p, PlanOK(p), Middle(c)', PlanOf(c)' = p,
           job'[c].left = Changed(p), job'[c].at # "rename", store' = store
    PROVE  StoreSeen' = StoreSeen
  <1>1. Half(c)'
    BY DEF Serial
  <1>2. \A q \in Part : p.new[q] # Unlisted =>
            store[p.stem][q] = p.saw[q] /\ p.saw[q] # Unlisted
    BY <1>1 DEF Half, Middle, Changed, PlanOK
  <1>3. \A s \in Stem, q \in Part : StoreSeen'[s][q] = StoreSeen[s][q]
    BY <1>2 DEF View
  <1> QED
    BY <1>3, SeenSame

\* A plan as CheckedStore has it.
Bare(p) == [stem |-> p.stem, saw |-> p.saw, new |-> p.new]

LEMMA BareIsPlan ==
    ASSUME NEW p \in Plan, PlanOK(p)
    PROVE  /\ Bare(p) \in [stem : Stem, saw : Store!Wanted, new : Store!Wanted]
           /\ \A q \in Part : Bare(p).saw[q] = Unlisted => Bare(p).new[q] = Unlisted
           /\ Bare(p).stem = p.stem /\ Bare(p).saw = p.saw /\ Bare(p).new = p.new
           /\ Store!Changed(Bare(p)) = Changed(p)
  BY DEF Bare, Plan, Wanted, Store!Wanted, PlanOK, Store!Changed, Changed

LEMMA SeenPlans ==
    /\ PlansSeen = {Bare(p) : p \in plans}
    /\ PlansSeen' = {Bare(p) : p \in plans'}
  BY DEF PlansSeen, Bare

LEMMA RefinesInit == Init => Store!Init
  <1> SUFFICES ASSUME Init PROVE Store!Init
    OBVIOUS
  <1>1. Typed /\ Serial /\ View
    BY TypedInit, SerialInit, SeenView
  <1>2. \A c \in Client : ~Middle(c)
    BY DEF Init, Middle, Idle
  <1>3. \A s \in Stem, q \in Part : StoreSeen[s][q] \in Value
    BY <1>1, <1>2 DEF View, Typed, TypeOK
  <1>4. StoreSeen \in [Stem -> [Part -> Value]]
    BY <1>3, SeenIsFunction
  <1>5. PlansSeen = {} /\ answer = [c \in Client |-> "none"]
    BY DEF Init, PlansSeen
  <1> QED
    BY <1>4, <1>5 DEF Store!Init

\* The steps of an apply between its comparison and its answer.
Inner(c) ==
    \/ CheckFiles(c)
    \/ StageFile(c) \/ RenameFile(c) \/ EnableUnits(c) \/ StartUnits(c) \/ RecordState(c)
    \/ Quiesce(c) \/ UnlinkFile(c)
    \/ StopTimer(c) \/ DisableTimer(c)
    \/ Control(c)

\* They answer nothing and stay in the same apply.
LEMMA InnerJob ==
    ASSUME Typed, NEW c \in Client, Inner(c)
    PROVE  /\ UNCHANGED <<plans, answer>>
           /\ job[c].at # "idle" /\ Middle(c)' /\ PlanOf(c)' = PlanOf(c)
           /\ ~Middle(c) => CheckFiles(c)
  <1>1. UNCHANGED <<plans, answer>>
    BY DEF Inner, CheckFiles, StageFile, RenameFile, EnableUnits, StartUnits, RecordState,
           Quiesce, UnlinkFile, StopTimer, DisableTimer, Control, tokens
  <1>2. job[c].at # "idle" /\ (~Middle(c) => CheckFiles(c))
    BY DEF Inner, CheckFiles, StageFile, RenameFile, EnableUnits, StartUnits, RecordState,
           Quiesce, UnlinkFile, StopTimer, DisableTimer, Control, At, Middle
  <1>3. CASE \/ CheckFiles(c) \/ StageFile(c) \/ EnableUnits(c) \/ StartUnits(c) \/ Quiesce(c)
             \/ StopTimer(c) \/ DisableTimer(c) \/ Control(c)
    <2>1. PICK step \in Step \ {"idle", "files"} : Goto(c, step)
      BY <1>3, Zenon DEF CheckFiles, StageFile, EnableUnits, StartUnits, Quiesce, StopTimer,
                  DisableTimer, Control, Step
    <2>2. job'[c].at = step /\ job'[c].plan = job[c].plan
      BY <1>2, <2>1, InJob DEF Goto, Typed, TypeOK, Job
    <2> QED
      BY <1>1, <1>2, <2>1, <2>2 DEF Middle, PlanOf
  <1>4. CASE RenameFile(c) \/ UnlinkFile(c) \/ RecordState(c)
    <2>1. \E q, next, then : Wrote(c, q, next, then)
                              /\ {next, then} \subseteq {"define", "enable", "unlink", "done"}
      <3>1. CASE RenameFile(c)
        BY <3>1, Zenon DEF RenameFile
      <3>2. CASE UnlinkFile(c)
        BY <3>2, Zenon DEF UnlinkFile
      <3>3. CASE RecordState(c)
        BY <3>3, Zenon DEF RecordState
      <3> QED
        BY <1>4, <3>1, <3>2, <3>3
    <2>2. /\ job'[c].at \in {"define", "enable", "unlink", "done"}
          /\ PlanOf(c)' = PlanOf(c)
      BY <2>1 DEF Wrote, Typed, TypeOK, PlanOf
    <2> QED
      BY <1>1, <1>2, <2>2 DEF Middle
  <1> QED
    BY <1>3, <1>4 DEF Inner

\* They change no part the plan leaves alone.
LEMMA InnerStore ==
    ASSUME Typed, Serial, NEW c \in Client, Inner(c), NEW s \in Stem, NEW q \in Part,
           s # PlanOf(c).stem \/ PlanOf(c).new[q] = Unlisted
    PROVE  store'[s][q] = store[s][q]
  <1>1. CASE RenameFile(c) \/ UnlinkFile(c)
    <2>1. NextUnit(c) \in job[c].left /\ NextUnit(c) \in Part /\ job[c].at # "idle"
      BY <1>1, InJob DEF RenameFile, UnlinkFile, At, JobOK, NextUnit, UnitPart, Part
    <2>2. PlanOf(c).new[NextUnit(c)] # Unlisted
      BY <2>1, InJob DEF Changed
    <2> QED
      BY <1>1, <2>1, <2>2, OwnFiles, WriteIsLocal DEF Typed
  <1>2. CASE RecordState(c)
    <2>1. PICK r \in Part : /\ Write(PlanOf(c).stem, r, PlanOf(c).new[r])
                            /\ PlanOf(c).new[r] # Unlisted
      BY <1>2, RecordWrites
    <2>2. PlanOf(c).stem \in Stem
      BY <1>2, InJob DEF RecordState, At
    <2> QED
      BY <2>1, <2>2, WriteIsLocal DEF Typed
  <1>3. CASE \/ CheckFiles(c) \/ StageFile(c) \/ EnableUnits(c) \/ StartUnits(c) \/ Quiesce(c)
             \/ StopTimer(c) \/ DisableTimer(c) \/ Control(c)
    BY <1>3 DEF CheckFiles, StageFile, EnableUnits, StartUnits, Quiesce, StopTimer,
                DisableTimer, Control
  <1> QED
    BY <1>1, <1>2, <1>3 DEF Inner

LEMMA InnerSeen ==
    ASSUME Typed, Serial, View, Typed', Serial', View', NEW c \in Client, Inner(c)
    PROVE  StoreSeen' = StoreSeen
  <1>1. PICK p : p = PlanOf(c)
    OBVIOUS
  <1>2. Middle(c)' /\ PlanOf(c)' = p /\ job[c].at # "idle" /\ (~Middle(c) => CheckFiles(c))
    BY <1>1, InnerJob
  <1>3. CASE Middle(c)
    <2>1. \A s \in Stem, q \in Part :
            s # p.stem \/ p.new[q] = Unlisted => store'[s][q] = store[s][q]
      BY <1>1, InnerStore
    <2> QED
      BY <1>1, <1>2, <1>3, <2>1, KeepsSeen
  <1>4. CASE ~Middle(c)
    <2>1. CheckFiles(c) /\ job[c].at = "files" /\ store' = store
      BY <1>2, <1>4 DEF CheckFiles, At
    <2>2. \A d \in Client : ~Middle(d)
      BY <2>1 DEF Serial, Alone, Middle
    <2>3. PlanOK(p) /\ job[c].left = Changed(p) /\ job[c] \in Job
      BY <1>1, <2>1, InJob DEF JobOK, PlanOf
    <2>4. PICK step \in Step \ {"rename"} : Goto(c, step)
      BY <2>1 DEF CheckFiles, Step
    <2>5. job'[c].left = Changed(p) /\ job'[c].at # "rename"
      BY <2>3, <2>4 DEF Goto, Typed, TypeOK, Job
    <2> QED
      BY <1>2, <2>1, <2>2, <2>3, <2>5, EntersSeen
  <1> QED
    BY <1>3, <1>4

\* Presenting a token asks.
LEMMA PresentAsks ==
    ASSUME ~Overlap, Typed, Serial, View, Typed', Serial', View',
           NEW c \in Client, NEW p \in plans, Present(c, p)
    PROVE  Store!Ask(c)
  <1>1. Quiet /\ store' = store /\ plans' = plans /\ answer' = [answer EXCEPT ![c] = "none"]
    BY DEF Present, tokens
  <1>2. \A d \in Client : ~Middle(d)
    BY <1>1 DEF Quiet, Middle
  <1>3. /\ job'[c].at = FirstStep(p) /\ job'[c].left = Changed(p) /\ PlanOf(c)' = p
        /\ \A d \in Client : d # c => job'[d] = job[d]
    BY DEF Present, PlanOf, Typed, TypeOK
  <1>4. FirstStep(p) # "rename" /\ PlanOK(p)
    BY DEF FirstStep, Typed
  <1>5. StoreSeen' = StoreSeen
    <2>1. CASE Middle(c)'
      BY <1>1, <1>2, <1>3, <1>4, <2>1, EntersSeen
    <2>2. CASE ~Middle(c)'
      <3>1. \A d \in Client : ~Middle(d)'
        BY <1>2, <1>3, <2>2 DEF Middle
      <3>2. \A s \in Stem, q \in Part : StoreSeen'[s][q] = StoreSeen[s][q]
        BY <1>1, <1>2, <3>1 DEF View
      <3> QED
        BY <3>2, SeenSame
    <2> QED
      BY <2>1, <2>2
  <1> QED
    BY <1>1, <1>5 DEF Store!Ask, PlansSeen

\* Replacing the parts of P of one operation, part by part.
LEMMA SeenReplaced ==
    ASSUME NEW s \in Stem, NEW new, NEW P,
           \A t \in Stem, q \in Part :
                StoreSeen'[t][q] = IF t = s /\ q \in P THEN new[q] ELSE StoreSeen[t][q]
    PROVE  StoreSeen' = [StoreSeen EXCEPT ![s] = Store!Replaced(@, new, P)]
  <1> DEFINE goal == [StoreSeen EXCEPT ![s] = Store!Replaced(@, new, P)]
  <1>1. goal = [t \in Stem |-> [q \in Part |-> goal[t][q]]]
    BY SeenIsFunction DEF Store!Replaced
  <1>2. \A t \in Stem, q \in Part :
            goal[t][q] = IF t = s /\ q \in P THEN new[q] ELSE StoreSeen[t][q]
    BY SeenIsFunction DEF Store!Replaced
  <1> HIDE DEF goal
  <1>3. \A t \in Stem, q \in Part : goal[t][q] = StoreSeen'[t][q]
    BY <1>2
  <1>4. StoreSeen' = [t \in Stem |-> [q \in Part |-> StoreSeen'[t][q]]]
    BY SeenIsFunction
  <1>5. PICK g : g = goal
    OBVIOUS
  <1>6. PICK h : h = StoreSeen'
    OBVIOUS
  <1>7. /\ g = [t \in Stem |-> [q \in Part |-> g[t][q]]]
        /\ h = [t \in Stem |-> [q \in Part |-> h[t][q]]]
        /\ \A t \in Stem, q \in Part : g[t][q] = h[t][q]
    BY <1>1, <1>3, <1>4, <1>5, <1>6, Zenon
  <1>8. g = h
    BY <1>7
  <1> QED
    BY <1>5, <1>6, <1>8 DEF goal

\* An apply that ends has replaced the parts of its plan that are not left.
LEMMA EndReplaces ==
    ASSUME Typed, Serial, View, View', NEW c \in Client, Middle(c),
           job' = [job EXCEPT ![c] = Idle], store' = store
    PROVE  LET p == PlanOf(c)
           IN  /\ Store!Agrees(Bare(p))
               /\ StoreSeen' = [StoreSeen EXCEPT ![p.stem] =
                                    Store!Replaced(@, p.new, Changed(p) \ job[c].left)]
  <1> DEFINE p == PlanOf(c)
  <1>1. /\ PlanOK(p) /\ p \in Plan /\ p.stem \in Stem
        /\ job[c].at \notin {"idle", "files"}
    BY InJob DEF Middle
  <1>2. \A q \in Part : p.saw[q] # Unlisted =>
            store[p.stem][q] = IF q \in job[c].left \/ p.new[q] = Unlisted
                               THEN p.saw[q] ELSE p.new[q]
    BY <1>1 DEF Serial, Half
  <1>3. \A d \in Client : ~Middle(d)'
    BY <1>1 DEF Serial, Alone, Middle, Idle, Typed, TypeOK
  <1>4. \A s \in Stem, q \in Part :
            StoreSeen[s][q] = IF s = p.stem /\ p.new[q] # Unlisted
                              THEN p.saw[q] ELSE store[s][q]
    BY DEF View
  <1>5. \A s \in Stem, q \in Part : StoreSeen'[s][q] = store[s][q]
    BY <1>3 DEF View
  <1>6. \A q \in Part : p.saw[q] = Unlisted => p.new[q] = Unlisted
    BY <1>1 DEF PlanOK
  <1>7. \A q \in Part : q \in Changed(p) <=> p.new[q] # Unlisted
    BY DEF Changed
  <1>8. Bare(p).stem = p.stem /\ Bare(p).saw = p.saw
    BY DEF Bare
  <1> HIDE DEF p
  <1>9. Store!Agrees(Bare(p))
    BY <1>1, <1>2, <1>4, <1>8 DEF Store!Agrees
  <1>10. \A s \in Stem, q \in Part :
            StoreSeen'[s][q] = IF s = p.stem /\ q \in Changed(p) \ job[c].left
                               THEN p.new[q] ELSE StoreSeen[s][q]
    BY <1>2, <1>4, <1>5, <1>6, <1>7
  <1>11. StoreSeen' = [StoreSeen EXCEPT ![p.stem] =
                            Store!Replaced(@, p.new, Changed(p) \ job[c].left)]
    <2>1. PICK P : P = Changed(p) \ job[c].left
      OBVIOUS
    <2>2. PICK s \in Stem : s = p.stem
      BY <1>1
    <2>3. PICK new : new = p.new
      OBVIOUS
    <2>4. \A t \in Stem, q \in Part :
            StoreSeen'[t][q] = IF t = s /\ q \in P THEN new[q] ELSE StoreSeen[t][q]
      BY <1>10, <2>1, <2>2, <2>3
    <2>5. StoreSeen' = [StoreSeen EXCEPT ![s] = Store!Replaced(@, new, P)]
      BY <2>4, SeenReplaced
    <2> QED
      BY <2>1, <2>2, <2>3, <2>5
  <1> QED
    BY <1>9, <1>11 DEF p

LEMMA FinishApplies ==
    ASSUME Typed, Serial, View, View', NEW c \in Client, Finish(c)
    PROVE  \E b \in PlansSeen : Store!Apply(c, b)
  <1>1. /\ job[c].at = "done" /\ job' = [job EXCEPT ![c] = Idle] /\ store' = store
        /\ plans' = plans /\ answer' = [answer EXCEPT ![c] = "applied"]
    BY DEF Finish, At, tokens
  <1>2. PICK p \in plans : p = PlanOf(c) /\ p \in Plan /\ PlanOK(p)
    BY <1>1, InJob
  <1>3. job[c].left = {}
    BY <1>1, InJob DEF JobOK
  <1>4. Changed(p) \ job[c].left = Changed(p)
    BY <1>3
  <1>5. /\ Store!Agrees(Bare(p))
        /\ StoreSeen' = [StoreSeen EXCEPT ![p.stem] =
                            Store!Replaced(@, p.new, Changed(p))]
    BY <1>1, <1>2, <1>4, EndReplaces DEF Middle
  <1>6. /\ Bare(p).stem = p.stem /\ Bare(p).new = p.new
        /\ Store!Changed(Bare(p)) = Changed(p) /\ Bare(p) \in PlansSeen
    BY <1>2, BareIsPlan, SeenPlans
  <1>7. UNCHANGED PlansSeen
    BY <1>1, SeenPlans
  <1>8. Store!Apply(c, Bare(p))
    BY <1>1, <1>5, <1>6, <1>7 DEF Store!Apply
  <1> QED
    BY <1>6, <1>8

LEMMA AbandonBreaks ==
    ASSUME Typed, Serial, View, View', NEW c \in Client, Abandon(c)
    PROVE  \E b \in PlansSeen : Store!Break(c, b)
  <1>1. /\ job[c].at # "idle" /\ job' = [job EXCEPT ![c] = Idle] /\ store' = store
        /\ plans' = plans /\ answer' = [answer EXCEPT ![c] = "error"]
    BY DEF Abandon, tokens
  <1>2. PICK p \in plans : p = PlanOf(c) /\ p \in Plan /\ PlanOK(p) /\ p.stem \in Stem
    BY <1>1, InJob
  <1>3. /\ Bare(p).stem = p.stem /\ Bare(p).new = p.new
        /\ Store!Changed(Bare(p)) = Changed(p) /\ Bare(p) \in PlansSeen
    BY <1>2, BareIsPlan, SeenPlans
  <1>4. UNCHANGED PlansSeen
    BY <1>1, SeenPlans
  <1>5. \E P \in SUBSET Changed(p) :
            /\ P # {} => Store!Agrees(Bare(p))
            /\ StoreSeen' = [StoreSeen EXCEPT ![p.stem] = Store!Replaced(@, p.new, P)]
    <2>1. CASE Middle(c)
      <3>1. /\ Store!Agrees(Bare(p))
            /\ StoreSeen' = [StoreSeen EXCEPT ![p.stem] =
                                Store!Replaced(@, p.new, Changed(p) \ job[c].left)]
        BY <1>1, <1>2, <2>1, EndReplaces
      <3>2. PICK P : P = Changed(p) \ job[c].left
        OBVIOUS
      <3>3. P \in SUBSET Changed(p)
        BY <3>2
      <3> QED
        BY <3>1, <3>2, <3>3
    <2>2. CASE ~Middle(c)
      <3>1. \A d \in Client : ~Middle(d) /\ ~Middle(d)'
        BY <1>1, <2>2 DEF Serial, Alone, Middle, Idle, Typed, TypeOK
      <3>2. \A t \in Stem, q \in Part : StoreSeen'[t][q] = StoreSeen[t][q]
        BY <1>1, <3>1 DEF View
      <3>3. PICK new : new = p.new
        OBVIOUS
      <3>4. PICK P : P = {}
        OBVIOUS
      <3>5. PICK s \in Stem : s = p.stem
        BY <1>2
      <3>6. \A t \in Stem, q \in Part :
              StoreSeen'[t][q] = IF t = s /\ q \in P THEN new[q] ELSE StoreSeen[t][q]
        BY <3>2, <3>4
      <3>7. StoreSeen' = [StoreSeen EXCEPT ![s] = Store!Replaced(@, new, P)]
        BY <3>6, SeenReplaced
      <3> QED
        BY <3>3, <3>4, <3>5, <3>7
    <2> QED
      BY <2>1, <2>2
  <1>6. Store!Break(c, Bare(p))
    BY <1>1, <1>3, <1>4, <1>5 DEF Store!Break
  <1> QED
    BY <1>3, <1>6

LEMMA EditEdits ==
    ASSUME ~Overlap, Typed, View, View', NEW s \in Moving, NEW u \in UnitPart, HandEdit(s, u)
    PROVE  Store!Edit(s)
  <1>1. /\ Quiet /\ UNCHANGED <<plans, job, answer>>
        /\ \E v \in {Absent, Foreign} : Write(s, u, v)
    BY DEF HandEdit, tokens, Write
  <1>2. PICK v \in {Absent, Foreign} : Write(s, u, v)
    BY <1>1
  <1>3. s \in Stem /\ u \in Part /\ v \in Value
    BY PlanApplyAssumption DEF Part, Value
  <1>4. \A d \in Client : ~Middle(d) /\ ~Middle(d)'
    BY <1>1 DEF Quiet, Middle
  <1>5. \A t \in Stem, q \in Part :
            /\ StoreSeen[t][q] = store[t][q]
            /\ StoreSeen'[t][q] = IF t = s /\ q = u THEN v ELSE store[t][q]
    BY <1>2, <1>3, <1>4, WriteIsLocal DEF View, Typed
  <1>6. StoreSeen' = [StoreSeen EXCEPT ![s][u] = v]
    <2>1. PICK g : g = StoreSeen
      OBVIOUS
    <2>2. PICK h : h = StoreSeen'
      OBVIOUS
    <2>3. /\ g = [t \in Stem |-> [q \in Part |-> g[t][q]]]
          /\ h = [t \in Stem |-> [q \in Part |-> h[t][q]]]
      BY <2>1, <2>2, SeenIsFunction, Zenon
    <2>4. \A t \in Stem, q \in Part : h[t][q] = IF t = s /\ q = u THEN v ELSE g[t][q]
      BY <1>5, <2>1, <2>2
    <2>5. h = [g EXCEPT ![s][u] = v]
      BY <1>3, <2>3, <2>4
    <2> QED
      BY <2>1, <2>2, <2>5
  <1>7. UNCHANGED <<PlansSeen, answer>>
    BY <1>1, SeenPlans
  <1> QED
    BY <1>3, <1>6, <1>7 DEF Store!Edit

LEMMA PlanningMakes ==
    ASSUME Typed, NEW s \in Moving, Planning(s)
    PROVE  Store!Make
  <1>1. s \in Stem
    BY PlanApplyAssumption
  <1>2. PICK p \in Plan : Mint(p) /\ PlanOK(p)
    BY <1>1, PlansAreSound DEF Typed
  <1>3. plans' = plans \union {p} /\ UNCHANGED <<store, job, answer>>
    BY <1>2 DEF Mint
  <1>4. PlansSeen' = PlansSeen \union {Bare(p)}
    BY <1>3, SeenPlans
  <1>5. StoreSeen' = StoreSeen
    BY <1>3 DEF StoreSeen, Replacing, PlanOf
  <1>6. /\ Bare(p) \in [stem : Stem, saw : Store!Wanted, new : Store!Wanted]
        /\ \A q \in Part : Bare(p).saw[q] = Unlisted => Bare(p).new[q] = Unlisted
    BY <1>2, BareIsPlan
  <1> QED
    BY <1>3, <1>4, <1>5, <1>6 DEF Store!Make

LEMMA RefinesStep ==
    ASSUME ~Overlap, Typed, Serial, View, Typed', Serial', View', [Next]_vars
    PROVE  [Store!Next]_(Store!vars)
  <1>1. ASSUME UNCHANGED <<store, job, plans, answer>> PROVE UNCHANGED Store!vars
    <2>1. StoreSeen' = StoreSeen
      BY <1>1 DEF StoreSeen, Replacing, PlanOf
    <2>2. PlansSeen' = PlansSeen
      BY <1>1, SeenPlans
    <2> QED
      BY <1>1, <2>1, <2>2 DEF Store!vars
  <1>2. ASSUME NEW s \in Moving, Planning(s) PROVE Store!Next
    BY <1>2, PlanningMakes DEF Store!Next
  <1>3. ASSUME NEW s \in Moving, Outside(s) PROVE [Store!Next]_(Store!vars)
    <2>1. ASSUME NotifyParent(s) \/ TimerFires(s) \/ ServiceEnds(s) PROVE UNCHANGED Store!vars
      <3>1. UNCHANGED <<store, job, plans, answer>>
        BY <2>1 DEF NotifyParent, TimerFires, ServiceEnds, tokens
      <3> QED
        BY <1>1, <3>1
    <2>2. ASSUME NEW u \in UnitPart, HandEdit(s, u) PROVE Store!Next
      <3>1. Store!Edit(s) /\ s \in Stem
        BY <2>2, EditEdits, PlanApplyAssumption
      <3> QED
        BY <3>1 DEF Store!Next
    <2> QED
      BY <1>3, <2>1, <2>2 DEF Outside
  <1>4. ASSUME NEW p \in plans, Expire(p) PROVE UNCHANGED Store!vars
    BY <1>1, <1>4 DEF Expire
  <1>5. ASSUME NEW c \in Client, Applying(c) PROVE [Store!Next]_(Store!vars)
    <2>1. ASSUME NEW p \in plans, Present(c, p) PROVE Store!Next
      <3>1. Store!Ask(c)
        BY <2>1, PresentAsks
      <3> QED
        BY <3>1 DEF Store!Next
    <2>2. CASE Inner(c)
      <3>1. UNCHANGED <<StoreSeen, plans, answer>>
        BY <2>2, InnerSeen, InnerJob
      <3>2. UNCHANGED PlansSeen
        BY <3>1, SeenPlans
      <3> QED
        BY <3>1, <3>2 DEF Store!vars
    <2>3. CASE Finish(c)
      BY <2>3, FinishApplies DEF Store!Next
    <2>4. CASE Abandon(c)
      BY <2>4, AbandonBreaks DEF Store!Next
    <2> QED
      BY <1>5, <2>1, <2>2, <2>3, <2>4 DEF Applying, Inner
  <1> QED
    BY <1>1, <1>2, <1>3, <1>4, <1>5 DEF Next, vars

\* As long as applies do not overlap, plan/apply is compare-and-replace: whatever
\* is edited by hand or fails in between, an apply replaces what its plan saw.
THEOREM PlansReplaceWhatTheySaw == ASSUME ~Overlap PROVE Spec => PlansAreChecked
  <1>1. Typed /\ Serial /\ View /\ Typed' /\ Serial' /\ View' /\ [Next]_vars
            => [Store!Next]_(Store!vars)
    BY RefinesStep
  <1> QED
    BY <1>1, RefinesInit, SeenView, SerialAlways, PTL
       DEF Spec, PlansAreChecked, Store!Spec

-----------------------------------------------------------------------------
(* Counting, and definitions by recursion *)

\* A set of numbers that is not empty has a least one.
LEMMA Least ==
    ASSUME NEW S \in SUBSET Nat, S # {}
    PROVE  \E m \in S : \A n \in S : m <= n
  <1>1. PICK m \in S : \A n \in S : ~(<<n, m>> \in OpToRel(<, Nat))
    BY NatLessThanWellFounded, WFMin
  <1>2. \A n \in S : ~(n < m)
    BY <1>1 DEF OpToRel
  <1> QED
    BY <1>2

\* 0 is good, and up to N what follows a good number.
GoesUp(N, Good) == 0 \in Good /\ \A k \in 1..N : k - 1 \in Good => k \in Good

LEMMA ByCounting ==
    ASSUME NEW N \in Nat, NEW Good, GoesUp(N, Good)
    PROVE  N \in Good
  <1> DEFINE Bad == {k \in 0..N : k \notin Good}
  <1>1. SUFFICES ASSUME Bad # {} PROVE FALSE
    <2>1. N \in 0..N
      OBVIOUS
    <2> QED
      BY <2>1
  <1>2. Bad \in SUBSET Nat
    OBVIOUS
  <1>3. PICK k \in Bad : \A j \in Bad : k <= j
    <2> HIDE DEF Bad
    <2> QED
      BY <1>1, <1>2, Least
  <1>4. k # 0
    BY <1>3 DEF GoesUp
  <1>5. k \in 1..N /\ k - 1 \in 0..N /\ ~(k <= k - 1)
    BY <1>3, <1>4
  <1>6. k - 1 \in Good
    BY <1>3, <1>5
  <1> QED
    BY <1>3, <1>5, <1>6 DEF GoesUp

\* f starts from base and goes from k - 1 to k by step[k].
Recurs(f, N, base, step) ==
    \A k \in 0..N : f[k] = IF k = 0 THEN base ELSE step[k][f[k - 1]]

\* There is a function that does so: the definitions by recursion mean something.
LEMMA RecursionExists ==
    ASSUME NEW N \in Nat, NEW T, NEW base \in T, NEW step \in [1..N -> [T -> T]]
    PROVE  \E f \in [0..N -> T] : Recurs(f, N, base, step)
  <1> USE DEF Recurs
  <1> DEFINE Solves(f, m) ==
                /\ f \in [0..m -> T]
                /\ \A k \in 0..m : f[k] = IF k = 0 THEN base ELSE step[k][f[k - 1]]
             Good == {m \in 0..N : \E f : Solves(f, m)}
  <1>1. 0 \in Good
    <2> DEFINE f == [k \in 0..0 |-> base]
    <2>1. f \in [0..0 -> T] /\ \A k \in 0..0 : k = 0 /\ f[k] = base
      OBVIOUS
    <2> HIDE DEF f
    <2>2. Solves(f, 0)
      BY <2>1
    <2> QED
      BY <2>2
  <1>2. ASSUME NEW m \in 1..N, m - 1 \in Good
        PROVE  m \in Good
    <2>1. m - 1 \in 0..m
      OBVIOUS
    <2>2. PICK g : Solves(g, m - 1)
      BY <1>2
    <2> DEFINE f == [k \in 0..m |-> IF k = m THEN step[m][g[m - 1]] ELSE g[k]]
    <2>3. \A k \in 0..m : f[k] \in T
      BY <2>1, <2>2
    <2>4. \A k \in 0..m : f[k] = IF k = 0 THEN base ELSE step[k][f[k - 1]]
      <3> SUFFICES ASSUME NEW k \in 0..m
                   PROVE  f[k] = IF k = 0 THEN base ELSE step[k][f[k - 1]]
        OBVIOUS
      <3>1. \A j \in 0..m : f[j] = IF j = m THEN step[m][g[m - 1]] ELSE g[j]
        OBVIOUS
      <3> HIDE DEF f
      <3>2. CASE k = m
        <4>1. m - 1 \in 0..m /\ m - 1 # m
          BY <2>1
        <4>2. f[m - 1] = g[m - 1]
          BY <3>1, <4>1
        <4>3. f[m] = step[m][g[m - 1]]
          BY <3>1
        <4> QED
          BY <2>1, <3>2, <4>2, <4>3
      <3>3. CASE k # m
        <4>1. k \in 0..m - 1 /\ f[k] = g[k]
          BY <2>1, <3>1, <3>3
        <4>2. k # 0 => k - 1 \in 0..m /\ k - 1 # m
          BY <2>1, <3>3
        <4>3. k # 0 => f[k - 1] = g[k - 1]
          BY <3>1, <4>2
        <4>4. g[k] = IF k = 0 THEN base ELSE step[k][g[k - 1]]
          BY <2>2, <4>1
        <4> QED
          BY <4>1, <4>3, <4>4
      <3> QED
        BY <3>2, <3>3
    <2>5. Solves(f, m)
      <3>1. f = [k \in 0..m |-> f[k]]
        OBVIOUS
      <3> HIDE DEF f
      <3>2. f \in [0..m -> T]
        BY <2>3, <3>1
      <3> QED
        BY <2>4, <3>2
    <2> HIDE DEF Solves, f
    <2> QED
      BY <2>5
  <1>3. N \in Good
    <2>1. GoesUp(N, Good)
      BY <1>1, <1>2 DEF GoesUp
    <2> HIDE DEF Good
    <2> QED
      BY <2>1, ByCounting
  <1> QED
    BY <1>3

-----------------------------------------------------------------------------
(* Sequences *)

LEMMA SequencesAre ==
    ASSUME NEW E
    PROVE  /\ <<>> \in Seq(E)
           /\ \A d \in E : <<d>> \in Seq(E) /\ Len(<<d>>) = 1 /\ <<d>>[1] = d
           /\ \A s \in Seq(E), d \in E : Append(s, d) \in Seq(E)
           /\ \A s \in Seq(E), d \in E : Append(s, d) # <<>>
           /\ \A s, t \in Seq(E) : s \o t \in Seq(E)
           /\ \A s \in Seq(E) : s \o <<>> = s /\ <<>> \o s = s
           /\ \A s \in Seq(E), d \in E : s \o <<d>> = Append(s, d)
           /\ \A s, t, u \in Seq(E) : s \o (t \o u) = (s \o t) \o u
           /\ \A s, t \in Seq(E), d \in E : s \o Append(t, d) = Append(s \o t, d)
  <1>1. \A d \in E : <<d>> \in Seq(E) /\ Len(<<d>>) = 1 /\ <<d>>[1] = d
    OBVIOUS
  <1>2. \A s \in Seq(E), d \in E : s \o <<d>> = Append(s, d)
    <2> SUFFICES ASSUME NEW s \in Seq(E), NEW d \in E
                 PROVE  s \o <<d>> = Append(s, d)
      OBVIOUS
    <2>1. PICK t \in Seq(E) : t = <<d>> /\ Len(t) = 1 /\ t[1] = d
      BY <1>1
    <2>2. s \o t = Append(s, d)
      BY <2>1
    <2> QED
      BY <2>1, <2>2
  <1>3. \A s, t \in Seq(E), d \in E : s \o Append(t, d) = Append(s \o t, d)
    OBVIOUS
  <1>4. \A s, t, u \in Seq(E) : s \o (t \o u) = (s \o t) \o u
    OBVIOUS
  <1>5. /\ <<>> \in Seq(E)
        /\ \A s \in Seq(E), d \in E : Append(s, d) \in Seq(E) /\ Append(s, d) # <<>>
        /\ \A s, t \in Seq(E) : s \o t \in Seq(E)
        /\ \A s \in Seq(E) : s \o <<>> = s /\ <<>> \o s = s
    OBVIOUS
  <1> QED
    BY <1>1, <1>2, <1>3, <1>4, <1>5

LEMMA TwoElements ==
    ASSUME NEW E, NEW d \in E, NEW e \in E
    PROVE  Append(<<d>>, e) = <<d, e>> /\ <<d, e>> \in Seq(E)
  <1>1. <<d, e>> \in Seq(E) /\ Len(<<d, e>>) = 2 /\ <<d, e>>[1] = d /\ <<d, e>>[2] = e
    OBVIOUS
  <1>2. <<d>> \in Seq(E) /\ Len(<<d>>) = 1 /\ <<d>>[1] = d
    OBVIOUS
  <1>3. PICK s \in Seq(E) : s = <<d>> /\ Len(s) = 1 /\ s[1] = d
    BY <1>2
  <1>4. PICK t \in Seq(E) : t = <<d, e>> /\ Len(t) = 2 /\ t[1] = d /\ t[2] = e
    BY <1>1
  <1>5. Append(s, e) = t
    <2> DEFINE r == Append(s, e)
    <2>1. r \in Seq(E) /\ Len(r) = 2 /\ r[1] = d /\ r[2] = e
      BY <1>3
    <2> HIDE DEF r
    <2>2. r = t
      BY <1>4, <2>1
    <2> QED
      BY <2>2 DEF r
  <1> QED
    BY <1>1, <1>3, <1>4, <1>5


-----------------------------------------------------------------------------
(* Loops over a sequence *)

\* start is a state of the loop, and step goes from state to state.
Loop(S, E, start, step) == start \in S /\ step \in [S \X E -> S]

\* f follows the loop.
Scans(f, step, start, s) ==
    f[0] = start /\ \A k \in 1..Len(s) : f[k] = step[<<f[k - 1], s[k]>>]

LEMMA ScannedFrom ==
    ASSUME NEW S, NEW E, NEW start, NEW step, Loop(S, E, start, step), NEW s \in Seq(E)
    PROVE  \E f : Scans(f, step, start, s) /\ Scanned(step, start, s) = f[Len(s)]
  <1> DEFINE N == Len(s)
             after == CHOOSE f : f = [k \in 0..N |-> IF k = 0 THEN start
                                                     ELSE step[<<f[k - 1], s[k]>>]]
             next == [k \in 1..N |-> [a \in S |-> step[<<a, s[k]>>]]]
  <1>0. start \in S /\ step \in [S \X E -> S]
    BY DEF Loop
  <1>1. N \in Nat
    OBVIOUS
  <1>2. \A k \in 1..N : s[k] \in E
    OBVIOUS
  <1>3. next \in [1..N -> [S -> S]]
    BY <1>0, <1>2
  <1>4. PICK f \in [0..N -> S] : Recurs(f, N, start, next)
    <2> HIDE DEF next, N, after
    <2> QED
      BY <1>0, <1>1, <1>3, RecursionExists
  <1>5. \A k \in 0..N : f[k] = IF k = 0 THEN start ELSE step[<<f[k - 1], s[k]>>]
    <2> SUFFICES ASSUME NEW k \in 0..N, k # 0
                 PROVE  f[k] = step[<<f[k - 1], s[k]>>]
      BY <1>4 DEF Recurs
    <2>1. k \in 1..N /\ f[k - 1] \in S
      <3> HIDE DEF next, after
      <3> QED
        BY <1>1, <1>4
    <2>2. f[k] = next[k][f[k - 1]]
      BY <1>4 DEF Recurs
    <2> DEFINE a == f[k - 1]
    <2> HIDE DEF a
    <2>3. next[k][a] = step[<<a, s[k]>>]
      BY <2>1 DEF a
    <2> QED
      BY <2>2, <2>3 DEF a
  <1>6. f = [k \in 0..N |-> IF k = 0 THEN start ELSE step[<<f[k - 1], s[k]>>]]
    <2>1. f = [k \in 0..N |-> f[k]]
      BY <1>4
    <2> QED
      BY <1>5, <2>1
  <1>7. after = [k \in 0..N |-> IF k = 0 THEN start ELSE step[<<after[k - 1], s[k]>>]]
    BY <1>6, Zenon
  <1>8. Scanned(step, start, s) = after[N]
    BY Zenon DEF Scanned
  <1> HIDE DEF after
  <1>9. Scans(after, step, start, s)
    <2>1. \A k \in 0..N : after[k] = IF k = 0 THEN start ELSE step[<<after[k - 1], s[k]>>]
      BY <1>7
    <2>2. after[0] = start
      <3>1. 0 \in 0..N
        BY <1>1
      <3> HIDE DEF N
      <3> QED
        BY <2>1, <3>1
    <2>3. ASSUME NEW k \in 1..N
          PROVE  after[k] = step[<<after[k - 1], s[k]>>]
      <3>1. k \in 0..N /\ k # 0
        BY <1>1
      <3> QED
        BY <2>1, <3>1
    <2> QED
      BY <2>2, <2>3 DEF Scans
  <1> QED
    BY <1>8, <1>9

LEMMA ScansTyped ==
    ASSUME NEW S, NEW E, NEW start, NEW step, Loop(S, E, start, step), NEW s \in Seq(E),
           NEW f, Scans(f, step, start, s), NEW n \in 0..Len(s)
    PROVE  f[n] \in S
  <1> DEFINE Good == {k \in 0..n : f[k] \in S}
  <1>0. start \in S /\ step \in [S \X E -> S]
    BY DEF Loop
  <1>1. 0 \in Good
    BY <1>0 DEF Scans
  <1>2. ASSUME NEW k \in 1..n, k - 1 \in Good
        PROVE  k \in Good
    <2>1. k \in 1..Len(s) /\ f[k - 1] \in S
      BY <1>2
    <2>2. s[k] \in E
      BY <2>1
    <2>3. f[k] = step[<<f[k - 1], s[k]>>]
      BY <2>1 DEF Scans
    <2>4. <<f[k - 1], s[k]>> \in S \X E
      BY <2>1, <2>2
    <2> QED
      BY <1>0, <1>2, <2>3, <2>4
  <1>3. GoesUp(n, Good)
    BY <1>1, <1>2 DEF GoesUp
  <1>4. n \in Good
    <2> HIDE DEF Good
    <2> QED
      BY <1>3, ByCounting
  <1> QED
    BY <1>4

LEMMA ScannedTyped ==
    ASSUME NEW S, NEW E, NEW start, NEW step, Loop(S, E, start, step), NEW s \in Seq(E)
    PROVE  Scanned(step, start, s) \in S
  <1>1. PICK f : Scans(f, step, start, s) /\ Scanned(step, start, s) = f[Len(s)]
    BY ScannedFrom
  <1>2. Len(s) \in 0..Len(s)
    OBVIOUS
  <1> QED
    BY <1>1, <1>2, ScansTyped

LEMMA ScannedNone ==
    ASSUME NEW S, NEW E, NEW start, NEW step, Loop(S, E, start, step)
    PROVE  Scanned(step, start, <<>>) = start
  <1>1. ASSUME NEW s \in Seq(E), Len(s) = 0
        PROVE  Scanned(step, start, s) = start
    <2>1. PICK f : Scans(f, step, start, s) /\ Scanned(step, start, s) = f[Len(s)]
      BY ScannedFrom
    <2> QED
      BY <1>1, <2>1 DEF Scans
  <1>2. <<>> \in Seq(E) /\ Len(<<>>) = 0
    OBVIOUS
  <1> QED
    BY <1>1, <1>2

LEMMA ScannedMore ==
    ASSUME NEW S, NEW E, NEW start, NEW step, Loop(S, E, start, step), NEW s \in Seq(E), NEW e \in E
    PROVE  Scanned(step, start, Append(s, e)) = step[<<Scanned(step, start, s), e>>]
  <1> DEFINE t == Append(s, e)
             N == Len(s)
  <1>1. t \in Seq(E) /\ Len(t) = N + 1 /\ t[N + 1] = e /\ \A k \in 1..N : t[k] = s[k]
    OBVIOUS
  <1>0. N \in Nat
    OBVIOUS
  <1> HIDE DEF t
  <1>2. PICK f : Scans(f, step, start, s) /\ Scanned(step, start, s) = f[N]
    BY ScannedFrom
  <1>3. PICK g : Scans(g, step, start, t) /\ Scanned(step, start, t) = g[N + 1]
    BY <1>1, ScannedFrom
  <1> DEFINE Good == {k \in 0..N : f[k] = g[k]}
  <1>4. 0 \in Good
    BY <1>0, <1>2, <1>3 DEF Scans
  <1>5. ASSUME NEW k \in 1..N, k - 1 \in Good
        PROVE  k \in Good
    <2>1. f[k] = step[<<f[k - 1], s[k]>>]
      BY <1>2 DEF Scans
    <2>2. k \in 1..Len(t) /\ t[k] = s[k]
      BY <1>0, <1>1
    <2>3. g[k] = step[<<g[k - 1], t[k]>>]
      BY <1>3, <2>2 DEF Scans
    <2>4. k \in 0..N /\ f[k - 1] = g[k - 1]
      BY <1>0, <1>5
    <2> QED
      BY <2>1, <2>2, <2>3, <2>4
  <1>6. GoesUp(N, Good)
    BY <1>4, <1>5 DEF GoesUp
  <1>7. f[N] = g[N]
    <2>1. N \in Good
      <3> HIDE DEF Good
      <3> QED
        BY <1>0, <1>6, ByCounting
    <2> QED
      BY <2>1
  <1>8. PICK n : n = N + 1
    OBVIOUS
  <1>9. n \in 1..Len(t) /\ n - 1 = N
    BY <1>0, <1>1, <1>8
  <1>10. g[n] = step[<<g[n - 1], t[n]>>]
    BY <1>3, <1>9 DEF Scans
  <1> QED
    BY <1>1, <1>2, <1>3, <1>7, <1>8, <1>9, <1>10 DEF t

\* The empty sequence is good, and what a good one becomes with one more element.
GoesOn(E, Good) ==
    <<>> \in Good /\ \A s \in Seq(E) : s \in Good => \A e \in E : Append(s, e) \in Good

LEMMA ByAppending ==
    ASSUME NEW E, NEW Good, GoesOn(E, Good), NEW s \in Seq(E)
    PROVE  s \in Good
  <1> DEFINE N == Len(s)
             Upto(n) == SubSeq(s, 1, n)
             Fine == {n \in 0..N : Upto(n) \in Good}
  <1>1. N \in Nat /\ s = [i \in 1..N |-> s[i]] /\ \A i \in 1..N : s[i] \in E
    OBVIOUS
  <1>2. \A n \in 0..N : /\ Upto(n) \in Seq(E) /\ Len(Upto(n)) = n
                        /\ \A i \in 1..n : Upto(n)[i] = s[i]
    OBVIOUS
  <1>3. Upto(0) = <<>>
    BY <1>2
  <1>4. Upto(N) = s
    BY <1>1, <1>2
  <1>5. ASSUME NEW n \in 1..N
        PROVE  Upto(n) = Append(Upto(n - 1), s[n])
    <2> DEFINE t == Append(Upto(n - 1), s[n])
    <2>1. n - 1 \in 0..N /\ s[n] \in E
      BY <1>1
    <2>2. Upto(n - 1) \in Seq(E) /\ Len(Upto(n - 1)) = n - 1
      BY <1>2, <2>1
    <2>3. t \in Seq(E) /\ Len(t) = n /\ \A i \in 1..n : t[i] = s[i]
      BY <1>2, <2>1, <2>2
    <2>4. Upto(n) \in Seq(E) /\ Len(Upto(n)) = n /\ \A i \in 1..n : Upto(n)[i] = s[i]
      BY <1>2
    <2> HIDE DEF t, Upto
    <2>5. t = Upto(n)
      BY <2>3, <2>4
    <2> QED
      BY <2>5 DEF t
  <1> HIDE DEF Upto
  <1>6. 0 \in Fine
    BY <1>1, <1>3 DEF GoesOn
  <1>7. ASSUME NEW n \in 1..N, n - 1 \in Fine
        PROVE  n \in Fine
    <2>1. n - 1 \in 0..N /\ Upto(n - 1) \in Good /\ Upto(n - 1) \in Seq(E) /\ s[n] \in E
      BY <1>1, <1>2, <1>7
    <2>2. Upto(n) \in Good
      BY <1>5, <2>1 DEF GoesOn
    <2> QED
      BY <2>2
  <1>8. GoesUp(N, Fine)
    BY <1>6, <1>7 DEF GoesUp
  <1>9. N \in Fine
    <2> HIDE DEF Fine
    <2> QED
      BY <1>1, <1>8, ByCounting
  <1> QED
    BY <1>4, <1>9

\* A loop over two sequences, one after the other.
LEMMA ScannedOn ==
    ASSUME NEW S, NEW E, NEW start, NEW step, Loop(S, E, start, step),
           NEW s \in Seq(E), NEW t \in Seq(E)
    PROVE  Scanned(step, start, s \o t) = Scanned(step, Scanned(step, start, s), t)
  <1> DEFINE mid == Scanned(step, start, s)
             Good == {u \in Seq(E) : Scanned(step, start, s \o u) = Scanned(step, mid, u)}
  <1>1. Loop(S, E, mid, step)
    BY ScannedTyped DEF Loop
  <1>2. <<>> \in Good
    <2>1. s \o <<>> = s /\ <<>> \in Seq(E)
      OBVIOUS
    <2> HIDE DEF mid
    <2>2. Scanned(step, mid, <<>>) = mid
      BY <1>1, ScannedNone
    <2> QED
      BY <2>1, <2>2 DEF mid
  <1>3. ASSUME NEW u \in Seq(E), u \in Good, NEW e \in E
        PROVE  Append(u, e) \in Good
    <2>1. s \o Append(u, e) = Append(s \o u, e) /\ Append(u, e) \in Seq(E) /\ s \o u \in Seq(E)
      OBVIOUS
    <2>2. ASSUME NEW v \in Seq(E)
          PROVE  Scanned(step, start, Append(v, e)) = step[<<Scanned(step, start, v), e>>]
      BY ScannedMore
    <2> HIDE DEF mid
    <2>3. Scanned(step, mid, Append(u, e)) = step[<<Scanned(step, mid, u), e>>]
      BY <1>1, ScannedMore
    <2> QED
      BY <1>3, <2>1, <2>2, <2>3
  <1>4. GoesOn(E, Good)
    BY <1>2, <1>3 DEF GoesOn
  <1>5. t \in Good
    <2> HIDE DEF Good
    <2> QED
      BY <1>4, ByAppending
  <1> QED
    BY <1>5

LEMMA ScannedOne ==
    ASSUME NEW S, NEW E, NEW start, NEW step, Loop(S, E, start, step), NEW e \in E
    PROVE  Scanned(step, start, <<e>>) = step[<<start, e>>]
  <1>1. <<>> \in Seq(E) /\ Append(<<>>, e) = <<e>>
    BY SequencesAre
  <1>2. ASSUME NEW s \in Seq(E)
        PROVE  Scanned(step, start, Append(s, e)) = step[<<Scanned(step, start, s), e>>]
    BY ScannedMore
  <1>3. Scanned(step, start, <<>>) = start
    BY ScannedNone
  <1> QED
    BY <1>1, <1>2, <1>3

LEMMA ScannedTwo ==
    ASSUME NEW S, NEW E, NEW start, NEW step, Loop(S, E, start, step), NEW d \in E, NEW e \in E
    PROVE  Scanned(step, start, <<d, e>>) = step[<<step[<<start, d>>], e>>]
  <1>1. <<d>> \in Seq(E) /\ Append(<<d>>, e) = <<d, e>>
    BY SequencesAre, TwoElements
  <1>2. ASSUME NEW s \in Seq(E)
        PROVE  Scanned(step, start, Append(s, e)) = step[<<Scanned(step, start, s), e>>]
    BY ScannedMore
  <1>3. Scanned(step, start, <<d>>) = step[<<start, d>>]
    BY ScannedOne
  <1> QED
    BY <1>1, <1>2, <1>3

-----------------------------------------------------------------------------
(* Escaping and unescaping *)

Escaping == [p \in Text \X Char |-> p[1] \o EscapedChar(p[2])]
Unescaping == [p \in Holding \X Char |-> UnescapeNext(p[1], p[2])]
Unheld(o) == [out |-> o, held |-> <<>>]

LEMMA CharsAre == {"\\", "\"", "$", "%", " ", ":", "=", "'"} \subseteq Char
  BY AuthoringAssumption

LEMMA TextIs ==
    /\ <<>> \in Text
    /\ \A c \in Char : <<c>> \in Text /\ <<c>> # <<>>
    /\ \A v \in Text, c \in Char : Append(v, c) \in Text
    /\ \A v, w \in Text : v \o w \in Text
    /\ \A v \in Text : v \o <<>> = v /\ <<>> \o v = v
    /\ \A v \in Text, c \in Char : v \o <<c>> = Append(v, c)
    /\ \A u, v, w \in Text : u \o (v \o w) = (u \o v) \o w
    /\ \A v, w \in Text, c \in Char : v \o Append(w, c) = Append(v \o w, c)
  <1> USE DEF Text
  <1>1. ASSUME NEW c \in Char
        PROVE  <<c>> \in Text /\ <<c>> # <<>>
    <2>1. <<c>> \in Text /\ <<>> \o <<c>> = <<c>> /\ <<>> \o <<c>> = Append(<<>>, c) /\ Append(<<>>, c) # <<>>
      BY SequencesAre
    <2> QED
      BY <2>1
  <1>2. \A v \in Text, c \in Char : Append(v, c) \in Text /\ v \o <<c>> = Append(v, c)
    BY SequencesAre
  <1>3. \A u, v, w \in Text : u \o (v \o w) = (u \o v) \o w
    BY SequencesAre
  <1>4. <<>> \in Text /\ \A v \in Text : v \o <<>> = v /\ <<>> \o v = v
    BY SequencesAre
  <1>5. \A v, w \in Text : v \o w \in Text
    BY SequencesAre
  <1>6. \A v, w \in Text, c \in Char : v \o Append(w, c) = Append(v \o w, c)
    BY SequencesAre
  <1> QED
    BY <1>1, <1>2, <1>3, <1>4, <1>5, <1>6

LEMMA EscapedCharIs ==
    ASSUME NEW c \in Char
    PROVE  /\ EscapedChar(c) \in Text
           /\ c \in {"\\", "\"", "$"} => EscapedChar(c) = <<"\\", c>>
           /\ c = "%" => EscapedChar(c) = <<"%", c>>
           /\ c \notin {"\\", "\"", "$", "%"} => EscapedChar(c) = <<c>>
  <1>1. <<"\\", c>> \in Text /\ <<"%", c>> \in Text /\ <<c>> \in Text
    BY CharsAre, TwoElements, TextIs DEF Text
  <1>2. CASE c \in {"\\", "\"", "$"}
    BY <1>1, <1>2 DEF EscapedChar
  <1>3. CASE c = "%"
    BY <1>1, <1>3 DEF EscapedChar
  <1>4. CASE c \notin {"\\", "\"", "$", "%"}
    BY <1>1, <1>4 DEF EscapedChar
  <1> QED
    BY <1>2, <1>3, <1>4

LEMMA EscapingLoops ==
    /\ Loop(Text, Char, <<>>, Escaping)
    /\ \A w \in Text : \A c \in Char : Escaping[<<w, c>>] = w \o EscapedChar(c)
  <1>1. ASSUME NEW w \in Text, NEW c \in Char
        PROVE  w \o EscapedChar(c) \in Text
    BY EscapedCharIs, TextIs
  <1>2. Escaping \in [Text \X Char -> Text]
    BY <1>1 DEF Escaping
  <1>3. \A w \in Text : \A c \in Char : Escaping[<<w, c>>] = w \o EscapedChar(c)
    BY DEF Escaping
  <1> QED
    BY <1>2, <1>3, TextIs DEF Loop

LEMMA EscapedIs ==
    /\ Escaped(<<>>) = <<>>
    /\ \A w \in Text : /\ Escaped(w) \in Text
                       /\ \A c \in Char : Escaped(Append(w, c)) = Escaped(w) \o EscapedChar(c)
  <1>1. \A w : Escaped(w) = Scanned(Escaping, <<>>, w)
    BY DEF Escaped, Escaping
  <1>2. Scanned(Escaping, <<>>, <<>>) = <<>>
    BY EscapingLoops, ScannedNone
  <1>3. ASSUME NEW w \in Text
        PROVE  Escaped(w) \in Text
    <2>1. Scanned(Escaping, <<>>, w) \in Text
      <3> DEFINE T == Text
      <3>1. Loop(T, Char, <<>>, Escaping) /\ w \in Seq(Char)
        BY EscapingLoops DEF Text
      <3> HIDE DEF T
      <3>2. Scanned(Escaping, <<>>, w) \in T
        BY <3>1, ScannedTyped
      <3> QED
        BY <3>2 DEF T
    <2> QED
      BY <1>1, <2>1
  <1>4. ASSUME NEW w \in Text, NEW c \in Char
        PROVE  Escaped(Append(w, c)) = Escaped(w) \o EscapedChar(c)
    <2>1. Loop(Text, Char, <<>>, Escaping) /\ w \in Seq(Char)
      BY EscapingLoops DEF Text
    <2>2. Scanned(Escaping, <<>>, Append(w, c)) = Escaping[<<Scanned(Escaping, <<>>, w), c>>]
      BY <2>1, ScannedMore
    <2> QED
      BY <1>1, <1>3, <2>2, EscapingLoops
  <1> QED
    BY <1>1, <1>2, <1>3, <1>4

LEMMA UnescapingLoops ==
    ASSUME NEW acc \in Holding
    PROVE  /\ Loop(Holding, Char, acc, Unescaping)
           /\ \A c \in Char : Unescaping[<<acc, c>>] = UnescapeNext(acc, c)
  <1>1. ASSUME NEW a \in Holding, NEW c \in Char
        PROVE  UnescapeNext(a, c) \in Holding
    <2>1. a.out \in Text /\ a.held \in Text
      BY DEF Holding
    <2>2. /\ Append(a.out, c) \in Text /\ <<c>> \in Text /\ <<>> \in Text
          /\ Released(a) \in Text /\ Append(Released(a), c) \in Text
      BY <2>1, TextIs DEF Released
    <2> QED
      BY <2>2 DEF UnescapeNext, Holding
  <1>2. Unescaping \in [Holding \X Char -> Holding]
    BY <1>1 DEF Unescaping
  <1>3. \A c \in Char : Unescaping[<<acc, c>>] = UnescapeNext(acc, c)
    BY DEF Unescaping
  <1> QED
    BY <1>2, <1>3 DEF Loop

\* An escaped character gives the character.
LEMMA UnescapedChar ==
    ASSUME NEW o \in Text, NEW c \in Char
    PROVE  Unheld(o) \in Holding /\ Scanned(Unescaping, Unheld(o), EscapedChar(c)) = Unheld(Append(o, c))
  <1> DEFINE u == Unheld(o)
             v == Unheld(Append(o, c))
  <1>1. u \in Holding /\ v \in Holding
    BY TextIs DEF Unheld, Holding
  <1>0. u.out = o /\ u.held = <<>> /\ Released(u) = o
    BY TextIs DEF Unheld, Released
  <1> HIDE DEF u
  <1>2. Loop(Holding, Char, u, Unescaping)
    BY <1>1, UnescapingLoops
  <1>3. ASSUME NEW h \in Char, h \in {"\\", "%"}, Escapes(<<h>>, c)
        PROVE  Scanned(Unescaping, u, <<h, c>>) = v
    <2> DEFINE w == [out |-> o, held |-> <<h>>]
    <2>1. w \in Holding
      BY TextIs DEF Holding
    <2>2. UnescapeNext(u, h) = w
      <3>1. ~Escapes(u.held, h)
        BY <1>0, CharsAre, TextIs DEF Escapes
      <3> QED
        BY <1>0, <1>3, <3>1 DEF UnescapeNext
    <2>3. UnescapeNext(w, c) = v
      BY <1>3 DEF UnescapeNext, Unheld
    <2> HIDE DEF w, v
    <2>4. Unescaping[<<u, h>>] = w
      BY <1>1, <2>2, UnescapingLoops
    <2>5. Unescaping[<<w, c>>] = v
      BY <2>1, <2>3, UnescapingLoops
    <2>6. Scanned(Unescaping, u, <<h, c>>) = Unescaping[<<Unescaping[<<u, h>>], c>>]
      BY <1>2, ScannedTwo
    <2> QED
      BY <2>4, <2>5, <2>6
  <1>4. CASE c \in {"\\", "\"", "$"}
    <2>1. "\\" \in Char /\ Escapes(<<"\\">>, c)
      BY <1>4, CharsAre DEF Escapes
    <2>2. EscapedChar(c) = <<"\\", c>>
      BY <1>4, EscapedCharIs
    <2> HIDE DEF v
    <2>3. Scanned(Unescaping, u, <<"\\", c>>) = v
      BY <1>3, <2>1
    <2> QED
      BY <1>1, <2>2, <2>3 DEF u, v
  <1>5. CASE c = "%"
    <2>1. "%" \in Char /\ Escapes(<<"%">>, c)
      BY <1>5, CharsAre DEF Escapes
    <2>2. EscapedChar(c) = <<"%", c>>
      BY <1>5, EscapedCharIs
    <2> HIDE DEF v
    <2>3. Scanned(Unescaping, u, <<"%", c>>) = v
      BY <1>3, <2>1
    <2> QED
      BY <1>1, <2>2, <2>3 DEF u, v
  <1>6. CASE c \notin {"\\", "\"", "$", "%"}
    <2>1. EscapedChar(c) = <<c>>
      BY <1>6, EscapedCharIs
    <2>2. UnescapeNext(u, c) = v
      <3>1. ~Escapes(u.held, c)
        BY <1>0, <1>6 DEF Escapes
      <3> QED
        BY <1>0, <1>6, <3>1 DEF UnescapeNext, Unheld
    <2> HIDE DEF v
    <2>3. Scanned(Unescaping, u, <<c>>) = Unescaping[<<u, c>>]
      BY <1>2, ScannedOne
    <2>4. Unescaping[<<u, c>>] = UnescapeNext(u, c)
      BY <1>1, UnescapingLoops
    <2> QED
      BY <1>1, <2>1, <2>2, <2>3, <2>4 DEF u, v
  <1> QED
    BY <1>4, <1>5, <1>6

\* Escaping and unescaping give the word back, whatever its characters.
LEMMA UnescapedEscaped ==
    ASSUME NEW w \in Text
    PROVE  Unescaped(Escaped(w)) = w
  <1> DEFINE u == Unheld(<<>>)
             Good == {v \in Text : Scanned(Unescaping, u, Escaped(v)) = Unheld(v)}
  <1>1. u \in Holding
    BY TextIs DEF Unheld, Holding
  <1>9. u = Unheld(<<>>)
    OBVIOUS
  <1> HIDE DEF u
  <1>2. Loop(Holding, Char, u, Unescaping)
    BY <1>1, UnescapingLoops
  <1>3. <<>> \in Good
    <2>1. Scanned(Unescaping, u, <<>>) = u
      BY <1>2, ScannedNone
    <2> QED
      BY <1>9, <2>1, EscapedIs, TextIs
  <1>4. ASSUME NEW v \in Seq(Char), v \in Good, NEW c \in Char
        PROVE  Append(v, c) \in Good
    <2>1. v \in Text /\ Append(v, c) \in Text
      BY TextIs DEF Text
    <2> DEFINE s == Escaped(v)
               t == EscapedChar(c)
    <2>2. s \in Seq(Char) /\ t \in Seq(Char)
      BY <2>1, EscapedIs, EscapedCharIs DEF Text
    <2>3. Escaped(Append(v, c)) = s \o t
      BY <2>1, EscapedIs
    <2>5. Scanned(Unescaping, Unheld(v), t) = Unheld(Append(v, c))
      BY <2>1, UnescapedChar
    <2>6. Scanned(Unescaping, u, s) = Unheld(v)
      BY <1>4
    <2> HIDE DEF s, t
    <2>4. Scanned(Unescaping, u, s \o t) = Scanned(Unescaping, Scanned(Unescaping, u, s), t)
      BY <1>2, <2>2, ScannedOn
    <2> QED
      BY <2>1, <2>3, <2>4, <2>5, <2>6
  <1>5. GoesOn(Char, Good)
    BY <1>3, <1>4 DEF GoesOn
  <1>6. w \in Good
    <2>1. w \in Seq(Char)
      BY DEF Text
    <2> HIDE DEF Good
    <2> QED
      BY <1>5, <2>1, ByAppending
  <1>7. Unescaped(Escaped(w)) = Released(Unheld(w))
    BY <1>6, <1>9 DEF Unescaped, Unescaping, Unheld
  <1>8. Released(Unheld(w)) = w
    BY TextIs DEF Released, Unheld
  <1> QED
    BY <1>7, <1>8

-----------------------------------------------------------------------------
(* Quoting and splitting *)

\* The characters that quotation marks protect, and those that need no marks.
Plain == Char \ {"\""}
Unblanked == Plain \ {" "}
Word == Seq(Plain) \ {<<>>}

Splitter == [p \in Splitting \X Char |-> SplitNext(p[1], p[2])]
BetweenWords(acc) == acc.cur = <<>> /\ ~acc.quoted

LEMMA Widened ==
    ASSUME NEW D, NEW E, D \subseteq E, NEW s \in Seq(D)
    PROVE  s \in Seq(E)
  OBVIOUS

LEMMA PlainIs == Plain \subseteq Char /\ Unblanked \subseteq Plain /\ Unblanked \subseteq Char
  BY DEF Plain, Unblanked

LEMMA PlainText ==
    ASSUME NEW w \in Seq(Plain)
    PROVE  w \in Text
  BY PlainIs, Widened DEF Text

LEMMA EscapedPlain ==
    ASSUME NEW w \in Seq(Plain)
    PROVE  Escaped(w) \in Seq(Plain) /\ (w # <<>> => Escaped(w) # <<>>)
  <1> DEFINE Good == {v \in Seq(Plain) : Escaped(v) \in Seq(Plain) /\ (v # <<>> => Escaped(v) # <<>>)}
  <1>1. <<>> \in Good
    BY EscapedIs, SequencesAre
  <1>2. ASSUME NEW v \in Seq(Plain), v \in Good, NEW c \in Plain
        PROVE  Append(v, c) \in Good
    <2>1. v \in Text /\ c \in Char
      BY PlainText, PlainIs
    <2>2. Escaped(Append(v, c)) = Escaped(v) \o EscapedChar(c)
      BY <2>1, EscapedIs
    <2>3. EscapedChar(c) \in Seq(Plain) /\ Len(EscapedChar(c)) > 0
      <3>1. "\\" \in Plain /\ "%" \in Plain
        BY CharsAre DEF Plain
      <3>2. ASSUME NEW d \in Plain
            PROVE  <<d, c>> \in Seq(Plain) /\ Len(<<d, c>>) = 2
        BY TwoElements
      <3>3. <<c>> \in Seq(Plain) /\ Len(<<c>>) = 1
        BY SequencesAre
      <3> DEFINE t == EscapedChar(c)
      <3>4. t = <<"\\", c>> \/ t = <<"%", c>> \/ t = <<c>>
        BY <2>1, EscapedCharIs
      <3> HIDE DEF t
      <3> DEFINE Fine == t \in Seq(Plain) /\ Len(t) > 0
      <3>6. ASSUME NEW d \in Plain, t = <<d, c>>
            PROVE  Fine
        BY <3>2, <3>6
      <3>7. ASSUME t = <<c>>
            PROVE  Fine
        BY <3>3, <3>7
      <3> HIDE DEF Fine
      <3>8. Fine
        BY <3>1, <3>4, <3>6, <3>7
      <3>5. t \in Seq(Plain) /\ Len(t) > 0
        BY <3>8 DEF Fine
      <3> QED
        BY <3>5 DEF t
    <2> DEFINE s == Escaped(v)
               t == EscapedChar(c)
    <2>4. s \in Seq(Plain)
      BY <1>2
    <2>5. t \in Seq(Plain) /\ Len(t) > 0
      BY <2>3
    <2>6. Append(v, c) \in Seq(Plain)
      BY SequencesAre
    <2> HIDE DEF s, t
    <2>7. s \o t \in Seq(Plain) /\ s \o t # <<>>
      BY <2>4, <2>5
    <2> QED
      BY <2>2, <2>6, <2>7 DEF s, t
  <1>3. GoesOn(Plain, Good)
    BY <1>1, <1>2 DEF GoesOn
  <1>4. w \in Good
    <2> HIDE DEF Good
    <2> QED
      BY <1>3, ByAppending
  <1> QED
    BY <1>4

LEMMA SplittingLoops ==
    ASSUME NEW acc \in Splitting
    PROVE  /\ Loop(Splitting, Char, acc, Splitter)
           /\ \A c \in Char : Splitter[<<acc, c>>] = SplitNext(acc, c)
  <1>1. ASSUME NEW a \in Splitting, NEW c \in Char
        PROVE  SplitNext(a, c) \in Splitting
    <2>1. a.words \in Seq(Text) /\ a.cur \in Text /\ a.quoted \in BOOLEAN
      BY DEF Splitting
    <2>2. Append(a.cur, c) \in Text /\ <<>> \in Text
      BY <2>1, TextIs
    <2>3. Append(a.words, a.cur) \in Seq(Text)
      BY <2>1
    <2> QED
      BY <2>1, <2>2, <2>3 DEF SplitNext, Splitting, Ended
  <1>2. Splitter \in [Splitting \X Char -> Splitting]
    BY <1>1 DEF Splitter
  <1>3. \A c \in Char : Splitter[<<acc, c>>] = SplitNext(acc, c)
    BY DEF Splitter
  <1> QED
    BY <1>2, <1>3 DEF Loop

\* A character that is no quotation mark, and no blank unless in quotation marks,
\* is put to the word; so is a sequence of them.
Takes(acc, C) == C \subseteq Plain /\ (acc.quoted \/ C \subseteq Unblanked)
Grown(acc, s) == [acc EXCEPT !.cur = @ \o s]

LEMMA SplitTakes ==
    ASSUME NEW acc \in Splitting, NEW C, Takes(acc, C), NEW s \in Seq(C)
    PROVE  Grown(acc, s) \in Splitting /\ Scanned(Splitter, acc, s) = Grown(acc, s)
  <1> DEFINE Good == {v \in Seq(C) : Scanned(Splitter, acc, v) = Grown(acc, v)}
  <1>1. C \subseteq Char
    BY PlainIs DEF Takes
  <1>2. \A v \in Seq(C) : v \in Seq(Char) /\ v \in Text
    BY <1>1, Widened DEF Text
  <1>3. \A v \in Text : Grown(acc, v) \in Splitting
    <2>1. ASSUME NEW v \in Text
          PROVE  acc.cur \o v \in Text
      BY TextIs DEF Splitting
    <2> QED
      BY <2>1 DEF Splitting, Grown
  <1>4. <<>> \in Good
    <2>1. Scanned(Splitter, acc, <<>>) = acc
      BY SplittingLoops, ScannedNone
    <2>2. Grown(acc, <<>>) = acc
      BY TextIs DEF Splitting, Grown
    <2> QED
      BY <2>1, <2>2, SequencesAre
  <1>5. ASSUME NEW v \in Seq(C), v \in Good, NEW c \in C
        PROVE  Append(v, c) \in Good
    <2>1. v \in Seq(Char) /\ v \in Text /\ c \in Char
      BY <1>1, <1>2
    <2>2. Loop(Splitting, Char, acc, Splitter)
      BY SplittingLoops
    <2>3. Scanned(Splitter, acc, Append(v, c)) = Splitter[<<Scanned(Splitter, acc, v), c>>]
      BY <2>1, <2>2, ScannedMore
    <2>4. PICK g \in Splitting : g = Grown(acc, v)
      BY <1>3, <2>1
    <2>5. Splitter[<<g, c>>] = SplitNext(g, c)
      BY <2>1, SplittingLoops
    <2>6. SplitNext(g, c) = [g EXCEPT !.cur = Append(@, c)]
      <3>1. c # "\"" /\ (c # " " \/ g.quoted)
        BY <2>4 DEF Takes, Plain, Unblanked, Grown, Splitting
      <3> QED
        BY <3>1 DEF SplitNext
    <2>7. [g EXCEPT !.cur = Append(@, c)] = Grown(acc, Append(v, c))
      <3>1. acc.cur \in Text
        BY DEF Splitting
      <3>2. Append(acc.cur \o v, c) = acc.cur \o Append(v, c)
        BY <2>1, <3>1, TextIs
      <3> QED
        BY <2>4, <3>2 DEF Grown, Splitting
    <2>8. Append(v, c) \in Seq(C)
      OBVIOUS
    <2> QED
      BY <1>5, <2>3, <2>4, <2>5, <2>6, <2>7, <2>8
  <1>6. GoesOn(C, Good)
    BY <1>4, <1>5 DEF GoesOn
  <1>7. s \in Good
    <2> HIDE DEF Good
    <2> QED
      BY <1>6, ByAppending
  <1> QED
    BY <1>2, <1>3, <1>7

LEMMA Narrowed ==
    ASSUME NEW D, NEW E, NEW s \in Seq(D), \A i \in 1..Len(s) : s[i] \in E
    PROVE  s \in Seq(E)
  OBVIOUS

QuotationMark == <<"\"">>

LEMMA SplitMark ==
    ASSUME NEW acc \in Splitting
    PROVE  /\ QuotationMark \in Seq(Char)
           /\ [acc EXCEPT !.quoted = ~@] \in Splitting
           /\ Scanned(Splitter, acc, QuotationMark) = [acc EXCEPT !.quoted = ~@]
  <1> DEFINE q == "\""
  <1>1. q \in Char
    BY CharsAre
  <1>2. SplitNext(acc, q) = [acc EXCEPT !.quoted = ~@]
    BY DEF SplitNext
  <1>3. QuotationMark = <<q>>
    BY DEF QuotationMark
  <1> HIDE DEF q
  <1>4. Scanned(Splitter, acc, <<q>>) = Splitter[<<acc, q>>]
    BY <1>1, SplittingLoops, ScannedOne
  <1>5. Splitter[<<acc, q>>] = SplitNext(acc, q)
    BY <1>1, SplittingLoops
  <1>6. [acc EXCEPT !.quoted = ~@] \in Splitting
    BY DEF Splitting
  <1>7. QuotationMark \in Seq(Char)
    BY <1>1, <1>3, SequencesAre
  <1> QED
    BY <1>2, <1>3, <1>4, <1>5, <1>6, <1>7

\* The words that are written without quotation marks.
Unmarked(e) == e # <<>> /\ ToSet(e) \cap Quoting = {}

LEMMA QuoteWordIs ==
    ASSUME NEW w \in Text
    PROVE  /\ QuoteWord(w) \in Text
           /\ Unmarked(Escaped(w)) => QuoteWord(w) = Escaped(w)
           /\ ~Unmarked(Escaped(w)) => QuoteWord(w) = (QuotationMark \o Escaped(w)) \o QuotationMark
  <1>1. w \in Text /\ Escaped(w) \in Text
    BY EscapedIs
  <1>2. QuotationMark \in Text
    BY CharsAre, TextIs DEF QuotationMark
  <1>3. (QuotationMark \o Escaped(w)) \o QuotationMark \in Text
    BY <1>1, <1>2, TextIs
  <1>4. CASE Unmarked(Escaped(w))
    <2>1. QuoteWord(w) = Escaped(w)
      BY <1>4 DEF QuoteWord, Unmarked
    <2> QED
      BY <1>1, <1>4, <2>1
  <1>5. CASE ~Unmarked(Escaped(w))
    <2>1. QuoteWord(w) = (QuotationMark \o Escaped(w)) \o QuotationMark
      BY <1>5 DEF QuoteWord, Unmarked, QuotationMark
    <2> QED
      BY <1>3, <1>5, <2>1
  <1> QED
    BY <1>4, <1>5

LEMMA UnmarkedIsBare ==
    ASSUME NEW e \in Seq(Plain), Unmarked(e)
    PROVE  e \in Seq(Unblanked)
  <1>1. \A i \in 1..Len(e) : e[i] \in Unblanked
    <2> SUFFICES ASSUME NEW i \in 1..Len(e)
                 PROVE  e[i] \in Unblanked
      OBVIOUS
    <2>1. e[i] \in Plain
      OBVIOUS
    <2>2. e[i] \in ToSet(e)
      BY DEF ToSet
    <2>3. e[i] # " "
      BY <2>2 DEF Unmarked, Quoting
    <2> QED
      BY <2>1, <2>3 DEF Unblanked
  <1> QED
    BY <1>1, Narrowed

\* However a word is quoted, splitting gathers it as it was escaped.
LEMMA SplitWord ==
    ASSUME NEW acc \in Splitting, BetweenWords(acc), NEW w \in Word
    PROVE  /\ [acc EXCEPT !.cur = Escaped(w)] \in Splitting
           /\ Scanned(Splitter, acc, QuoteWord(w)) = [acc EXCEPT !.cur = Escaped(w)]
  <1> DEFINE e == Escaped(w)
             done == [acc EXCEPT !.cur = e]
  <1>1. e \in Seq(Plain) /\ e \in Text /\ e \in Seq(Char)
    BY EscapedPlain, PlainText DEF Word, Text
  <1>2. done \in Splitting
    BY <1>1 DEF Splitting
  <1>9. QuoteWord(w) = IF Unmarked(e) THEN e ELSE (QuotationMark \o e) \o QuotationMark
    BY QuoteWordIs, PlainText DEF Word
  <1>8. \A a \in Splitting : a.cur = <<>> => Grown(a, e) = [a EXCEPT !.cur = e]
    BY <1>1, TextIs DEF Grown
  <1> HIDE DEF e
  <1>3. CASE Unmarked(e)
    <2>1. e \in Seq(Unblanked)
      BY <1>1, <1>3, UnmarkedIsBare
    <2>2. Takes(acc, Unblanked)
      BY PlainIs DEF Takes
    <2>3. Scanned(Splitter, acc, e) = Grown(acc, e)
      BY <2>1, <2>2, SplitTakes
    <2>4. Grown(acc, e) = done
      BY <1>8 DEF BetweenWords
    <2> QED
      BY <1>2, <1>3, <1>9, <2>3, <2>4 DEF e
  <1>4. CASE ~Unmarked(e)
    <2> DEFINE m == QuotationMark
               opened == [acc EXCEPT !.quoted = ~@]
               filled == Grown(opened, e)
    <2>1. opened \in Splitting /\ opened.quoted /\ opened.cur = <<>> /\ m \in Seq(Char)
      BY SplitMark DEF Splitting, BetweenWords
    <2>2. Scanned(Splitter, acc, m) = opened
      BY SplitMark
    <2>3. filled \in Splitting /\ Scanned(Splitter, opened, e) = filled
      <3>1. Takes(opened, Plain)
        BY <2>1 DEF Takes
      <3> HIDE DEF opened
      <3> QED
        BY <1>1, <2>1, <3>1, SplitTakes
    <2>4. [filled EXCEPT !.quoted = ~@] = done
      <3>1. filled = [opened EXCEPT !.cur = e]
        BY <1>8, <2>1
      <3> QED
        BY <3>1 DEF Splitting, BetweenWords
    <2>5. Scanned(Splitter, filled, m) = done
      <3> HIDE DEF filled
      <3>1. Scanned(Splitter, filled, m) = [filled EXCEPT !.quoted = ~@]
        BY <2>3, SplitMark
      <3> QED
        BY <2>4, <3>1
    <2> HIDE DEF m, opened, filled, done
    <2>6. Loop(Splitting, Char, acc, Splitter)
      BY SplittingLoops
    <2>7. Scanned(Splitter, acc, m \o e) = Scanned(Splitter, Scanned(Splitter, acc, m), e)
      BY <1>1, <2>1, <2>6, ScannedOn
    <2>8. ASSUME NEW s \in Seq(Char)
          PROVE  Scanned(Splitter, acc, s \o m) = Scanned(Splitter, Scanned(Splitter, acc, s), m)
      BY <2>1, <2>6, ScannedOn
    <2>9. m \o e \in Seq(Char)
      BY <1>1, <2>1
    <2>10. Scanned(Splitter, acc, (m \o e) \o m) = done
      BY <2>2, <2>3, <2>5, <2>7, <2>8, <2>9
    <2> QED
      BY <1>2, <1>4, <1>9, <2>10 DEF e, m, done
  <1> QED
    BY <1>3, <1>4

-----------------------------------------------------------------------------
(* Joining, and the command line *)

Mapped(F, s) == [n \in DOMAIN s |-> F[s[n]]]

Maps(F, D, E) == F \in [D -> E]

LEMMA MappedIs ==
    ASSUME NEW D, NEW E, NEW F, Maps(F, D, E)
    PROVE  /\ Mapped(F, <<>>) = <<>>
           /\ \A s \in Seq(D) : Mapped(F, s) \in Seq(E) /\ (s # <<>> => Mapped(F, s) # <<>>)
           /\ \A s \in Seq(D), d \in D : Mapped(F, Append(s, d)) = Append(Mapped(F, s), F[d])
  <1>0. F \in [D -> E]
    BY DEF Maps
  <1>1. Mapped(F, <<>>) = <<>>
    BY DEF Mapped
  <1>2. ASSUME NEW s \in Seq(D)
        PROVE  /\ Mapped(F, s) \in Seq(E) /\ Len(Mapped(F, s)) = Len(s)
               /\ \A n \in 1..Len(s) : Mapped(F, s)[n] = F[s[n]]
    <2>1. DOMAIN s = 1..Len(s) /\ \A n \in 1..Len(s) : s[n] \in D
      OBVIOUS
    <2> QED
      BY <1>0, <2>1 DEF Mapped
  <1>3. ASSUME NEW s \in Seq(D), s # <<>>
        PROVE  Mapped(F, s) # <<>>
    BY <1>2, <1>3
  <1>4. ASSUME NEW s \in Seq(D), NEW d \in D
        PROVE  Mapped(F, Append(s, d)) = Append(Mapped(F, s), F[d])
    <2> DEFINE t == Append(s, d)
               l == Mapped(F, t)
               m == Mapped(F, s)
    <2>1. t \in Seq(D) /\ Len(t) = Len(s) + 1 /\ t[Len(s) + 1] = d /\ \A n \in 1..Len(s) : t[n] = s[n]
      OBVIOUS
    <2>2. m \in Seq(E) /\ Len(m) = Len(s) /\ \A n \in 1..Len(s) : m[n] = F[s[n]]
      BY <1>2
    <2> HIDE DEF t
    <2>3. l \in Seq(E) /\ Len(l) = Len(t) /\ \A n \in 1..Len(t) : l[n] = F[t[n]]
      BY <1>2, <2>1
    <2>4. F[d] \in E
      BY <1>0
    <2> DEFINE r == Append(m, F[d])
    <2> HIDE DEF l, m
    <2>5. r \in Seq(E) /\ Len(r) = Len(s) + 1 /\ r[Len(s) + 1] = F[d] /\ \A n \in 1..Len(s) : r[n] = m[n]
      BY <2>2, <2>4
    <2> HIDE DEF r
    <2>6. l = r
      BY <2>1, <2>2, <2>3, <2>5
    <2> QED
      BY <2>6 DEF t, l, m, r
  <1> QED
    BY <1>1, <1>2, <1>3, <1>4

Joining(c) == [p \in Text \X Text |-> p[1] \o <<c>> \o p[2]]

LEMMA JoiningLoops ==
    ASSUME NEW c \in Char, NEW w \in Text
    PROVE  /\ Loop(Text, Text, w, Joining(c))
           /\ \A v \in Text : Joining(c)[<<w, v>>] = w \o <<c>> \o v
  <1>1. ASSUME NEW v \in Text, NEW u \in Text
        PROVE  v \o <<c>> \o u \in Text
    BY TextIs
  <1>2. Joining(c) \in [Text \X Text -> Text]
    BY <1>1 DEF Joining
  <1>3. \A v \in Text : Joining(c)[<<w, v>>] = w \o <<c>> \o v
    BY DEF Joining
  <1> QED
    BY <1>2, <1>3 DEF Loop

LEMMA JoinedIs ==
    ASSUME NEW c \in Char
    PROVE  /\ \A w \in Text : Joined(c, Append(<<>>, w)) = w
           /\ \A s \in Seq(Text) : s # <<>> =>
                 /\ Joined(c, s) \in Text
                 /\ \A w \in Text : Joined(c, Append(s, w)) = Joined(c, s) \o <<c>> \o w
  <1> DEFINE j == Joining(c)
  <1>1. \A s : s # <<>> => Joined(c, s) = Scanned(j, Head(s), Tail(s))
    BY DEF Joined, Joining
  <1>2. \A w \in Text : Loop(Text, Text, w, j)
    BY JoiningLoops
  <1> DEFINE T == Text
  <1>0. T = Text
    OBVIOUS
  <1> HIDE DEF j, T
  <1>3. ASSUME NEW w \in Text
        PROVE  Joined(c, Append(<<>>, w)) = w
    <2> DEFINE s == Append(<<>>, w)
    <2>1. s \in Seq(Text) /\ s # <<>> /\ Len(s) = 1 /\ s[1] = w
      OBVIOUS
    <2> HIDE DEF s
    <2> DEFINE t == Tail(s)
    <2>4. Head(s) = w /\ t \in Seq(Text) /\ Len(t) = 0
      BY <2>1
    <2>2. Head(s) = w /\ Tail(s) = <<>>
      <3> HIDE DEF t
      <3>1. t = <<>>
        BY <2>4
      <3> QED
        BY <2>4, <3>1 DEF t
    <2>3. Scanned(j, w, <<>>) = w
      BY <1>2, ScannedNone
    <2> QED
      BY <1>1, <2>1, <2>2, <2>3 DEF s
  <1>4. ASSUME NEW s \in Seq(Text), s # <<>>
        PROVE  /\ Joined(c, s) \in Text
               /\ \A w \in Text : Joined(c, Append(s, w)) = Joined(c, s) \o <<c>> \o w
    <2> DEFINE h == Head(s)
               t == Tail(s)
    <2>1. h \in T /\ t \in Seq(T)
      BY <1>0, <1>4
    <2>2. Loop(T, T, h, j)
      BY <1>0, <1>2, <2>1
    <2> HIDE DEF h, t
    <2>3. Scanned(j, h, t) \in T
      BY <2>1, <2>2, ScannedTyped
    <2>4. Joined(c, s) = Scanned(j, h, t)
      BY <1>1, <1>4 DEF h, t
    <2>5. ASSUME NEW w \in T
          PROVE  Joined(c, Append(s, w)) = Joined(c, s) \o <<c>> \o w
      <3>1. Append(s, w) # <<>> /\ Head(Append(s, w)) = h /\ Tail(Append(s, w)) = Append(t, w)
        <4> DEFINE l == Append(s, w)
        <4>1. s \in Seq(T) /\ Len(s) \in Nat /\ Len(s) > 0
          BY <1>0, <1>4
        <4>2. l \in Seq(T) /\ Len(l) = Len(s) + 1 /\ l[Len(s) + 1] = w /\ \A n \in 1..Len(s) : l[n] = s[n]
          BY <4>1
        <4>3. h = s[1] /\ Len(t) = Len(s) - 1 /\ \A n \in 1..Len(s) - 1 : t[n] = s[n + 1]
          BY <1>0, <1>4 DEF h, t
        <4> HIDE DEF l
        <4>4. l # <<>> /\ Head(l) = l[1] /\ Tail(l) \in Seq(T) /\ Len(Tail(l)) = Len(s)
          BY <4>1, <4>2
        <4>5. \A n \in 1..Len(s) : Tail(l)[n] = l[n + 1]
          BY <4>1, <4>2
        <4> DEFINE r == Append(t, w)
        <4>6. r \in Seq(T) /\ Len(r) = Len(s) /\ r[Len(s)] = w /\ \A n \in 1..Len(s) - 1 : r[n] = t[n]
          BY <2>1, <4>1, <4>3
        <4> DEFINE k == Tail(l)
        <4>7. k \in Seq(T) /\ Len(k) = Len(s) /\ \A n \in 1..Len(s) : k[n] = l[n + 1]
          BY <4>4, <4>5
        <4> HIDE DEF r, k
        <4>8. \A n \in 1..Len(s) : k[n] = r[n]
          <5> SUFFICES ASSUME NEW n \in 1..Len(s)
                       PROVE  k[n] = r[n]
            OBVIOUS
          <5>1. CASE n = Len(s)
            BY <4>1, <4>2, <4>6, <4>7, <5>1
          <5>2. CASE n # Len(s)
            <6>1. n \in 1..Len(s) - 1 /\ n + 1 \in 1..Len(s)
              BY <4>1, <5>2
            <6> QED
              BY <4>2, <4>3, <4>6, <4>7, <6>1
          <5> QED
            BY <5>1, <5>2
        <4>9. k = r
          BY <4>6, <4>7, <4>8
        <4>10. l[1] = h
          BY <4>1, <4>2, <4>3
        <4> QED
          BY <4>4, <4>9, <4>10 DEF l, r, k
      <3>2. Joined(c, Append(s, w)) = Scanned(j, h, Append(t, w))
        BY <1>1, <3>1
      <3>3. Scanned(j, h, Append(t, w)) = j[<<Scanned(j, h, t), w>>]
        BY <2>1, <2>2, ScannedMore
      <3>4. \A u \in Text : j[<<u, w>>] = u \o <<c>> \o w
        BY <1>0, JoiningLoops DEF j
      <3> QED
        BY <1>0, <2>3, <2>4, <3>2, <3>3, <3>4
    <2> QED
      BY <1>0, <2>3, <2>4, <2>5
  <1> QED
    BY <1>3, <1>4

Quoting1 == [w \in Word |-> QuoteWord(w)]
Escape1 == [w \in Word |-> Escaped(w)]
Start == [words |-> <<>>, cur |-> <<>>, quoted |-> FALSE]

\* What is split off so far are the words of ws as they were escaped.
Gathers(acc, ws) ==
    acc \in Splitting /\ ~acc.quoted /\ acc.cur # <<>> /\ Append(acc.words, acc.cur) = Mapped(Escape1, ws)

LEMMA WordIs ==
    /\ Maps(Quoting1, Word, Text) /\ Maps(Escape1, Word, Text)
    /\ \A w \in Word : /\ Quoting1[w] = QuoteWord(w) /\ Escape1[w] = Escaped(w)
                       /\ QuoteWord(w) \in Text /\ Escaped(w) \in Text /\ Escaped(w) # <<>>
                       /\ w \in Text
    /\ \A ws \in Seq(Word) : ExecLine(ws) = Joined(" ", Mapped(Quoting1, ws))
  <1>1. ASSUME NEW w \in Word
        PROVE  QuoteWord(w) \in Text /\ Escaped(w) \in Text /\ Escaped(w) # <<>> /\ w \in Text
    BY QuoteWordIs, EscapedPlain, PlainText DEF Word
  <1>2. Maps(Quoting1, Word, Text) /\ Maps(Escape1, Word, Text)
    BY <1>1 DEF Quoting1, Escape1, Maps
  <1>3. \A w \in Word : Quoting1[w] = QuoteWord(w) /\ Escape1[w] = Escaped(w)
    BY DEF Quoting1, Escape1
  <1>4. ASSUME NEW ws \in Seq(Word)
        PROVE  ExecLine(ws) = Joined(" ", Mapped(Quoting1, ws))
    <2>1. \A n \in DOMAIN ws : ws[n] \in Word
      OBVIOUS
    <2>2. [n \in DOMAIN ws |-> QuoteWord(ws[n])] = [n \in DOMAIN ws |-> Quoting1[ws[n]]]
      BY <1>3, <2>1
    <2> QED
      BY <2>2 DEF ExecLine, Mapped
  <1> QED
    BY <1>1, <1>2, <1>3, <1>4

LEMMA WordsMap ==
    ASSUME NEW F, Maps(F, Word, Text), NEW u \in Seq(Word)
    PROVE  /\ Mapped(F, u) \in Seq(Text) /\ (u # <<>> => Mapped(F, u) # <<>>)
           /\ \A w \in Word : Mapped(F, Append(u, w)) = Append(Mapped(F, u), F[w])
  <1> DEFINE T == Text
             W == Word
  <1>1. Maps(F, W, T) /\ u \in Seq(W)
    OBVIOUS
  <1> HIDE DEF T, W
  <1>2. /\ Mapped(F, u) \in Seq(T) /\ (u # <<>> => Mapped(F, u) # <<>>)
        /\ \A w \in W : Mapped(F, Append(u, w)) = Append(Mapped(F, u), F[w])
    BY <1>1, MappedIs
  <1> QED
    BY <1>2 DEF T, W

LEMMA ExecLineGathers ==
    ASSUME NEW ws \in Seq(Word), ws # <<>>
    PROVE  ExecLine(ws) \in Text /\ Gathers(Scanned(Splitter, Start, ExecLine(ws)), ws)
  <1> DEFINE Split(s) == Scanned(Splitter, Start, s)
             Good == {u \in Seq(Word) : u = <<>> \/ (ExecLine(u) \in Text /\ Gathers(Split(ExecLine(u)), u))}
             blank == " "
  <1>0. Start \in Splitting /\ BetweenWords(Start)
    BY TextIs, SequencesAre DEF Start, Splitting, BetweenWords
  <1>1. Loop(Splitting, Char, Start, Splitter)
    BY <1>0, SplittingLoops
  <1>2. blank \in Char
    BY CharsAre
  <1>3. \A u \in Seq(Word), w \in Word : ExecLine(Append(u, w)) = Joined(blank, Append(Mapped(Quoting1, u), QuoteWord(w)))
    <2> SUFFICES ASSUME NEW u \in Seq(Word), NEW w \in Word
                 PROVE  ExecLine(Append(u, w)) = Joined(blank, Append(Mapped(Quoting1, u), QuoteWord(w)))
      OBVIOUS
    <2>1. Append(u, w) \in Seq(Word)
      BY SequencesAre
    <2>2. Mapped(Quoting1, Append(u, w)) = Append(Mapped(Quoting1, u), Quoting1[w])
      <3>1. Maps(Quoting1, Word, Text)
        BY WordIs
      <3> QED
        BY <3>1, WordsMap
    <2> QED
      BY <2>1, <2>2, WordIs
  <1>4. \A u \in Seq(Word), w \in Word : Mapped(Escape1, Append(u, w)) = Append(Mapped(Escape1, u), Escaped(w))
    <2>1. Maps(Escape1, Word, Text)
      BY WordIs
    <2>2. \A u \in Seq(Word), w \in Word : Mapped(Escape1, Append(u, w)) = Append(Mapped(Escape1, u), Escape1[w])
      BY <2>1, WordsMap
    <2> QED
      BY <2>2, WordIs
  <1>5. \A s, t \in Text : Split(s \o t) = Scanned(Splitter, Split(s), t)
    BY <1>1, ScannedOn DEF Text
  <1> HIDE DEF blank
  <1>6. <<>> \in Good
    BY SequencesAre
  <1>7. ASSUME NEW u \in Seq(Word), u \in Good, NEW w \in Word
        PROVE  Append(u, w) \in Good
    <2> DEFINE v == Append(u, w)
               acc == Split(ExecLine(v))
    <2>1. v \in Seq(Word)
      BY SequencesAre
    <2>2. CASE u = <<>>
      <3>1. ExecLine(v) = QuoteWord(w)
        <4>1. Mapped(Quoting1, u) = <<>>
          BY <2>2, WordIs, MappedIs
        <4> QED
          BY <1>2, <1>3, <2>2, <4>1, JoinedIs, WordIs
      <3>2. acc = [Start EXCEPT !.cur = Escaped(w)] /\ acc \in Splitting
        <4>1. [Start EXCEPT !.cur = Escaped(w)] \in Splitting
          BY <1>0, SplitWord
        <4>2. Scanned(Splitter, Start, QuoteWord(w)) = [Start EXCEPT !.cur = Escaped(w)]
          BY <1>0, SplitWord
        <4> QED
          BY <3>1, <4>1, <4>2
      <3>3. Mapped(Escape1, v) = Append(<<>>, Escaped(w))
        <4>1. Mapped(Escape1, u) = <<>>
          BY <2>2, WordIs, MappedIs
        <4> QED
          BY <1>4, <4>1
      <3> HIDE DEF v, acc
      <3>4. Gathers(acc, v)
        BY <3>2, <3>3, WordIs DEF Gathers, Start
      <3>5. ExecLine(v) \in Text
        BY <3>1, WordIs
      <3> QED
        BY <2>1, <3>4, <3>5 DEF v, acc
    <2>3. CASE u # <<>>
      <3> DEFINE line == ExecLine(u)
                 before == Split(line)
                 between == [before EXCEPT !.words = Mapped(Escape1, u), !.cur = <<>>]
      <3>1. line \in Text /\ Gathers(before, u)
        BY <1>7, <2>3
      <3>2. ExecLine(v) = (line \o <<blank>>) \o QuoteWord(w)
        <4>1. Mapped(Quoting1, u) \in Seq(Text) /\ Mapped(Quoting1, u) # <<>>
          <5>1. Maps(Quoting1, Word, Text)
            BY WordIs
          <5> QED
            BY <2>3, <5>1, WordsMap
        <4>2. ExecLine(v) = Joined(blank, Append(Mapped(Quoting1, u), QuoteWord(w)))
          BY <1>3
        <4>3. Joined(blank, Mapped(Quoting1, u)) = line
          BY WordIs DEF blank
        <4> DEFINE m == Mapped(Quoting1, u)
        <4> HIDE DEF m, v, line
        <4> QED
          BY <1>2, <4>1, <4>2, <4>3, JoinedIs, WordIs DEF m
      <3>3. between \in Splitting /\ BetweenWords(between)
        BY <3>1, WordIs, MappedIs, TextIs DEF Gathers, Splitting, BetweenWords
      <3> HIDE DEF before, line, v, between
      <3>4. Scanned(Splitter, before, <<blank>>) = between
        <4>1. before \in Splitting
          BY <3>1 DEF Gathers
        <4>2. Scanned(Splitter, before, <<blank>>) = Splitter[<<before, blank>>]
          BY <1>2, <4>1, SplittingLoops, ScannedOne
        <4>3. Splitter[<<before, blank>>] = SplitNext(before, blank)
          BY <1>2, <4>1, SplittingLoops
        <4>4. SplitNext(before, blank) = between
          BY <3>1 DEF SplitNext, Gathers, Ended, between, blank
        <4> QED
          BY <4>2, <4>3, <4>4
      <3>5. Split(line \o <<blank>>) = between
        BY <1>2, <1>5, <3>1, <3>4, TextIs DEF before
      <3>6. Split(ExecLine(v)) = Scanned(Splitter, between, QuoteWord(w))
        <4>1. line \o <<blank>> \in Text /\ QuoteWord(w) \in Text
          BY <1>2, <3>1, TextIs, WordIs
        <4> QED
          BY <1>5, <3>2, <3>5, <4>1
      <3>7. acc = [between EXCEPT !.cur = Escaped(w)] /\ acc \in Splitting
        <4>1. [between EXCEPT !.cur = Escaped(w)] \in Splitting
          BY <3>3, SplitWord
        <4>2. Scanned(Splitter, between, QuoteWord(w)) = [between EXCEPT !.cur = Escaped(w)]
          BY <3>3, SplitWord
        <4> QED
          BY <3>6, <4>1, <4>2
      <3>8. Mapped(Escape1, v) = Append(Mapped(Escape1, u), Escaped(w))
        BY <1>4 DEF v
      <3> HIDE DEF acc
      <3>9. Gathers(acc, v)
        <4>1. /\ between.words = Mapped(Escape1, u) /\ ~between.quoted
              /\ between \in Splitting
          BY <3>1, <3>3 DEF Gathers, between, BetweenWords, Splitting
        <4>2. acc.words = Mapped(Escape1, u) /\ ~acc.quoted /\ acc.cur = Escaped(w)
          BY <3>7, <4>1 DEF Splitting
        <4>3. Escaped(w) # <<>>
          BY WordIs
        <4> QED
          BY <3>7, <3>8, <4>2, <4>3 DEF Gathers
      <3>10. ExecLine(v) \in Text
        <4>1. line \o <<blank>> \in Text
          BY <1>2, <3>1, TextIs
        <4>2. QuoteWord(w) \in Text
          BY WordIs
        <4> QED
          BY <3>2, <4>1, <4>2, TextIs
      <3> QED
        BY <2>1, <3>9, <3>10 DEF acc, v
    <2> QED
      BY <2>2, <2>3
  <1>8. GoesOn(Word, Good)
    BY <1>6, <1>7 DEF GoesOn
  <1>9. ws \in Good
    <2> HIDE DEF Good
    <2> QED
      BY <1>8, ByAppending
  <1> QED
    BY <1>9

\* A command line is read back as it was written, whatever its arguments but empty
\* ones and quotation marks.
THEOREM ExecReadBack ==
    ASSUME NEW ws \in Seq(Word), ws # <<>>
    PROVE  ExecLine(ws) \in Text /\ SplitExec(ExecLine(ws)) = ws
  <1> DEFINE acc == Scanned(Splitter, Start, ExecLine(ws))
             words == Ended(acc)
  <1>1. ExecLine(ws) \in Text /\ Gathers(acc, ws)
    BY ExecLineGathers
  <1>2. words = Mapped(Escape1, ws)
    BY <1>1 DEF Gathers, Ended
  <1>3. SplitExec(ExecLine(ws)) = [n \in DOMAIN words |-> Unescaped(words[n])]
    BY DEF SplitExec, Splitter, Start
  <1>4. DOMAIN words = DOMAIN ws /\ \A n \in DOMAIN ws : words[n] = Escaped(ws[n])
    <2>1. \A n \in DOMAIN ws : ws[n] \in Word
      OBVIOUS
    <2> QED
      BY <1>2, <2>1, WordIs DEF Mapped
  <1>5. \A n \in DOMAIN ws : Unescaped(words[n]) = ws[n]
    <2>1. \A n \in DOMAIN ws : ws[n] \in Text
      <3>1. \A n \in DOMAIN ws : ws[n] \in Word
        OBVIOUS
      <3> QED
        BY <3>1, WordIs
    <2> QED
      BY <1>4, <2>1, UnescapedEscaped
  <1> HIDE DEF words
  <1>6. SplitExec(ExecLine(ws)) = [n \in DOMAIN ws |-> ws[n]]
    BY <1>3, <1>4, <1>5
  <1>7. ws = [n \in DOMAIN ws |-> ws[n]]
    OBVIOUS
  <1> QED
    BY <1>1, <1>6, <1>7

-----------------------------------------------------------------------------
(* The path *)

Parter == [p \in Parting \X Char |-> PartNext(p[1], p[2])]
Within == Char \ {":"}
Inked(s) == s # <<>> /\ s[Len(s)] # Blank
PathPart == {v \in Seq(Within) : Inked(v)}
Parted == [words |-> <<>>, cur |-> <<>>]

LEMMA PartingLoops ==
    ASSUME NEW acc \in Parting
    PROVE  /\ Loop(Parting, Char, acc, Parter)
           /\ \A c \in Char : Parter[<<acc, c>>] = PartNext(acc, c)
  <1>1. ASSUME NEW a \in Parting, NEW c \in Char
        PROVE  PartNext(a, c) \in Parting
    <2>1. a.words \in Seq(Text) /\ a.cur \in Text
      BY DEF Parting
    <2>2. Append(a.cur, c) \in Text /\ <<>> \in Text
      BY <2>1, TextIs
    <2>3. Append(a.words, a.cur) \in Seq(Text)
      BY <2>1
    <2> QED
      BY <2>1, <2>2, <2>3 DEF PartNext, Parting
  <1>2. Parter \in [Parting \X Char -> Parting]
    BY <1>1 DEF Parter
  <1>3. \A c \in Char : Parter[<<acc, c>>] = PartNext(acc, c)
    BY DEF Parter
  <1> QED
    BY <1>2, <1>3 DEF Loop

LEMMA PartIs ==
    ASSUME NEW v \in Seq(Within)
    PROVE  v \in Text /\ v \in Seq(Char)
  <1>1. Within \subseteq Char
    BY DEF Within
  <1>2. v \in Seq(Char)
    BY <1>1, Widened
  <1> QED
    BY <1>2 DEF Text

LEMMA PathPartIs == PathPart \subseteq Text
  BY PartIs DEF PathPart

\* The blanks at the end begin somewhere.
LEMMA LastInkedIs ==
    ASSUME NEW s \in Text
    PROVE  /\ LastInked(s) \in 0..Len(s)
           /\ LastInked(s) > 0 => s[LastInked(s)] # Blank
           /\ \A k \in (LastInked(s) + 1)..Len(s) : s[k] = Blank
  <1> DEFINE N == Len(s)
             Blanks(n) == \A k \in (n + 1)..N : s[k] = Blank
             Ends(n) == (n > 0 => s[n] # Blank) /\ Blanks(n)
             Begins == {n \in 0..N : Blanks(n)}
  <1>1. N \in Nat
    BY DEF Text
  <1>7. LastInked(s) = CHOOSE n \in 0..N : Ends(n)
    BY DEF LastInked
  <1> HIDE DEF N
  <1>2. N \in Begins
    <2>1. \A k \in (N + 1)..N : FALSE
      BY <1>1
    <2>2. N \in 0..N
      BY <1>1
    <2> QED
      BY <2>1, <2>2
  <1> HIDE DEF Blanks
  <1>3. PICK m \in 0..N : Blanks(m) /\ \A n \in Begins : m <= n
    <2>1. Begins \in SUBSET Nat
      BY <1>1
    <2>2. \A n \in Begins : n \in 0..N /\ Blanks(n)
      OBVIOUS
    <2> HIDE DEF Begins
    <2> QED
      BY <1>2, <2>1, <2>2, Least
  <1>5. ASSUME m > 0
        PROVE  s[m] # Blank
    <2>1. m - 1 \in 0..N /\ ~(m <= m - 1) /\ (m - 1) + 1 = m
      BY <1>1, <1>5
    <2>2. ~Blanks(m - 1)
      BY <1>3, <2>1
    <2>3. PICK k \in m..N : s[k] # Blank
      BY <2>1, <2>2 DEF Blanks
    <2>4. k = m \/ k \in (m + 1)..N
      BY <1>1
    <2> QED
      BY <1>3, <2>3, <2>4 DEF Blanks
  <1>6. Ends(m)
    BY <1>3, <1>5
  <1> HIDE DEF Ends
  <1>8. LastInked(s) \in 0..N /\ Ends(LastInked(s))
    BY <1>6, <1>7
  <1> QED
    BY <1>8 DEF Ends, Blanks, N

LEMMA TrimmedIs ==
    ASSUME NEW s \in Text
    PROVE  Trimmed(s) \in Text /\ (Inked(s) => Trimmed(s) = s)
  <1> DEFINE n == LastInked(s)
  <1>1. n \in 0..Len(s) /\ \A k \in (n + 1)..Len(s) : s[k] = Blank
    BY LastInkedIs
  <1>2. s \in Seq(Char) /\ Len(s) \in Nat
    BY DEF Text
  <1>3. Trimmed(s) = SubSeq(s, 1, n)
    BY DEF Trimmed
  <1> HIDE DEF n
  <1>4. SubSeq(s, 1, n) \in Seq(Char)
    <2>1. \A k \in 1..n : k \in 1..Len(s) /\ s[k] \in Char
      BY <1>1, <1>2
    <2>2. n \in Nat /\ SubSeq(s, 1, n) = [k \in 1..n |-> s[k]]
      BY <1>1, <1>2
    <2> QED
      BY <2>1, <2>2, SequencesAre
  <1>5. ASSUME Inked(s)
        PROVE  n = Len(s)
    <2>1. s[Len(s)] # Blank
      BY <1>5 DEF Inked
    <2> QED
      BY <1>1, <1>2, <2>1
  <1>6. SubSeq(s, 1, Len(s)) = s
    BY <1>2
  <1> QED
    BY <1>3, <1>4, <1>5, <1>6 DEF Text

LEMMA InkedOn ==
    ASSUME NEW s \in Text, NEW t \in Text, Inked(t)
    PROVE  Inked(s \o t)
  <1>1. s \in Seq(Char) /\ t \in Seq(Char) /\ t # <<>> /\ t[Len(t)] # Blank
    BY DEF Text, Inked
  <1>2. Len(t) \in Nat /\ Len(t) > 0
    BY <1>1
  <1>3. Len(s \o t) = Len(s) + Len(t) /\ (s \o t)[Len(s) + Len(t)] = t[Len(t)]
    BY <1>1, <1>2
  <1>4. s \o t # <<>>
    BY <1>1, <1>2, <1>3
  <1> QED
    BY <1>1, <1>3, <1>4 DEF Inked

\* A part is put to what has been read of the part.
LEMMA PartGrows ==
    ASSUME NEW acc \in Parting, NEW s \in Seq(Within)
    PROVE  Grown(acc, s) \in Parting /\ Scanned(Parter, acc, s) = Grown(acc, s)
  <1> DEFINE Good == {v \in Seq(Within) : Scanned(Parter, acc, v) = Grown(acc, v)}
  <1>3. \A v \in Text : Grown(acc, v) \in Parting
    <2>1. ASSUME NEW v \in Text
          PROVE  acc.cur \o v \in Text
      BY TextIs DEF Parting
    <2> QED
      BY <2>1 DEF Parting, Grown
  <1>4. <<>> \in Good
    <2>1. Scanned(Parter, acc, <<>>) = acc
      BY PartingLoops, ScannedNone
    <2>2. Grown(acc, <<>>) = acc
      BY TextIs DEF Parting, Grown
    <2> QED
      BY <2>1, <2>2, SequencesAre
  <1>5. ASSUME NEW v \in Seq(Within), v \in Good, NEW c \in Within
        PROVE  Append(v, c) \in Good
    <2>1. v \in Seq(Char) /\ v \in Text /\ c \in Char
      BY PartIs DEF Within
    <2>2. Loop(Parting, Char, acc, Parter)
      BY PartingLoops
    <2>3. Scanned(Parter, acc, Append(v, c)) = Parter[<<Scanned(Parter, acc, v), c>>]
      BY <2>1, <2>2, ScannedMore
    <2>4. PICK g \in Parting : g = Grown(acc, v)
      BY <1>3, <2>1
    <2>5. Parter[<<g, c>>] = PartNext(g, c)
      BY <2>1, PartingLoops
    <2>6. PartNext(g, c) = [g EXCEPT !.cur = Append(@, c)]
      BY DEF PartNext, Within
    <2>7. [g EXCEPT !.cur = Append(@, c)] = Grown(acc, Append(v, c))
      <3>1. acc.cur \in Text
        BY DEF Parting
      <3>2. Append(acc.cur \o v, c) = acc.cur \o Append(v, c)
        BY <2>1, <3>1, TextIs
      <3> QED
        BY <2>4, <3>2 DEF Grown, Parting
    <2>8. Append(v, c) \in Seq(Within)
      BY SequencesAre
    <2> QED
      BY <1>5, <2>3, <2>4, <2>5, <2>6, <2>7, <2>8
  <1>6. GoesOn(Within, Good)
    BY <1>4, <1>5 DEF GoesOn
  <1>7. s \in Good
    <2> HIDE DEF Good
    <2> QED
      BY <1>6, ByAppending
  <1> QED
    BY <1>3, <1>7, PartIs

Parts(acc, ps) == acc \in Parting /\ Append(acc.words, acc.cur) = ps

\* A path is read back as it was written.
LEMMA PathReadBack ==
    ASSUME NEW ps \in Seq(PathPart), ps # <<>>
    PROVE  Joined(":", ps) \in Text /\ Inked(Joined(":", ps)) /\ SplitPath(Joined(":", ps)) = ps
  <1> DEFINE Split(s) == Scanned(Parter, Parted, s)
             colon == ":"
             Fine(u) == /\ Joined(colon, u) \in Text /\ Inked(Joined(colon, u))
                        /\ Parts(Split(Joined(colon, u)), u)
             Good == {u \in Seq(PathPart) : u = <<>> \/ Fine(u)}
  <1>0. Parted \in Parting
    BY TextIs, SequencesAre DEF Parted, Parting
  <1>1. Loop(Parting, Char, Parted, Parter)
    BY <1>0, PartingLoops
  <1>2. colon \in Char
    BY CharsAre
  <1>5. \A s, t \in Text : Split(s \o t) = Scanned(Parter, Split(s), t)
    BY <1>1, ScannedOn DEF Text
  <1>3. \A u \in Seq(PathPart) : u \in Seq(Text)
    BY PathPartIs, Widened
  <1> HIDE DEF colon
  <1>6. <<>> \in Good
    BY SequencesAre
  <1>7. ASSUME NEW u \in Seq(PathPart), u \in Good, NEW w \in PathPart
        PROVE  Append(u, w) \in Good
    <2> DEFINE v == Append(u, w)
               acc == Split(Joined(colon, v))
    <2>1. v \in Seq(PathPart) /\ w \in Text /\ w \in Seq(Within) /\ Inked(w) /\ u \in Seq(Text)
      BY <1>3, SequencesAre, PathPartIs DEF PathPart
    <2>2. CASE u = <<>>
      <3>1. Joined(colon, v) = w
        BY <1>2, <2>1, <2>2, JoinedIs
      <3>2. acc = Grown(Parted, w) /\ acc \in Parting
        <4>1. Grown(Parted, w) \in Parting
          BY <1>0, <2>1, PartGrows
        <4>2. Scanned(Parter, Parted, w) = Grown(Parted, w)
          BY <1>0, <2>1, PartGrows
        <4> QED
          BY <3>1, <4>1, <4>2
      <3>3. acc.words = <<>> /\ acc.cur = w
        BY <2>1, <3>2, TextIs DEF Grown, Parted
      <3> HIDE DEF acc
      <3>4. Parts(acc, v)
        BY <2>2, <3>2, <3>3 DEF Parts
      <3> QED
        BY <2>1, <3>1, <3>4 DEF acc
    <2>3. CASE u # <<>>
      <3> DEFINE text == Joined(colon, u)
                 before == Split(text)
                 between == [words |-> u, cur |-> <<>>]
      <3>1. text \in Text /\ Parts(before, u)
        BY <1>7, <2>3
      <3>2. Joined(colon, v) = (text \o <<colon>>) \o w
        BY <1>2, <2>1, <2>3, JoinedIs
      <3>3. between \in Parting
        BY <2>1, TextIs DEF Parting
      <3> HIDE DEF before, text, v, between
      <3>4. Scanned(Parter, before, <<colon>>) = between
        <4>1. before \in Parting
          BY <3>1 DEF Parts
        <4>2. Scanned(Parter, before, <<colon>>) = Parter[<<before, colon>>]
          BY <1>2, <4>1, PartingLoops, ScannedOne
        <4>3. Parter[<<before, colon>>] = PartNext(before, colon)
          BY <1>2, <4>1, PartingLoops
        <4>4. PartNext(before, colon) = between
          BY <3>1 DEF PartNext, Parts, between, colon
        <4> QED
          BY <4>2, <4>3, <4>4
      <3>5. Split(text \o <<colon>>) = between
        BY <1>2, <1>5, <3>1, <3>4, TextIs DEF before
      <3>6. Split(Joined(colon, v)) = Scanned(Parter, between, w)
        <4>1. text \o <<colon>> \in Text
          BY <1>2, <3>1, TextIs
        <4> QED
          BY <1>5, <2>1, <3>2, <3>5, <4>1
      <3>7. acc = Grown(between, w) /\ acc \in Parting
        <4>1. Grown(between, w) \in Parting
          BY <2>1, <3>3, PartGrows
        <4>2. Scanned(Parter, between, w) = Grown(between, w)
          BY <2>1, <3>3, PartGrows
        <4> QED
          BY <3>6, <4>1, <4>2
      <3>8. acc.words = u /\ acc.cur = w
        BY <2>1, <3>7, TextIs DEF Grown, between
      <3> HIDE DEF acc
      <3>9. Parts(acc, v)
        BY <3>7, <3>8 DEF Parts, v
      <3>10. Joined(colon, v) \in Text /\ Inked(Joined(colon, v))
        <4>1. text \o <<colon>> \in Text
          BY <1>2, <3>1, TextIs
        <4> QED
          BY <2>1, <3>2, <4>1, TextIs, InkedOn
      <3> QED
        BY <2>1, <3>9, <3>10 DEF acc, v
    <2> QED
      BY <2>2, <2>3
  <1>8. GoesOn(PathPart, Good)
    BY <1>6, <1>7 DEF GoesOn
  <1>9. ps \in Good
    <2> HIDE DEF Good
    <2> QED
      BY <1>8, ByAppending
  <1>10. Joined(":", ps) \in Text /\ Inked(Joined(":", ps)) /\ Parts(Scanned(Parter, Parted, Joined(":", ps)), ps)
    BY <1>9 DEF colon
  <1> QED
    BY <1>10 DEF SplitPath, Parts, Parter, Parted

-----------------------------------------------------------------------------
(* The environment and the units of After= *)

ToLine == [v \in Variable |-> VariableLine(v)]
Reader == [p \in Environment \X Line |-> ReadLine(p[1], p[2])]

\* Variables that are read back: any name but PATH, and values that need no quoting.
Legible == {v \in Variable : v.key # "PATH" /\ QuoteWord(v.value) = v.value}

LEMMA LinesAre ==
    /\ Maps(ToLine, Variable, Line)
    /\ \A v \in Variable : ToLine[v] = VariableLine(v) /\ VariableLine(v) \in Line
    /\ \A env \in Seq(Variable) : [n \in DOMAIN env |-> VariableLine(env[n])] = Mapped(ToLine, env)
  <1>1. ASSUME NEW v \in Variable
        PROVE  VariableLine(v) \in Line
    <2>1. v.value \in Text /\ v.key \in Name
      BY DEF Variable
    <2>2. QuoteWord(v.value) \in Text
      BY <2>1, QuoteWordIs
    <2> QED
      BY <2>1, <2>2 DEF VariableLine, Line
  <1>2. Maps(ToLine, Variable, Line)
    BY <1>1 DEF Maps, ToLine
  <1>3. \A v \in Variable : ToLine[v] = VariableLine(v)
    BY DEF ToLine
  <1>4. ASSUME NEW env \in Seq(Variable)
        PROVE  [n \in DOMAIN env |-> VariableLine(env[n])] = Mapped(ToLine, env)
    <2>1. \A n \in DOMAIN env : env[n] \in Variable
      OBVIOUS
    <2> QED
      BY <1>3, <2>1 DEF Mapped
  <1> QED
    BY <1>1, <1>2, <1>3, <1>4

LEMMA SplitPathTyped ==
    ASSUME NEW text \in Text
    PROVE  SplitPath(text) \in Seq(Text)
  <1> DEFINE parts == Scanned(Parter, Parted, text)
  <1>1. Parted \in Parting
    BY TextIs, SequencesAre DEF Parted, Parting
  <1>2. text \in Seq(Char)
    BY DEF Text
  <1>3. parts \in Parting
    BY <1>1, <1>2, PartingLoops, ScannedTyped
  <1>4. SplitPath(text) = Append(parts.words, parts.cur)
    BY DEF SplitPath, Parter, Parted
  <1> HIDE DEF parts
  <1>5. parts.words \in Seq(Text) /\ parts.cur \in Text
    BY <1>3 DEF Parting
  <1> QED
    BY <1>4, <1>5, SequencesAre

LEMMA ReadingLoops ==
    ASSUME NEW acc \in Environment
    PROVE  /\ Loop(Environment, Line, acc, Reader)
           /\ \A line \in Line : Reader[<<acc, line>>] = ReadLine(acc, line)
  <1>1. ASSUME NEW a \in Environment, NEW line \in Line
        PROVE  ReadLine(a, line) \in Environment
    <2>1. a.path \in Seq(Text) /\ a.env \in Seq(Variable) /\ line.key \in Name /\ line.text \in Text
      BY DEF Environment, Line
    <2>2. SplitPath(Trimmed(line.text)) \in Seq(Text)
      BY <2>1, TrimmedIs, SplitPathTyped
    <2>3. [key |-> line.key, value |-> line.text] \in Variable
      BY <2>1 DEF Variable
    <2>4. Append(a.env, [key |-> line.key, value |-> line.text]) \in Seq(Variable)
      BY <2>1, <2>3, SequencesAre
    <2> QED
      BY <2>1, <2>2, <2>4 DEF ReadLine, Environment
  <1>2. Reader \in [Environment \X Line -> Environment]
    BY <1>1 DEF Reader
  <1>3. \A line \in Line : Reader[<<acc, line>>] = ReadLine(acc, line)
    BY DEF Reader
  <1> QED
    BY <1>2, <1>3 DEF Loop

LEMMA VariablesReadBack ==
    ASSUME NEW acc \in Environment, acc.env = <<>>, NEW env \in Seq(Legible)
    PROVE  Scanned(Reader, acc, Mapped(ToLine, env)) = [acc EXCEPT !.env = env]
  <1> DEFINE L == Line
             Good == {u \in Seq(Legible) : Scanned(Reader, acc, Mapped(ToLine, u)) = [acc EXCEPT !.env = u]}
  <1>1. Legible \subseteq Variable
    BY DEF Legible
  <1>2. \A u \in Seq(Legible) : u \in Seq(Variable)
    BY <1>1, Widened
  <1>3. Loop(Environment, L, acc, Reader)
    BY ReadingLoops
  <1>4. Maps(ToLine, Variable, L)
    BY LinesAre
  <1>0. L = Line
    OBVIOUS
  <1> HIDE DEF L
  <1>5. <<>> \in Good
    <2>1. Scanned(Reader, acc, <<>>) = acc
      BY <1>3, ScannedNone
    <2>2. Mapped(ToLine, <<>>) = <<>>
      BY <1>4, MappedIs
    <2>3. [acc EXCEPT !.env = <<>>] = acc
      BY DEF Environment
    <2> QED
      BY <2>1, <2>2, <2>3, SequencesAre
  <1>6. ASSUME NEW u \in Seq(Legible), u \in Good, NEW v \in Legible
        PROVE  Append(u, v) \in Good
    <2> DEFINE lines == Mapped(ToLine, u)
               line == ToLine[v]
               g == [acc EXCEPT !.env = u]
    <2>1. u \in Seq(Variable) /\ v \in Variable /\ Append(u, v) \in Seq(Legible)
      BY <1>1, <1>2, SequencesAre
    <2>2. lines \in Seq(L) /\ Mapped(ToLine, Append(u, v)) = Append(lines, line)
      BY <1>4, <2>1, MappedIs
    <2>3. line \in L /\ line.key = v.key /\ line.text = v.value
      <3>1. line = VariableLine(v) /\ VariableLine(v) \in Line
        BY <2>1, LinesAre
      <3>2. VariableLine(v).key = v.key /\ VariableLine(v).text = QuoteWord(v.value)
        BY DEF VariableLine
      <3>3. QuoteWord(v.value) = v.value
        BY DEF Legible
      <3> QED
        BY <1>0, <3>1, <3>2, <3>3
    <2>4. g \in Environment
      BY <2>1 DEF Environment
    <2> HIDE DEF lines, line, g
    <2>5. Scanned(Reader, acc, Append(lines, line)) = Reader[<<Scanned(Reader, acc, lines), line>>]
      BY <1>3, <2>2, <2>3, ScannedMore
    <2>6. Scanned(Reader, acc, lines) = g
      BY <1>6 DEF lines, g
    <2>7. Reader[<<g, line>>] = ReadLine(g, line)
      BY <1>0, <2>3, <2>4, ReadingLoops
    <2>8. ReadLine(g, line) = [g EXCEPT !.env = Append(@, v)]
      <3>1. [key |-> line.key, value |-> line.text] = v
        BY <2>1, <2>3 DEF Variable
      <3>2. line.key # "PATH"
        BY <2>3 DEF Legible
      <3> QED
        BY <3>1, <3>2 DEF ReadLine
    <2>9. [g EXCEPT !.env = Append(@, v)] = [acc EXCEPT !.env = Append(u, v)]
      BY DEF g, Environment
    <2> QED
      BY <2>1, <2>2, <2>5, <2>6, <2>7, <2>8, <2>9
  <1>7. GoesOn(Legible, Good)
    BY <1>5, <1>6 DEF GoesOn
  <1>8. env \in Good
    <2> HIDE DEF Good
    <2> QED
      BY <1>7, ByAppending
  <1> QED
    BY <1>8

Lines(path, env) == PathLines(path) \o [n \in DOMAIN env |-> VariableLine(env[n])]

LEMMA LinesTyped ==
    ASSUME NEW path \in Seq(Text), NEW env \in Seq(Variable)
    PROVE  Lines(path, env) \in Seq(Line)
  <1>1. [n \in DOMAIN env |-> VariableLine(env[n])] \in Seq(Line)
    <2>1. Mapped(ToLine, env) \in Seq(Line)
      <3> DEFINE V == Variable
                 L == Line
      <3>1. Maps(ToLine, V, L) /\ env \in Seq(V)
        BY LinesAre
      <3> HIDE DEF V, L
      <3>2. Mapped(ToLine, env) \in Seq(L)
        BY <3>1, MappedIs
      <3> QED
        BY <3>2 DEF L
    <2> QED
      BY <2>1, LinesAre
  <1>2. PathLines(path) \in Seq(Line)
    <2>1. CASE path = <<>>
      BY <2>1, SequencesAre DEF PathLines
    <2>2. CASE path # <<>>
      <3>1. Joined(":", path) \in Text
        BY <2>2, CharsAre, JoinedIs
      <3>2. [key |-> "PATH", text |-> Joined(":", path)] \in Line
        BY <3>1, AuthoringAssumption DEF Line
      <3> QED
        BY <2>2, <3>2, SequencesAre DEF PathLines
    <2> QED
      BY <2>1, <2>2
  <1> QED
    BY <1>1, <1>2, SequencesAre DEF Lines

LEMMA EnvironmentTyped ==
    ASSUME NEW lines \in Seq(Line)
    PROVE  ReadEnvironment(lines) \in Environment
  <1> DEFINE none == [path |-> <<>>, env |-> <<>>]
  <1>1. none \in Environment
    BY SequencesAre DEF Environment
  <1>2. ReadEnvironment(lines) = Scanned(Reader, none, lines)
    BY DEF ReadEnvironment, Reader
  <1> HIDE DEF none
  <1>3. Loop(Environment, Line, none, Reader)
    BY <1>1, ReadingLoops
  <1> DEFINE E == Environment
             L == Line
  <1>4. Loop(E, L, none, Reader) /\ lines \in Seq(L)
    BY <1>3
  <1> HIDE DEF E, L
  <1>5. Scanned(Reader, none, lines) \in E
    BY <1>4, ScannedTyped
  <1> QED
    BY <1>2, <1>5 DEF E

\* The path and the variables are read back as they were written.
LEMMA EnvironmentReadBack ==
    ASSUME NEW path \in Seq(PathPart), NEW env \in Seq(Legible)
    PROVE  ReadEnvironment(Lines(path, env)) = [path |-> path, env |-> env]
  <1> DEFINE none == [path |-> <<>>, env |-> <<>>]
             after == [path |-> path, env |-> <<>>]
             rest == Mapped(ToLine, env)
             Read(s) == Scanned(Reader, none, s)
  <1>0. path \in Seq(Text) /\ env \in Seq(Variable)
    <2>1. PathPart \subseteq Text /\ Legible \subseteq Variable
      BY PathPartIs DEF Legible
    <2> QED
      BY <2>1, Widened
  <1>1. none \in Environment /\ after \in Environment /\ none.env = <<>> /\ after.env = <<>>
    BY <1>0, SequencesAre DEF Environment
  <1>2. \A lines : ReadEnvironment(lines) = Read(lines)
    BY DEF ReadEnvironment, Reader
  <1>3. Lines(path, env) = PathLines(path) \o rest
    BY <1>0, LinesAre DEF Lines
  <1>4. rest \in Seq(Line)
    <2> DEFINE V == Variable
               L == Line
    <2>1. Maps(ToLine, V, L) /\ env \in Seq(V)
      BY <1>0, LinesAre
    <2> HIDE DEF V, L
    <2>2. Mapped(ToLine, env) \in Seq(L)
      BY <2>1, MappedIs
    <2> QED
      BY <2>2 DEF L
  <1>5. [after EXCEPT !.env = env] = [path |-> path, env |-> env]
    OBVIOUS
  <1>6. Scanned(Reader, after, rest) = [after EXCEPT !.env = env]
    <2> HIDE DEF after
    <2> QED
      BY <1>1, VariablesReadBack
  <1>7. CASE path = <<>>
    <2>1. none = after
      BY <1>7
    <2>2. PathLines(path) \o rest = rest
      BY <1>4, <1>7, SequencesAre DEF PathLines
    <2> HIDE DEF none, after, rest
    <2> QED
      BY <1>2, <1>3, <1>5, <1>6, <2>1, <2>2
  <1>8. CASE path # <<>>
    <2> DEFINE line == [key |-> "PATH", text |-> Joined(":", path)]
    <2>1. Joined(":", path) \in Text /\ SplitPath(Trimmed(Joined(":", path))) = path
      BY <1>8, PathReadBack, TrimmedIs
    <2>2. line \in Line
      BY <2>1, AuthoringAssumption DEF Line
    <2>3. ReadLine(none, line) = after
      BY <2>1 DEF ReadLine
    <2>4. PathLines(path) = <<line>>
      BY <1>8 DEF PathLines
    <2> HIDE DEF none, after, rest, line
    <2>5. Read(<<line>>) = Reader[<<none, line>>]
      <3>1. Loop(Environment, Line, none, Reader)
        BY <1>1, ReadingLoops
      <3> QED
        BY <2>2, <3>1, ScannedOne
    <2>6. Reader[<<none, line>>] = after
      BY <1>1, <2>2, <2>3, ReadingLoops
    <2>7. Read(<<line>> \o rest) = Scanned(Reader, Read(<<line>>), rest)
      <3> DEFINE m == <<line>>
      <3>1. m \in Seq(Line)
        BY <2>2, SequencesAre
      <3>2. Loop(Environment, Line, none, Reader)
        BY <1>1, ReadingLoops
      <3> HIDE DEF m
      <3>3. Read(m \o rest) = Scanned(Reader, Read(m), rest)
        BY <1>4, <3>1, <3>2, ScannedOn
      <3> QED
        BY <3>3 DEF m
    <2> QED
      BY <1>2, <1>3, <1>5, <1>6, <2>4, <2>5, <2>6, <2>7
  <1> QED
    BY <1>7, <1>8

\* Units in an order, each once, and not the network's.
Listed == {u \in Seq(Name) : /\ \A i, j \in 1..Len(u) : u[i] = u[j] => i = j
                             /\ \A i \in 1..Len(u) : u[i] # Network}

AfterReader(left) == [p \in Seq(Name) \X Name |-> Noted(left, p[1], p[2])]

LEMMA AfterLoops ==
    ASSUME NEW left, NEW u \in Seq(Name)
    PROVE  /\ Loop(Seq(Name), Name, u, AfterReader(left))
           /\ \A e \in Name : AfterReader(left)[<<u, e>>] = Noted(left, u, e)
  <1> DEFINE S == Seq(Name)
  <1>1. ASSUME NEW v \in S, NEW e \in Name
        PROVE  Noted(left, v, e) \in S
    BY SequencesAre DEF Noted
  <1>2. u \in S /\ AfterReader(left) = [p \in S \X Name |-> Noted(left, p[1], p[2])]
    BY DEF AfterReader
  <1> HIDE DEF S
  <1>3. AfterReader(left) \in [S \X Name -> S]
    BY <1>1, <1>2
  <1>4. \A e \in Name : AfterReader(left)[<<u, e>>] = Noted(left, u, e)
    BY <1>2
  <1>5. Loop(S, Name, u, AfterReader(left))
    BY <1>2, <1>3 DEF Loop
  <1> QED
    BY <1>4, <1>5 DEF S

LEMMA ReadAfterIs ==
    ASSUME NEW left
    PROVE  /\ ReadAfter(<<>>, left) = <<>>
           /\ \A u \in Seq(Name) :
                 /\ ReadAfter(u, left) \in Seq(Name)
                 /\ \A e \in Name : ReadAfter(Append(u, e), left) = Noted(left, ReadAfter(u, left), e)
  <1> DEFINE S == Seq(Name)
             r == AfterReader(left)
             none == <<>>
  <1>1. \A u : ReadAfter(u, left) = Scanned(r, none, u)
    BY DEF ReadAfter, AfterReader
  <1>2. none \in S /\ S = Seq(Name)
    BY SequencesAre
  <1> HIDE DEF none, r, S
  <1>3. Loop(S, Name, none, r)
    BY <1>2, AfterLoops DEF r
  <1>4. Scanned(r, none, <<>>) = none
    BY <1>3, ScannedNone
  <1>5. ASSUME NEW u \in Seq(Name)
        PROVE  Scanned(r, none, u) \in S
    BY <1>3, ScannedTyped
  <1>6. ASSUME NEW u \in Seq(Name), NEW e \in Name
        PROVE  Scanned(r, none, Append(u, e)) = r[<<Scanned(r, none, u), e>>]
    BY <1>3, ScannedMore
  <1>7. \A u \in S, e \in Name : r[<<u, e>>] = Noted(left, u, e)
    BY <1>2, AfterLoops DEF r
  <1>8. ReadAfter(<<>>, left) = <<>>
    BY <1>1, <1>4 DEF none
  <1>9. ASSUME NEW u \in Seq(Name)
        PROVE  ReadAfter(u, left) \in Seq(Name)
    BY <1>1, <1>2, <1>5
  <1>10. ASSUME NEW u \in Seq(Name), NEW e \in Name
         PROVE  ReadAfter(Append(u, e), left) = Noted(left, ReadAfter(u, left), e)
    <2>1. ReadAfter(u, left) = Scanned(r, none, u) /\ Scanned(r, none, u) \in S
      BY <1>1, <1>5
    <2>2. ReadAfter(Append(u, e), left) = Scanned(r, none, Append(u, e))
      BY <1>1
    <2> QED
      BY <1>6, <1>7, <2>1, <2>2
  <1> QED
    BY <1>8, <1>9, <1>10

LEMMA ListedPrefix ==
    ASSUME NEW u \in Seq(Name), NEW e \in Name, Append(u, e) \in Listed
    PROVE  u \in Listed /\ e \notin ToSet(u) /\ e # Network
  <1> DEFINE v == Append(u, e)
             N == Len(u)
  <1>1. N \in Nat /\ Len(v) = N + 1 /\ v[N + 1] = e /\ \A i \in 1..N : v[i] = u[i]
    OBVIOUS
  <1>2. /\ \A i, j \in 1..Len(v) : v[i] = v[j] => i = j
        /\ \A i \in 1..Len(v) : v[i] # Network
    BY DEF Listed
  <1>3. DOMAIN u = 1..N
    OBVIOUS
  <1> HIDE DEF v
  <1>4. \A i \in 1..N : u[i] # e
    <2> SUFFICES ASSUME NEW i \in 1..N, u[i] = e
                 PROVE  FALSE
      OBVIOUS
    <2>1. i \in 1..Len(v) /\ N + 1 \in 1..Len(v) /\ i # N + 1
      BY <1>1
    <2> QED
      BY <1>1, <1>2, <2>1
  <1>5. e # Network
    <2>1. N + 1 \in 1..Len(v)
      BY <1>1
    <2> QED
      BY <1>1, <1>2, <2>1
  <1>6. \A i, j \in 1..N : u[i] = u[j] => i = j
    <2>1. 1..N \subseteq 1..Len(v)
      BY <1>1
    <2> QED
      BY <1>1, <1>2, <2>1
  <1>7. \A i \in 1..N : u[i] # Network
    <2>1. 1..N \subseteq 1..Len(v)
      BY <1>1
    <2> QED
      BY <1>1, <1>2, <2>1
  <1> QED
    BY <1>3, <1>4, <1>5, <1>6, <1>7 DEF Listed, ToSet

\* The units of After= are read back, those of the network left out.
LEMMA AfterReadBack ==
    ASSUME NEW u \in Listed, NEW left, left \subseteq {Network}
    PROVE  ReadAfter(u, left) = u
  <1> DEFINE Good == {v \in Seq(Name) : v \in Listed => ReadAfter(v, left) = v}
  <1>1. <<>> \in Good
    BY ReadAfterIs, SequencesAre
  <1>2. ASSUME NEW v \in Seq(Name), v \in Good, NEW e \in Name
        PROVE  Append(v, e) \in Good
    <2> SUFFICES ASSUME Append(v, e) \in Listed
                 PROVE  ReadAfter(Append(v, e), left) = Append(v, e)
      BY SequencesAre
    <2>1. v \in Listed /\ e \notin ToSet(v) /\ e # Network
      BY ListedPrefix
    <2>2. ReadAfter(v, left) = v
      BY <1>2, <2>1
    <2>3. ReadAfter(Append(v, e), left) = Noted(left, v, e)
      BY <2>2, ReadAfterIs
    <2> QED
      BY <2>1, <2>3 DEF Noted
  <1>3. GoesOn(Name, Good)
    BY <1>1, <1>2 DEF GoesOn
  <1>4. u \in Good
    <2>1. u \in Seq(Name)
      BY DEF Listed
    <2> HIDE DEF Good
    <2> QED
      BY <1>3, <2>1, ByAppending
  <1> QED
    BY <1>4

LEMMA NetworkReadBack ==
    ASSUME NEW u \in Listed
    PROVE  /\ Network \notin ToSet(u)
           /\ ReadAfter(Append(u, Network), {Network}) = u
  <1>1. u \in Seq(Name) /\ Network \in Name
    BY AuthoringAssumption DEF Listed
  <1>2. Network \notin ToSet(u)
    <2>1. DOMAIN u = 1..Len(u)
      BY <1>1
    <2> QED
      BY <2>1 DEF Listed, ToSet
  <1> DEFINE left == {Network}
  <1>3. Network \in left /\ left \subseteq {Network}
    OBVIOUS
  <1> HIDE DEF left
  <1>4. ReadAfter(u, left) = u
    BY <1>3, AfterReadBack
  <1>5. ReadAfter(Append(u, Network), left) = u
    <2>1. ReadAfter(Append(u, Network), left) = Noted(left, u, Network)
      BY <1>1, <1>4, ReadAfterIs
    <2> QED
      BY <1>3, <2>1 DEF Noted
  <1> QED
    BY <1>2, <1>5 DEF left

-----------------------------------------------------------------------------
(* Types *)

LEMMA ChangedTyped ==
    ASSUME NEW spec \in Sent, NEW edit \in Edits
    PROVE  Amended(spec, edit) \in Sent
  <1>1. \A f \in DOMAIN edit : f \in DOMAIN Field /\ edit[f] \in Field[f]
    BY SpecsAssumption
  <1>2. DOMAIN spec = DOMAIN Field /\ \A f \in DOMAIN Field : spec[f] \in Field[f]
    BY DEF Sent, Field
  <1> DEFINE new == Amended(spec, edit)
  <1>3. new = [f \in DOMAIN Field |-> new[f]] /\ \A f \in DOMAIN Field : new[f] \in Field[f]
    BY <1>1, <1>2 DEF Amended
  <1> HIDE DEF new
  <1>4. new \in Sent
    BY <1>3 DEF Sent, Field
  <1> QED
    BY <1>4 DEF new

LEMMA ParsedTyped ==
    ASSUME NEW sent \in Sent, Parsed(sent) # None
    PROVE  /\ Parsed(sent) \in Sent /\ Accepted(sent)
           /\ Parsed(sent).enabled \in BOOLEAN
           /\ \A f \in {"kind", "title", "exec", "env", "path", "after", "network", "schedule"} :
                 Parsed(sent)[f] = sent[f]
  BY SpecsAssumption, AuthoringAssumption DEF Parsed, Sent, Maybe

LEMMA QuotedText ==
    ASSUME NEW ws \in Seq(Text), ws # <<>>
    PROVE  ExecLine(ws) \in Text
  <1> DEFINE F == [w \in Text |-> QuoteWord(w)]
             T == Text
  <1>1. Maps(F, T, T)
    BY QuoteWordIs DEF Maps
  <1>2. [n \in DOMAIN ws |-> QuoteWord(ws[n])] = Mapped(F, ws)
    <2>1. \A n \in DOMAIN ws : ws[n] \in Text
      OBVIOUS
    <2> QED
      BY <2>1 DEF Mapped
  <1> HIDE DEF F
  <1>3. Mapped(F, ws) \in Seq(T) /\ Mapped(F, ws) # <<>>
    <2>1. ws \in Seq(T)
      OBVIOUS
    <2> HIDE DEF T
    <2> QED
      BY <1>1, <2>1, MappedIs
  <1>4. Joined(" ", Mapped(F, ws)) \in Text
    BY <1>3, CharsAre, JoinedIs
  <1> QED
    BY <1>2, <1>4 DEF ExecLine

LEMMA ServiceTyped ==
    ASSUME NEW spec \in Sent, spec.exec # <<>>
    PROVE  RenderService(spec) \in Service
  <1> DEFINE after == IF spec.network /\ Network \notin ToSet(spec.after) THEN Append(spec.after, Network) ELSE spec.after
             lines == Lines(spec.path, spec.env)
             exec == ExecLine(spec.exec)
             type == IF spec.kind = "simple" THEN "simple" ELSE "oneshot"
             linger == spec.kind = "oneshot-linger"
             install == ~Timed(spec) /\ HasInstall(spec)
  <1>1. after \in Seq(Name)
    <2>1. spec.after \in Seq(Name) /\ Network \in Name
      BY AuthoringAssumption DEF Sent
    <2> QED
      BY <2>1, SequencesAre
  <1>2. lines \in Seq(Line)
    BY LinesTyped DEF Sent
  <1>3. exec \in Text
    BY QuotedText DEF Sent
  <1>4. type \in {"simple", "oneshot"} /\ linger \in BOOLEAN /\ install \in BOOLEAN
    BY DEF HasInstall, Timed
  <1>5. RenderService(spec) =
            [title |-> spec.title, description |-> spec.description, type |-> type, linger |-> linger,
             exec |-> exec, environment |-> lines, after |-> after, wants |-> spec.network,
             restart |-> spec.restart, install |-> install]
    BY Zenon DEF RenderService, Lines
  <1>6. spec.title \in Maybe /\ spec.description \in Maybe /\ spec.restart \in Maybe /\ spec.network \in BOOLEAN
    BY DEF Sent
  <1> HIDE DEF after, lines, exec, type, linger, install
  <1> QED
    BY <1>1, <1>2, <1>3, <1>4, <1>5, <1>6 DEF Service

LEMMA TimerTyped ==
    ASSUME NEW spec \in Sent
    PROVE  /\ RenderTimer(spec) \in Timer \cup {None}
           /\ Timed(spec) => RenderTimer(spec) \in Timer
           /\ ~Timed(spec) => RenderTimer(spec) = None
  <1>1. ASSUME Timed(spec)
        PROVE  RenderTimer(spec) \in Timer
    <2> DEFINE s == spec.schedule
    <2>1. s \in Schedule
      BY <1>1 DEF Timed, Sent
    <2>2. /\ RenderTimer(spec) = [calendar |-> IF s.type = "calendar" THEN s.calendar ELSE None,
                                  boot |-> IF s.type = "interval" THEN s.boot ELSE None,
                                  active |-> IF s.type = "interval" THEN s.active ELSE None,
                                  inactive |-> IF s.type = "interval" THEN s.inactive ELSE None,
                                  persistent |-> s.persistent]
      BY <1>1 DEF RenderTimer
    <2> HIDE DEF s
    <2> QED
      BY <2>1, <2>2 DEF Schedule, Timer, Maybe
  <1>2. ~Timed(spec) => RenderTimer(spec) = None
    BY DEF RenderTimer
  <1> QED
    BY <1>1, <1>2

LEMMA ScheduleTyped ==
    ASSUME NEW tim \in Timer \cup {None}
    PROVE  ScheduleView(tim) \in Schedule \cup {None}
  <1>1. ASSUME tim # None, tim.calendar # None
        PROVE  ScheduleView(tim) \in Schedule
    BY <1>1 DEF ScheduleView, Timer, Schedule, Maybe
  <1>2. ASSUME tim # None, tim.calendar = None
        PROVE  ScheduleView(tim) \in Schedule
    BY <1>2 DEF ScheduleView, Timer, Schedule, Maybe
  <1>3. ASSUME tim = None
        PROVE  ScheduleView(tim) = None
    BY <1>3 DEF ScheduleView
  <1> QED
    BY <1>1, <1>2, <1>3

LEMMA UnescapedTyped ==
    ASSUME NEW w \in Text
    PROVE  Unescaped(w) \in Text
  <1> DEFINE u == Unheld(<<>>)
  <1>1. u \in Holding
    BY TextIs DEF Unheld, Holding
  <1>2. w \in Seq(Char)
    BY DEF Text
  <1>3. Unescaped(w) = Released(Scanned(Unescaping, u, w))
    BY DEF Unescaped, Unescaping, Unheld
  <1> HIDE DEF u
  <1>4. Scanned(Unescaping, u, w) \in Holding
    BY <1>1, <1>2, UnescapingLoops, ScannedTyped
  <1>5. \A a \in Holding : Released(a) \in Text
    BY TextIs DEF Holding, Released
  <1> QED
    BY <1>3, <1>4, <1>5

LEMMA ExecTyped ==
    ASSUME NEW line \in Text
    PROVE  SplitExec(line) \in Seq(Text)
  <1> DEFINE acc == Scanned(Splitter, Start, line)
             words == Ended(acc)
  <1>1. Start \in Splitting
    BY TextIs, SequencesAre DEF Start, Splitting
  <1>2. line \in Seq(Char)
    BY DEF Text
  <1>3. acc \in Splitting
    BY <1>1, <1>2, SplittingLoops, ScannedTyped
  <1>4. SplitExec(line) = [n \in DOMAIN words |-> Unescaped(words[n])]
    BY DEF SplitExec, Splitter, Start
  <1> HIDE DEF acc
  <1>5. words \in Seq(Text)
    <2>1. acc.words \in Seq(Text) /\ acc.cur \in Text
      BY <1>3 DEF Splitting
    <2> QED
      BY <2>1, SequencesAre DEF Ended
  <1> HIDE DEF words
  <1>6. \A n \in DOMAIN words : Unescaped(words[n]) \in Text
    <2>1. \A n \in DOMAIN words : words[n] \in Text
      BY <1>5
    <2> QED
      BY <2>1, UnescapedTyped
  <1>7. DOMAIN words = 1..Len(words) /\ Len(words) \in Nat
    BY <1>5
  <1> QED
    BY <1>4, <1>6, <1>7

LEMMA EditableTyped ==
    ASSUME service \in Service, timer \in Timer \cup {None}
    PROVE  Editable \in Sent
  <1>1. Inferred(service, timer) \in Kind
    BY DEF Inferred, Kind
  <1>2. /\ service.title \in Maybe /\ service.description \in Maybe /\ service.restart \in Maybe
        /\ service.wants \in BOOLEAN /\ service.exec \in Text /\ service.environment \in Seq(Line)
        /\ service.after \in Seq(Name)
    BY DEF Service
  <1>3. SplitExec(service.exec) \in Seq(Text)
    BY <1>2, ExecTyped
  <1>4. ReadEnvironment(service.environment).path \in Seq(Text) /\ ReadEnvironment(service.environment).env \in Seq(Variable)
    BY <1>2, EnvironmentTyped DEF Environment
  <1>5. ReadAfter(service.after, IF service.wants THEN {Network} ELSE {}) \in Seq(Name)
    BY <1>2, ReadAfterIs
  <1>6. ScheduleView(timer) \in Schedule \cup {None}
    BY ScheduleTyped
  <1>7. IsEnabled \in BOOLEAN
    BY DEF IsEnabled
  <1> QED
    BY <1>1, <1>2, <1>3, <1>4, <1>5, <1>6, <1>7 DEF Editable, Sent

LEMMA RendersTyped ==
    ASSUME NEW sent \in Sent, Parsed(sent) # None
    PROVE  /\ Parsed(sent) \in Sent
           /\ RenderService(Parsed(sent)) \in Service
           /\ RenderTimer(Parsed(sent)) \in Timer \cup {None}
           /\ Timed(Parsed(sent)) => RenderTimer(Parsed(sent)) \in Timer
           /\ Switch(Parsed(sent)) \subseteq {"service"} \cup (IF Timed(Parsed(sent)) THEN {"timer"} ELSE {})
  <1> DEFINE spec == Parsed(sent)
  <1>1. spec \in Sent /\ spec.exec = sent.exec /\ sent.exec # <<>>
    BY ParsedTyped DEF Accepted
  <1>2. Switch(spec) \subseteq {"service"} \cup (IF Timed(spec) THEN {"timer"} ELSE {})
    BY DEF Switch
  <1> HIDE DEF spec
  <1>3. RenderService(spec) \in Service
    BY <1>1, ServiceTyped
  <1>4. RenderTimer(spec) \in Timer \cup {None} /\ (Timed(spec) => RenderTimer(spec) \in Timer)
    BY <1>1, TimerTyped
  <1> QED
    BY <1>1, <1>2, <1>3, <1>4 DEF spec

LEMMA TypesStart ==
    AuthoringInit => AuthoringTypeOK
  <1> SUFFICES ASSUME AuthoringInit
               PROVE  AuthoringTypeOK
    OBVIOUS
  <1>2. draft \in [Agent -> Sent \cup {None}]
    BY DEF AuthoringInit
  <1>3. MaxEdits \in Nat
    BY AuthoringAssumption
  <1>4. service = None /\ timer = None /\ linked = {} /\ edits = 0
    BY DEF AuthoringInit
  <1> QED
    BY <1>2, <1>3, <1>4 DEF AuthoringTypeOK

LEMMA TypesStay ==
    AuthoringTypeOK /\ [AuthoringNext]_authoringVars => AuthoringTypeOK'
  <1> SUFFICES ASSUME AuthoringTypeOK, [AuthoringNext]_authoringVars
               PROVE  AuthoringTypeOK'
    OBVIOUS
  <1>0. /\ None \notin Sent /\ None \notin Service /\ None \notin Timer /\ MaxEdits \in Nat
    BY SpecsAssumption, AuthoringAssumption
  <1>1. /\ service \in Service \cup {None} /\ timer \in Timer \cup {None}
        /\ linked \subseteq (IF service # None THEN {"service"} ELSE {})
                             \cup (IF timer # None THEN {"timer"} ELSE {})
        /\ draft \in [Agent -> Sent \cup {None}]
        /\ edits \in 0..MaxEdits
    BY DEF AuthoringTypeOK
  <1>2. ASSUME NEW spec \in Specs, Create(spec)
        PROVE  AuthoringTypeOK'
    <2> DEFINE new == Parsed(spec)
    <2>1. /\ new # None /\ service = None /\ service' = RenderService(new)
          /\ timer' = IF Timed(spec) THEN RenderTimer(new) ELSE timer
          /\ linked' = IF new.enabled THEN linked \cup Switch(spec) ELSE linked
          /\ UNCHANGED <<draft, edits>>
      BY <1>2 DEF Create
    <2>2. spec \in Sent
      BY SpecsAssumption
    <2>3. new \in Sent /\ RenderService(new) \in Service /\ RenderTimer(new) \in Timer \cup {None}
      BY <2>1, <2>2, RendersTyped
    <2>4. /\ Timed(spec) <=> Timed(new)
          /\ Timed(new) => RenderTimer(new) \in Timer
          /\ Switch(spec) \subseteq {"service"} \cup (IF Timed(spec) THEN {"timer"} ELSE {})
      <3>1. new.schedule = spec.schedule
        BY <2>1, <2>2, ParsedTyped
      <3>2. Timed(spec) <=> Timed(new)
        BY <3>1 DEF Timed
      <3>3. Switch(spec) \subseteq {"service"} \cup (IF Timed(spec) THEN {"timer"} ELSE {})
        BY DEF Switch
      <3>4. Timed(new) => RenderTimer(new) \in Timer
        BY <2>1, <2>2, RendersTyped
      <3> QED
        BY <3>2, <3>3, <3>4
    <2> HIDE DEF new
    <2>5. service' \in Service /\ timer' \in Timer \cup {None}
      BY <1>1, <2>1, <2>3, <2>4
    <2>6. Timed(spec) => timer' \in Timer
      BY <2>1, <2>4
    <2>7. ~Timed(spec) => timer' = timer
      BY <2>1
    <2>8. linked' \subseteq (IF service' # None THEN {"service"} ELSE {}) \cup (IF timer' # None THEN {"timer"} ELSE {})
      BY <1>0, <1>1, <2>1, <2>4, <2>5, <2>6, <2>7
    <2> QED
      BY <1>0, <1>1, <2>1, <2>5, <2>8 DEF AuthoringTypeOK
  <1>3. ASSUME NEW a \in Agent, Get(a)
        PROVE  AuthoringTypeOK'
    <2>1. Editable \in Sent
      BY <1>1, <1>3, EditableTyped DEF Get
    <2>2. draft' \in [Agent -> Sent \cup {None}]
      BY <1>1, <1>3, <2>1 DEF Get
    <2> QED
      BY <1>1, <1>3, <2>2 DEF Get, AuthoringTypeOK
  <1>4. ASSUME NEW a \in Agent, NEW edit \in Edits, Edit(a, edit)
        PROVE  AuthoringTypeOK'
    <2>1. draft[a] \in Sent
      BY <1>1, <1>4 DEF Edit
    <2>2. Amended(draft[a], edit) \in Sent
      BY <2>1, ChangedTyped
    <2>3. draft' \in [Agent -> Sent \cup {None}]
      BY <1>1, <1>4, <2>2 DEF Edit
    <2>5. edits' \in 0..MaxEdits
      BY <1>0, <1>1, <1>4 DEF Edit
    <2> QED
      BY <1>1, <1>4, <2>3, <2>5 DEF Edit, AuthoringTypeOK
  <1>5. ASSUME NEW a \in Agent, Update(a)
        PROVE  AuthoringTypeOK'
    <2> DEFINE spec == Parsed(draft[a])
    <2>1. draft[a] \in Sent
      BY <1>1, <1>5 DEF Update
    <2>2. /\ service # None /\ spec # None /\ service' = RenderService(spec)
          /\ timer' = IF Timed(spec) THEN RenderTimer(spec) ELSE timer
          /\ linked' = IF spec.enabled THEN linked \cup Switch(spec) ELSE linked \ Switch(spec)
          /\ draft' = [draft EXCEPT ![a] = None] /\ UNCHANGED edits
      BY <1>5 DEF Update
    <2>3. /\ spec \in Sent /\ RenderService(spec) \in Service /\ RenderTimer(spec) \in Timer \cup {None}
          /\ Timed(spec) => RenderTimer(spec) \in Timer
          /\ Switch(spec) \subseteq {"service"} \cup (IF Timed(spec) THEN {"timer"} ELSE {})
      BY <2>1, <2>2, RendersTyped
    <2>5. draft' \in [Agent -> Sent \cup {None}]
      BY <1>1, <2>2
    <2> HIDE DEF spec
    <2>7. service' \in Service /\ timer' \in Timer \cup {None} /\ (Timed(spec) => timer' \in Timer) /\ (~Timed(spec) => timer' = timer)
      BY <1>1, <2>2, <2>3
    <2>8. linked' \subseteq (IF service' # None THEN {"service"} ELSE {}) \cup (IF timer' # None THEN {"timer"} ELSE {})
      BY <1>0, <1>1, <2>2, <2>3, <2>7
    <2> QED
      BY <1>1, <2>2, <2>5, <2>7, <2>8 DEF AuthoringTypeOK
  <1>6. CASE Toggle
    <2> DEFINE unit == IF timer # None THEN "timer" ELSE "service"
    <2>1. /\ service # None /\ edits < MaxEdits
          /\ linked' = (linked \ {unit}) \cup ({unit} \ linked)
          /\ edits' = edits + 1 /\ UNCHANGED <<service, timer, draft>>
      BY <1>6 DEF Toggle
    <2>2. unit \in (IF service # None THEN {"service"} ELSE {}) \cup (IF timer # None THEN {"timer"} ELSE {})
      BY <2>1
    <2> HIDE DEF unit
    <2>4. edits' \in 0..MaxEdits
      BY <1>0, <1>1, <2>1
    <2>5. linked' \subseteq (IF service # None THEN {"service"} ELSE {}) \cup (IF timer # None THEN {"timer"} ELSE {})
      BY <1>1, <2>1, <2>2
    <2> QED
      BY <1>1, <2>1, <2>4, <2>5 DEF AuthoringTypeOK
  <1>7. CASE Retire
    BY <1>1, <1>7 DEF Retire, AuthoringTypeOK
  <1>8. CASE UNCHANGED authoringVars
    BY <1>8 DEF authoringVars, AuthoringTypeOK
  <1> QED
    BY <1>2, <1>3, <1>4, <1>5, <1>6, <1>7, <1>8 DEF AuthoringNext

-----------------------------------------------------------------------------
(* What is written is what was meant *)

\* Specs that are read back: arguments that are not empty and without quotation
\* marks, paths without colons and with no blank at the end, no variable PATH and no
\* values that need quoting, no unit twice in `after` and not the network's.
Readable == [kind : Kind, title : Maybe, description : Maybe, exec : Seq(Word), env : Seq(Legible),
             path : Seq(PathPart), after : Listed, network : BOOLEAN, restart : Maybe,
             schedule : Schedule \cup {None}, enabled : BOOLEAN \cup {None}]
ReadableField ==
    [kind |-> Kind, title |-> Maybe, description |-> Maybe, exec |-> Seq(Word), env |-> Seq(Legible),
     path |-> Seq(PathPart), after |-> Listed, network |-> BOOLEAN, restart |-> Maybe,
     schedule |-> Schedule \cup {None}, enabled |-> BOOLEAN \cup {None}]

\* Operations are created with such specs and edited to such specs; none is created
\* disabled that cannot be enabled, and updates fit.
WellWritten ==
    /\ Fitting
    /\ Specs \subseteq Readable
    /\ \A spec \in Specs : Parsed(spec) # None => Parsed(spec).enabled \/ HasInstall(spec)
    /\ \A edit \in Edits : \A f \in DOMAIN edit : f \in DOMAIN ReadableField /\ edit[f] \in ReadableField[f]

Sound(spec) ==
    /\ spec \in Readable /\ Accepted(spec) /\ Parsed(spec) = spec
    /\ spec.enabled \in BOOLEAN /\ (spec.enabled \/ HasInstall(spec))

Written(spec, svc, tim, on) ==
    /\ svc = RenderService(spec) /\ tim = RenderTimer(spec)
    /\ on = IF spec.enabled THEN Switch(spec) ELSE {}

WrittenAsMeant ==
    /\ meant = draft /\ draft \in [Agent -> Readable \cup {None}]
    /\ IF intent = None THEN service = None /\ timer = None /\ linked = {}
       ELSE Sound(intent) /\ Written(intent, service, timer, linked)

LEMMA ReadableIs ==
    ASSUME NEW spec \in Readable
    PROVE  spec \in Sent
  <1>1. Word \subseteq Text /\ Legible \subseteq Variable /\ PathPart \subseteq Text
    BY WordIs, PathPartIs DEF Legible
  <1>2. spec.exec \in Seq(Text) /\ spec.env \in Seq(Variable) /\ spec.path \in Seq(Text) /\ spec.after \in Seq(Name)
    <2>1. spec.exec \in Seq(Word) /\ spec.env \in Seq(Legible) /\ spec.path \in Seq(PathPart) /\ spec.after \in Listed
      BY DEF Readable
    <2> QED
      BY <1>1, <2>1, Widened DEF Listed
  <1> QED
    BY <1>2 DEF Readable, Sent

LEMMA ReadableEdited ==
    ASSUME WellWritten, NEW spec \in Readable, NEW edit \in Edits
    PROVE  Amended(spec, edit) \in Readable
  <1>1. \A f \in DOMAIN edit : f \in DOMAIN ReadableField /\ edit[f] \in ReadableField[f]
    BY DEF WellWritten
  <1>2. DOMAIN spec = DOMAIN ReadableField /\ \A f \in DOMAIN ReadableField : spec[f] \in ReadableField[f]
    BY DEF Readable, ReadableField
  <1> DEFINE new == Amended(spec, edit)
  <1>3. new = [f \in DOMAIN ReadableField |-> new[f]] /\ \A f \in DOMAIN ReadableField : new[f] \in ReadableField[f]
    BY <1>1, <1>2 DEF Amended
  <1> HIDE DEF new
  <1>4. new \in Readable
    BY <1>3 DEF Readable, ReadableField
  <1> QED
    BY <1>4 DEF new

LEMMA ParsedReadable ==
    ASSUME NEW sent \in Readable, Parsed(sent) # None
    PROVE  /\ Parsed(sent) \in Readable /\ Accepted(Parsed(sent)) /\ Parsed(Parsed(sent)) = Parsed(sent)
           /\ Parsed(sent).enabled \in BOOLEAN
           /\ Timed(Parsed(sent)) = Timed(sent) /\ HasInstall(Parsed(sent)) = HasInstall(sent)
           /\ Switch(Parsed(sent)) = Switch(sent)
  <1> DEFINE new == Parsed(sent)
  <1>0. "unit" \in Name /\ None \notin Name /\ None \notin BOOLEAN
    BY SpecsAssumption, AuthoringAssumption
  <1>1. /\ Accepted(sent)
        /\ new = [sent EXCEPT
                    !.restart = IF sent.kind = "simple" THEN @ ELSE None,
                    !.description = IF @ # None THEN @ ELSE IF sent.title # None THEN sent.title ELSE "unit",
                    !.enabled = IF @ = None THEN TRUE ELSE @]
    BY DEF Parsed
  <1>2. /\ new \in Readable
        /\ new.kind = sent.kind /\ new.exec = sent.exec /\ new.path = sent.path /\ new.schedule = sent.schedule
        /\ new.restart = IF sent.kind = "simple" THEN sent.restart ELSE None
        /\ new.description # None /\ new.enabled \in BOOLEAN
    <2> DEFINE restart == IF sent.kind = "simple" THEN sent.restart ELSE None
               description == IF sent.description # None THEN sent.description
                              ELSE IF sent.title # None THEN sent.title ELSE "unit"
               enab == IF sent.enabled = None THEN TRUE ELSE sent.enabled
    <2>1. restart \in Maybe /\ description \in Maybe /\ description # None /\ enab \in BOOLEAN
      BY <1>0 DEF Readable, Maybe
    <2>2. new = [[[sent EXCEPT !.restart = restart] EXCEPT !.description = description] EXCEPT !.enabled = enab]
      BY <1>1
    <2>3. restart = IF sent.kind = "simple" THEN sent.restart ELSE None
      OBVIOUS
    <2> HIDE DEF restart, description, enab, new
    <2>4. /\ new.kind = sent.kind /\ new.exec = sent.exec /\ new.path = sent.path /\ new.schedule = sent.schedule
          /\ new.restart = restart /\ new.description = description /\ new.enabled = enab
      BY <2>2 DEF Readable
    <2>5. new \in Readable
      BY <2>1, <2>2 DEF Readable
    <2> QED
      BY <2>1, <2>3, <2>4, <2>5
  <1> HIDE DEF new
  <1>3. Timed(new) = Timed(sent)
    BY <1>2 DEF Timed
  <1>4. HasInstall(new) = HasInstall(sent)
    BY <1>2, <1>3 DEF HasInstall
  <1>5. Switch(new) = Switch(sent)
    BY <1>3, <1>4 DEF Switch
  <1>6. Accepted(new)
    BY <1>1, <1>2, <1>3 DEF Accepted
  <1>7. Parsed(new) = new
    <2>1. Parsed(new) = [new EXCEPT
                    !.restart = IF new.kind = "simple" THEN @ ELSE None,
                    !.description = IF @ # None THEN @ ELSE IF new.title # None THEN new.title ELSE "unit",
                    !.enabled = IF @ = None THEN TRUE ELSE @]
      BY <1>6 DEF Parsed
    <2>2. new.enabled # None
      BY <1>0, <1>2
    <2>3. Parsed(new) = [new EXCEPT !.restart = new.restart, !.description = new.description, !.enabled = new.enabled]
      BY <1>2, <2>1, <2>2
    <2> QED
      BY <1>2, <2>3 DEF Readable
  <1> QED
    BY <1>2, <1>3, <1>4, <1>5, <1>6, <1>7 DEF new

\* What is read back from the files of a sound spec, and from what is enabled, is
\* the spec.
LEMMA EditableIsSpec ==
    ASSUME NEW spec, Sound(spec), Written(spec, service, timer, linked)
    PROVE  Editable = spec
  <1>0. None \notin Name /\ None \notin BOOLEAN /\ None \notin Timer /\ None \notin Schedule /\ spec \in Sent /\ spec \in Readable
    BY SpecsAssumption, ReadableIs DEF Sound
  <1>1. RenderService(spec) =
            [title |-> spec.title, description |-> spec.description,
             type |-> IF spec.kind = "simple" THEN "simple" ELSE "oneshot",
             linger |-> spec.kind = "oneshot-linger",
             exec |-> ExecLine(spec.exec), environment |-> Lines(spec.path, spec.env),
             after |-> IF spec.network /\ Network \notin ToSet(spec.after) THEN Append(spec.after, Network) ELSE spec.after,
             wants |-> spec.network, restart |-> spec.restart,
             install |-> ~Timed(spec) /\ HasInstall(spec)]
    BY Zenon DEF RenderService, Lines
  <1> DEFINE svc == RenderService(spec)
  <1>2. /\ svc.title = spec.title /\ svc.description = spec.description /\ svc.restart = spec.restart
        /\ svc.wants = spec.network
        /\ svc.type = (IF spec.kind = "simple" THEN "simple" ELSE "oneshot")
        /\ svc.linger = (spec.kind = "oneshot-linger")
        /\ svc.exec = ExecLine(spec.exec) /\ svc.environment = Lines(spec.path, spec.env)
        /\ svc.after = (IF spec.network /\ Network \notin ToSet(spec.after) THEN Append(spec.after, Network) ELSE spec.after)
        /\ svc.install = (~Timed(spec) /\ HasInstall(spec))
    BY <1>1
  <1>3. service = svc /\ timer = RenderTimer(spec) /\ linked = (IF spec.enabled THEN Switch(spec) ELSE {})
    BY DEF Written
  <1> HIDE DEF svc
  <1>4. timer # None <=> Timed(spec)
    BY <1>0, <1>3, TimerTyped
  <1>5. spec.kind \in Kind /\ (Timed(spec) => spec.kind = "oneshot") /\ spec.exec # <<>>
    BY DEF Sound, Accepted
  <1>6. Inferred(service, timer) = spec.kind
    BY <1>2, <1>3, <1>4, <1>5 DEF Inferred, Kind
  <1>7. SplitExec(service.exec) = spec.exec
    <2>1. spec.exec \in Seq(Word)
      BY <1>0 DEF Readable
    <2> QED
      BY <1>2, <1>3, <1>5, <2>1, ExecReadBack
  <1>8. ReadEnvironment(service.environment).path = spec.path /\ ReadEnvironment(service.environment).env = spec.env
    <2>1. spec.path \in Seq(PathPart) /\ spec.env \in Seq(Legible)
      BY <1>0 DEF Readable
    <2>2. ReadEnvironment(Lines(spec.path, spec.env)) = [path |-> spec.path, env |-> spec.env]
      BY <2>1, EnvironmentReadBack
    <2> QED
      BY <1>2, <1>3, <2>2
  <1>9. ReadAfter(service.after, IF service.wants THEN {Network} ELSE {}) = spec.after
    <2>1. spec.after \in Listed /\ spec.network \in BOOLEAN
      BY <1>0 DEF Readable
    <2>2. CASE spec.network
      BY <1>2, <1>3, <2>1, <2>2, NetworkReadBack
    <2>3. CASE ~spec.network
      <3>1. service.after = spec.after /\ service.wants = FALSE
        BY <1>2, <1>3, <2>1, <2>3
      <3>2. ReadAfter(spec.after, {}) = spec.after
        BY <2>1, AfterReadBack
      <3> QED
        BY <3>1, <3>2
    <2> QED
      BY <2>1, <2>2, <2>3
  <1>10. ScheduleView(timer) = spec.schedule
    <2>1. CASE ~Timed(spec)
      BY <1>4, <2>1 DEF ScheduleView, Timed
    <2>2. CASE Timed(spec)
      <3> DEFINE s == spec.schedule
                 tim == RenderTimer(spec)
      <3>1. s \in Schedule
        BY <1>0, <2>2 DEF Timed, Sent
      <3>2. tim = [calendar |-> IF s.type = "calendar" THEN s.calendar ELSE None,
                   boot |-> IF s.type = "interval" THEN s.boot ELSE None,
                   active |-> IF s.type = "interval" THEN s.active ELSE None,
                   inactive |-> IF s.type = "interval" THEN s.inactive ELSE None,
                   persistent |-> s.persistent]
        BY <2>2 DEF RenderTimer
      <3>3. tim # None /\ timer = tim
        BY <1>3, <1>4, <2>2
      <3> HIDE DEF s, tim
      <3>4. ASSUME s.type = "calendar"
            PROVE  ScheduleView(tim) = s
        <4>1. s \in [type : {"calendar"}, calendar : Name, persistent : BOOLEAN]
          BY <3>1, <3>4 DEF Schedule
        <4>2. s = [type |-> "calendar", calendar |-> s.calendar, persistent |-> s.persistent] /\ s.calendar # None
          BY <1>0, <4>1
        <4>3. tim.calendar = s.calendar /\ tim.persistent = s.persistent
          BY <3>2, <3>4
        <4> QED
          BY <3>3, <4>2, <4>3 DEF ScheduleView
      <3>5. ASSUME s.type # "calendar"
            PROVE  ScheduleView(tim) = s
        <4>1. s \in [type : {"interval"}, boot : Maybe, active : Maybe, inactive : Maybe, persistent : BOOLEAN]
          BY <3>1, <3>5 DEF Schedule
        <4>2. s = [type |-> "interval", boot |-> s.boot, active |-> s.active, inactive |-> s.inactive,
                   persistent |-> s.persistent] /\ s.type = "interval"
          BY <4>1
        <4>3. /\ tim.calendar = None /\ tim.boot = s.boot /\ tim.active = s.active
              /\ tim.inactive = s.inactive /\ tim.persistent = s.persistent
          BY <3>2, <4>2
        <4> QED
          BY <3>3, <4>2, <4>3 DEF ScheduleView
      <3> QED
        BY <3>3, <3>4, <3>5 DEF s
    <2> QED
      BY <2>1, <2>2
  <1>11. IsEnabled = spec.enabled
    <2>1. spec.enabled \in BOOLEAN /\ (spec.enabled \/ HasInstall(spec))
      BY DEF Sound
    <2> QED
      BY <1>2, <1>3, <1>4, <2>1 DEF IsEnabled, Switch
  <1>12. spec = [kind |-> spec.kind, title |-> spec.title, description |-> spec.description,
                 exec |-> spec.exec, env |-> spec.env, path |-> spec.path, after |-> spec.after,
                 network |-> spec.network, restart |-> spec.restart, schedule |-> spec.schedule,
                 enabled |-> spec.enabled]
    BY <1>0 DEF Sent
  <1> QED
    BY <1>2, <1>3, <1>6, <1>7, <1>8, <1>9, <1>10, <1>11, <1>12 DEF Editable

\* What an update writes for a spec that is parsed, and that fits the units there are.
LEMMA SoundIs ==
    ASSUME NEW sent \in Readable, Parsed(sent) # None,
           Parsed(sent).enabled \/ HasInstall(Parsed(sent))
    PROVE  Sound(Parsed(sent)) /\ Parsed(sent) # None
  BY ParsedReadable DEF Sound

LEMMA KeptStarts ==
    ASSUME AuthoringInit
    PROVE  WrittenAsMeant
  BY DEF AuthoringInit, WrittenAsMeant

LEMMA KeptCreated ==
    ASSUME WellWritten, WrittenAsMeant, NEW spec \in Specs, Create(spec)
    PROVE  WrittenAsMeant'
  <1> DEFINE new == Parsed(spec)
  <1>1. /\ new # None /\ service = None /\ service' = RenderService(new)
        /\ timer' = IF Timed(spec) THEN RenderTimer(new) ELSE timer
        /\ linked' = IF new.enabled THEN linked \cup Switch(spec) ELSE linked
        /\ intent' = new /\ UNCHANGED <<draft, meant>>
    BY DEF Create
  <1>2. spec \in Readable /\ (new.enabled \/ HasInstall(spec))
    BY <1>1 DEF WellWritten
  <1>3. Timed(new) = Timed(spec) /\ HasInstall(new) = HasInstall(spec) /\ Switch(new) = Switch(spec)
    BY <1>1, <1>2, ParsedReadable
  <1>4. Sound(new) /\ new \in Sent
    BY <1>1, <1>2, <1>3, SoundIs, ReadableIs DEF Sound
  <1>5. None \notin Service /\ None \notin Timer
    BY SpecsAssumption
  <1>6. timer = None /\ linked = {}
    <2>1. ASSUME intent # None
          PROVE  FALSE
      <3>1. intent \in Sent /\ intent.exec # <<>> /\ service = RenderService(intent)
        BY <2>1, ReadableIs DEF WrittenAsMeant, Sound, Written, Accepted
      <3>2. RenderService(intent) \in Service
        BY <3>1, ServiceTyped
      <3> QED
        BY <1>1, <1>5, <3>1, <3>2
    <2> QED
      BY <2>1 DEF WrittenAsMeant
  <1>7. timer' = RenderTimer(new)
    BY <1>1, <1>3, <1>4, <1>6, TimerTyped
  <1>8. linked' = IF new.enabled THEN Switch(new) ELSE {}
    BY <1>1, <1>3, <1>6
  <1>9. intent' # None
    BY <1>1
  <1> HIDE DEF new
  <1>10. Sound(intent') /\ Written(intent', service', timer', linked')
    BY <1>1, <1>4, <1>7, <1>8 DEF Written
  <1> QED
    BY <1>1, <1>9, <1>10 DEF WrittenAsMeant

LEMMA KeptGot ==
    ASSUME WrittenAsMeant, NEW a \in Agent, Get(a)
    PROVE  WrittenAsMeant'
  <1>1. /\ service # None /\ draft' = [draft EXCEPT ![a] = Editable] /\ meant' = [meant EXCEPT ![a] = intent]
        /\ UNCHANGED <<service, timer, linked, intent>>
    BY DEF Get
  <1>2. intent # None /\ Sound(intent) /\ Written(intent, service, timer, linked)
    BY <1>1 DEF WrittenAsMeant
  <1>3. Editable = intent /\ intent \in Readable
    BY <1>2, EditableIsSpec DEF Sound
  <1>4. meant' = draft' /\ draft' \in [Agent -> Readable \cup {None}]
    BY <1>1, <1>3 DEF WrittenAsMeant
  <1>5. Written(intent', service', timer', linked') /\ Sound(intent')
    BY <1>1, <1>2 DEF Written
  <1> QED
    BY <1>1, <1>2, <1>4, <1>5 DEF WrittenAsMeant

LEMMA KeptEdited ==
    ASSUME WellWritten, WrittenAsMeant, NEW a \in Agent, NEW edit \in Edits, Edit(a, edit)
    PROVE  WrittenAsMeant'
  <1>1. /\ draft[a] # None /\ draft' = [draft EXCEPT ![a] = Amended(draft[a], edit)]
        /\ meant' = [meant EXCEPT ![a] = Amended(meant[a], edit)]
        /\ UNCHANGED <<service, timer, linked, intent>>
    BY DEF Edit
  <1>2. meant = draft /\ draft[a] \in Readable /\ draft \in [Agent -> Readable \cup {None}]
    BY <1>1 DEF WrittenAsMeant
  <1>3. Amended(draft[a], edit) \in Readable
    BY <1>2, ReadableEdited
  <1>4. meant' = draft' /\ draft' \in [Agent -> Readable \cup {None}]
    BY <1>1, <1>2, <1>3
  <1>5. IF intent' = None THEN service' = None /\ timer' = None /\ linked' = {} ELSE Sound(intent') /\ Written(intent', service', timer', linked')
    BY <1>1 DEF WrittenAsMeant, Written
  <1> QED
    BY <1>1, <1>4, <1>5 DEF WrittenAsMeant

LEMMA KeptUpdated ==
    ASSUME WellWritten, WrittenAsMeant, NEW a \in Agent, Update(a)
    PROVE  WrittenAsMeant'
  <1> DEFINE new == Parsed(draft[a])
  <1>1. /\ draft[a] # None /\ service # None /\ new # None /\ Fits(new, service, timer)
        /\ service' = RenderService(new)
        /\ timer' = IF Timed(new) THEN RenderTimer(new) ELSE timer
        /\ linked' = IF new.enabled THEN linked \cup Switch(new) ELSE linked \ Switch(new)
        /\ intent' = Parsed(meant[a])
        /\ draft' = [draft EXCEPT ![a] = None] /\ meant' = [meant EXCEPT ![a] = None]
    BY DEF Update, WellWritten
  <1>2. meant = draft /\ draft[a] \in Readable /\ draft \in [Agent -> Readable \cup {None}]
    BY <1>1 DEF WrittenAsMeant
  <1>3. new.enabled \/ HasInstall(new)
    BY <1>1 DEF Fits
  <1>4. Sound(new) /\ new \in Sent
    BY <1>1, <1>2, <1>3, SoundIs, ReadableIs DEF Sound
  <1>5. intent # None /\ Sound(intent) /\ Written(intent, service, timer, linked)
    BY <1>1 DEF WrittenAsMeant
  <1>6. intent \in Sent
    BY <1>5, ReadableIs DEF Sound
  <1>7. None \notin Timer
    BY SpecsAssumption
  <1>8. timer # None <=> Timed(intent)
    BY <1>5, <1>6, <1>7, TimerTyped DEF Written
  <1>9. service.install = (~Timed(intent) /\ HasInstall(intent))
    BY <1>5 DEF Written, RenderService
  <1>10. linked \subseteq Switch(intent)
    BY <1>5 DEF Written
  <1> HIDE DEF new
  <1>11. timer' = RenderTimer(new)
    <2>1. CASE Timed(new)
      BY <1>1, <2>1
    <2>2. CASE ~Timed(new)
      <3>1. timer = None
        BY <1>1, <2>2 DEF Fits
      <3>2. RenderTimer(new) = None
        BY <2>2 DEF RenderTimer
      <3> QED
        BY <1>1, <2>2, <3>1, <3>2
    <2> QED
      BY <2>1, <2>2
  <1>12. linked \subseteq Switch(new)
    <2>1. Timed(intent) => Timed(new)
      BY <1>1, <1>8 DEF Fits
    <2>2. ~Timed(intent) /\ HasInstall(intent) => HasInstall(new) /\ ~Timed(new)
      BY <1>1, <1>9 DEF Fits
    <2> QED
      BY <1>10, <2>1, <2>2 DEF Switch
  <1>13. linked' = IF new.enabled THEN Switch(new) ELSE {}
    BY <1>1, <1>12
  <1>14. intent' = new /\ new # None
    BY <1>1, <1>2 DEF new
  <1>15. Sound(intent') /\ Written(intent', service', timer', linked')
    BY <1>1, <1>4, <1>11, <1>13, <1>14 DEF Written
  <1>16. meant' = draft' /\ draft' \in [Agent -> Readable \cup {None}]
    BY <1>1, <1>2
  <1> QED
    BY <1>14, <1>15, <1>16 DEF WrittenAsMeant

LEMMA KeptToggled ==
    ASSUME WrittenAsMeant, Toggle
    PROVE  WrittenAsMeant'
  <1> DEFINE unit == IF timer # None THEN "timer" ELSE "service"
             new == [intent EXCEPT !.enabled = unit \notin linked]
  <1>1. /\ service # None /\ (unit = "timer" \/ service.install)
        /\ linked' = (linked \ {unit}) \cup ({unit} \ linked)
        /\ intent' = new /\ UNCHANGED <<service, timer, draft, meant>>
    BY DEF Toggle
  <1>2. intent # None /\ Sound(intent) /\ Written(intent, service, timer, linked)
    BY <1>1 DEF WrittenAsMeant
  <1>3. intent \in Readable /\ intent \in Sent /\ intent.enabled \in BOOLEAN
    BY <1>2, ReadableIs DEF Sound
  <1>4. None \notin Timer /\ None \notin Sent /\ None \notin BOOLEAN
    BY SpecsAssumption
  <1>5. timer # None <=> Timed(intent)
    BY <1>2, <1>3, <1>4, TimerTyped DEF Written
  <1>6. service.install = (~Timed(intent) /\ HasInstall(intent))
    BY <1>2 DEF Written, RenderService
  <1>7. HasInstall(intent) /\ Switch(intent) = {unit}
    <2>1. CASE Timed(intent)
      BY <1>5, <2>1 DEF HasInstall, Switch
    <2>2. CASE ~Timed(intent)
      BY <1>1, <1>5, <1>6, <2>2 DEF HasInstall, Switch
    <2> QED
      BY <2>1, <2>2
  <1>8. linked = IF intent.enabled THEN {unit} ELSE {}
    BY <1>2, <1>7 DEF Written
  <1> HIDE DEF unit
  <1>9. linked' = IF unit \notin linked THEN {unit} ELSE {}
    BY <1>1, <1>8
  <1> DEFINE on == unit \notin linked
  <1>10. on \in BOOLEAN /\ new = [intent EXCEPT !.enabled = on]
    OBVIOUS
  <1>11. linked' = IF on THEN {unit} ELSE {}
    BY <1>9
  <1> HIDE DEF on, new
  <1>12. new \in Readable /\ new.enabled = on
    BY <1>3, <1>10 DEF Readable
  <1>13. \A f \in {"kind", "title", "description", "exec", "env", "path", "after", "network", "restart", "schedule"} : new[f] = intent[f]
    BY <1>3, <1>10 DEF Readable
  <1>14. /\ new.kind = intent.kind /\ new.title = intent.title /\ new.description = intent.description
         /\ new.exec = intent.exec /\ new.env = intent.env /\ new.path = intent.path /\ new.after = intent.after
         /\ new.network = intent.network /\ new.restart = intent.restart /\ new.schedule = intent.schedule
    BY <1>3, <1>10 DEF Readable
  <1>15. Timed(new) = Timed(intent)
    BY <1>14 DEF Timed
  <1>16. HasInstall(new) = HasInstall(intent)
    BY <1>14, <1>15 DEF HasInstall
  <1>17. Switch(new) = Switch(intent)
    BY <1>15, <1>16 DEF Switch
  <1>18. RenderService(new) = RenderService(intent)
    BY <1>14, <1>15, <1>16 DEF RenderService
  <1>19. RenderTimer(new) = RenderTimer(intent)
    BY <1>14, <1>15 DEF RenderTimer
  <1>20. Accepted(new) = Accepted(intent)
    BY <1>14, <1>15 DEF Accepted
  <1>21. Parsed(new) = new
    <2>1. Accepted(new) /\ Parsed(intent) = intent /\ Accepted(intent)
      BY <1>2, <1>20 DEF Sound
    <2>2. intent.restart = IF intent.kind = "simple" THEN intent.restart ELSE None
      <3>1. Parsed(intent).restart = IF intent.kind = "simple" THEN intent.restart ELSE None
        BY <1>3, <2>1 DEF Parsed, Sent
      <3> QED
        BY <2>1, <3>1
    <2>3. intent.description # None
      <3>1. Parsed(intent).description # None
        <4>1. "unit" \in Name /\ None \notin Name
          BY SpecsAssumption, AuthoringAssumption
        <4> QED
          BY <1>3, <2>1, <4>1 DEF Parsed, Sent
      <3> QED
        BY <2>1, <3>1
    <2>4. new.enabled # None
      BY <1>4, <1>10, <1>12
    <2>5. Parsed(new) = [new EXCEPT !.restart = new.restart, !.description = new.description, !.enabled = new.enabled]
      BY <1>14, <2>1, <2>2, <2>3, <2>4 DEF Parsed
    <2> QED
      BY <1>12, <2>5 DEF Readable
  <1>22. Sound(new)
    BY <1>2, <1>7, <1>10, <1>12, <1>16, <1>20, <1>21 DEF Sound
  <1>23. new # None
    BY <1>4, <1>12, ReadableIs
  <1>24. Written(new, service', timer', linked')
    BY <1>1, <1>2, <1>7, <1>11, <1>12, <1>17, <1>18, <1>19 DEF Written
  <1> QED
    BY <1>1, <1>22, <1>23, <1>24 DEF WrittenAsMeant

LEMMA KeptOn ==
    ASSUME WellWritten, WrittenAsMeant, [AuthoringNext]_authoringVars
    PROVE  WrittenAsMeant'
  <1>1. ASSUME NEW spec \in Specs, Create(spec)
        PROVE  WrittenAsMeant'
    BY <1>1, KeptCreated
  <1>2. ASSUME NEW a \in Agent, Get(a)
        PROVE  WrittenAsMeant'
    BY <1>2, KeptGot
  <1>3. ASSUME NEW a \in Agent, NEW edit \in Edits, Edit(a, edit)
        PROVE  WrittenAsMeant'
    BY <1>3, KeptEdited
  <1>4. ASSUME NEW a \in Agent, Update(a)
        PROVE  WrittenAsMeant'
    BY <1>4, KeptUpdated
  <1>5. CASE Toggle
    BY <1>5, KeptToggled
  <1>6. CASE Retire
    BY <1>6 DEF Retire, WrittenAsMeant
  <1>7. CASE UNCHANGED authoringVars
    BY <1>7 DEF authoringVars, WrittenAsMeant, Written
  <1> QED
    BY <1>1, <1>2, <1>3, <1>4, <1>5, <1>6, <1>7 DEF AuthoringNext

LEMMA KeptIs ==
    ASSUME WrittenAsMeant
    PROVE  EditsKeepTheRest
  <1>1. \A a \in Agent : IF draft[a] = None THEN meant[a] = None
                          ELSE meant[a] # None /\ Outcome(draft[a]) = Outcome(meant[a])
    BY DEF WrittenAsMeant
  <1>2. ASSUME intent # None
        PROVE  [service |-> service, timer |-> timer, enabled |-> linked] = Outcome(intent)
    <2>1. Sound(intent) /\ Written(intent, service, timer, linked)
      BY <1>2 DEF WrittenAsMeant
    <2>2. Parsed(intent) = intent
      BY <2>1 DEF Sound
    <2> QED
      BY <1>2, <2>1, <2>2 DEF Outcome, Written
  <1>3. intent = None => service = None
    BY DEF WrittenAsMeant
  <1> QED
    BY <1>1, <1>2, <1>3 DEF EditsKeepTheRest

-----------------------------------------------------------------------------

\* The files of an operation, what is enabled of it and the editable specs have their
\* types (editable_spec_json, render_service, render_timer), whatever specs, edits and
\* number of authors.
THEOREM AuthoringTyped == AuthoringSpec => []AuthoringTypeOK
  <1>1. AuthoringInit => AuthoringTypeOK
    BY TypesStart
  <1>2. AuthoringTypeOK /\ [AuthoringNext]_authoringVars => AuthoringTypeOK'
    BY TypesStay
  <1> QED
    BY <1>1, <1>2, PTL DEF AuthoringSpec

\* README.md:281-284: an author changes a field of what get_operation gave and updates
\* without dropping the rest, whoever else edits, enables and disables, for any specs
\* that are read back and any number of authors and edits.
THEOREM UpdatesKeepTheRest ==
    ASSUME WellWritten
    PROVE  AuthoringSpec => []EditsKeepTheRest
  <1>1. AuthoringInit => WrittenAsMeant
    BY KeptStarts
  <1>2. WrittenAsMeant /\ [AuthoringNext]_authoringVars => WrittenAsMeant'
    BY KeptOn
  <1>3. WrittenAsMeant => EditsKeepTheRest
    BY KeptIs
  <1> QED
    BY <1>1, <1>2, <1>3, PTL DEF AuthoringSpec
=============================================================================
