-------------------------- MODULE DeploymentProofs --------------------------
(***************************************************************************)
(* Proofs about Deployment, for any generations, actors and clients.       *)
(*                                                                         *)
(* Part one holds however applies and composes overlap: a client's copy of *)
(* the ledger is as sound as the ledger, and a promotion under way carries *)
(* a candidate that was acknowledged.  Part two is about clients that do   *)
(* not overlap: then a client past its plan still holds what the records   *)
(* say, and nobody else changes them.                                      *)
(***************************************************************************)
EXTENDS Deployment, TLAPS

-----------------------------------------------------------------------------
(* Types *)

\* What a verb makes of a ledger is a ledger.
LEMMA EditsAreLedgers ==
    ASSUME NEW l \in Ledger, NEW g \in GenerationOrNone,
           NEW rows \in [Actor -> GenerationOrNone]
    PROVE  /\ Converged(l) \in Ledger
           /\ Failed(l, g) \in Ledger
           /\ Recovered(l) \in Ledger
           /\ Promoted(l) \in Ledger
           /\ Occupied(l, rows) \in Ledger
           /\ Offered(l, g) \in Ledger
  <1>1. \A m \in Ledger : Converged(m) \in Ledger
    BY DEF Converged, Ledger, Phase
  <1>2. [l EXCEPT !.rows = rows] \in Ledger
    BY DEF Ledger
  <1> QED
    BY <1>1, <1>2 DEF Failed, Recovered, Promoted, Occupied, Offered, Ledger, Phase

\* The call every client starts from is a call, and so is one made from it.
LEMMA IdleIsACall ==
    /\ NoLedger \in Ledger
    /\ Idle \in Call
    /\ Idle.step = "idle"
  <1>1. NoLedger \in Ledger
    BY DEF NoLedger, Ledger, Phase, GenerationOrNone
  <1> QED
    BY <1>1 DEF Idle, Call, GenerationOrNone

\* previous_promoted_sha answers a generation or none.
LEMMA PreviousIsAGeneration ==
    ASSUME TypeOK, NEW l \in Ledger
    PROVE  PreviousPromoted(l) \in GenerationOrNone
  BY DEF TypeOK, PreviousPromoted, Ledger, GenerationOrNone

\* Every action but Stop and Start changes the call of one client.
OneCall(c) == \E k \in Call : call' = [call EXCEPT ![c] = k]

LEMMA HoldIsACall ==
    ASSUME NEW c \in Client, NEW l \in Ledger, NEW step,
           step \in {"judge", "write"}, Hold(c, step, l)
    PROVE  OneCall(c)
  <1>1. [Idle EXCEPT !.step = step, !.copy = l] \in Call
    BY IdleIsACall DEF Call
  <1> QED
    BY <1>1 DEF Hold, OneCall

LEMMA GotoIsACall ==
    ASSUME TypeOK, NEW c \in Client, NEW step,
           step \in {"load", "payload", "target", "flip", "publish", "remove"},
           Goto(c, step)
    PROVE  OneCall(c)
  <1>1. [call[c] EXCEPT !.step = step] \in Call
    BY DEF TypeOK, Call
  <1>2. call' = [call EXCEPT ![c] = [call[c] EXCEPT !.step = step]]
    BY DEF Goto
  <1> QED
    BY <1>1, <1>2 DEF OneCall

LEMMA ReturnIsACall ==
    ASSUME NEW c \in Client, Return(c)
    PROVE  OneCall(c)
  BY IdleIsACall DEF Return, OneCall

\* Type correctness of a step follows from that of its parts.
LEMMA OneCallKeepsTypes ==
    ASSUME TypeOK, NEW c \in Client, OneCall(c),
           dirs' \subseteq Generation, current' \in GenerationOrNone,
           published' \in GenerationOrNone, ledger' \in Ledger,
           running' = running, acked' \subseteq Generation
    PROVE  TypeOK'
  BY DEF TypeOK, OneCall

LEMMA PlanAckTyped ==
    ASSUME TypeOK, NEW c \in Client, PlanAck(c)
    PROVE  TypeOK'
  <1>1. PICK result \in {"pass", "fail", "recovered"}, g \in Generation :
          \E o \in {g, None} :
             /\ call' = [call EXCEPT ![c] =
                           [Planned("ack") EXCEPT !.result = result, !.generation = g,
                                                  !.observed = o]]
             /\ acked' = IF result = "pass" /\ o = g
                         THEN acked \union {g} ELSE acked
    BY DEF PlanAck
  <1>2. \A o \in {g, None} :
           [Planned("ack") EXCEPT !.result = result, !.generation = g,
                                  !.observed = o] \in Call
    BY IdleIsACall DEF Planned, Call, GenerationOrNone, TypeOK
  <1>3. OneCall(c) /\ acked' \subseteq Generation
    BY <1>1, <1>2 DEF OneCall, TypeOK
  <1> QED
    BY <1>3, OneCallKeepsTypes DEF PlanAck, records, TypeOK

LEMMA PlanOccupancyTyped ==
    ASSUME TypeOK, NEW c \in Client, PlanOccupancy(c)
    PROVE  TypeOK'
  <1>1. \A rows \in [Actor -> GenerationOrNone] :
           [Planned("occupancy") EXCEPT !.actors = rows] \in Call
    BY IdleIsACall DEF Planned, Call, TypeOK
  <1>2. OneCall(c)
    BY <1>1 DEF PlanOccupancy, OneCall
  <1> QED
    BY <1>2, OneCallKeepsTypes DEF PlanOccupancy, records, TypeOK

LEMMA PlanGcTyped ==
    ASSUME TypeOK, NEW c \in Client, PlanGc(c)
    PROVE  TypeOK'
  <1>1. \A g \in dirs : [Planned("gc") EXCEPT !.generation = g] \in Call
    BY IdleIsACall DEF Planned, Call, TypeOK, GenerationOrNone
  <1>2. OneCall(c)
    BY <1>1 DEF PlanGc, OneCall
  <1> QED
    BY <1>2, OneCallKeepsTypes DEF PlanGc, records, TypeOK

LEMMA ApplyTyped ==
    ASSUME TypeOK, NEW c \in Client, Apply(c)
    PROVE  TypeOK'
  <1>1. OneCall(c)
    BY GotoIsACall, ReturnIsACall DEF Apply
  <1> QED
    BY <1>1, OneCallKeepsTypes DEF Apply, records, TypeOK

LEMMA LoadTyped ==
    ASSUME TypeOK, NEW c \in Client, Load(c)
    PROVE  TypeOK'
  <1>1. ledger \in Ledger /\ call[c] \in Call
    BY DEF TypeOK
  <1>2. /\ Offered(ledger, call[c].generation) \in Ledger
        /\ Occupied(ledger, call[c].actors) \in Ledger
    BY <1>1, EditsAreLedgers DEF Call
  <1>3. /\ Failed(ledger, PreviousPromoted(ledger)) \in Ledger
        /\ Recovered(ledger) \in Ledger
    <2>1. PreviousPromoted(ledger) \in GenerationOrNone
      BY <1>1, PreviousIsAGeneration
    <2>2. None \in GenerationOrNone /\ [a \in Actor |-> None] \in [Actor -> GenerationOrNone]
      BY DEF GenerationOrNone
    <2> QED
      BY <1>1, <2>1, <2>2, EditsAreLedgers
  <1>4. [call[c] EXCEPT !.step = "check", !.copy = ledger] \in Call
    BY <1>1 DEF Call
  <1>5. OneCall(c)
    <2>1. CASE call' = [call EXCEPT ![c].step = "check", ![c].copy = ledger]
      <3>1. call' = [call EXCEPT ![c] = [call[c] EXCEPT !.step = "check", !.copy = ledger]]
        BY <2>1, <1>1 DEF TypeOK
      <3> QED
        BY <1>4, <3>1 DEF OneCall
    <2>2. CASE Return(c)
      BY <2>2, ReturnIsACall
    <2>3. CASE \E l \in Ledger : Edit(c, l) \/ Hold(c, "judge", l)
      BY <2>3, HoldIsACall DEF Edit
    <2> QED
      BY <1>1, <1>2, <1>3, <2>1, <2>2, <2>3 DEF Load
  <1> QED
    BY <1>5, OneCallKeepsTypes DEF Load, records, TypeOK

LEMMA WriteTyped ==
    ASSUME TypeOK, NEW c \in Client, Write(c)
    PROVE  TypeOK'
  <1>1. call[c].copy \in Ledger
    BY DEF TypeOK, Call
  <1> QED
    BY <1>1, ReturnIsACall, OneCallKeepsTypes DEF Write, TypeOK

LEMMA PromoteTyped ==
    ASSUME TypeOK, NEW c \in Client, Promote(c)
    PROVE  TypeOK'
  <1>1. call[c].copy \in Ledger /\ call[c].copy.candidate \in GenerationOrNone
    BY DEF TypeOK, Call, Ledger
  <1>2. Promoted(call[c].copy) \in Ledger
    BY <1>1 DEF Promoted, Ledger, Phase
  <1>3. OneCall(c)
    BY <1>2, GotoIsACall, ReturnIsACall, HoldIsACall
       DEF Promote, Judge, FindTarget, Flip, Publish, Edit
  <1>4. /\ dirs' = dirs /\ ledger' = ledger /\ running' = running /\ acked' = acked
        /\ current' \in GenerationOrNone /\ published' \in GenerationOrNone
    BY <1>1 DEF Promote, Judge, FindTarget, Flip, Publish, TypeOK, records
  <1> QED
    BY <1>3, <1>4, OneCallKeepsTypes DEF TypeOK

LEMMA CollectTyped ==
    ASSUME TypeOK, NEW c \in Client, Collect(c)
    PROVE  TypeOK'
  <1>1. call[c].copy \in Ledger
    BY DEF TypeOK, Call
  <1>2. Converged(call[c].copy) \in Ledger
    BY <1>1 DEF Converged, Ledger, Phase
  <1>3. OneCall(c)
    BY <1>2, GotoIsACall, ReturnIsACall, HoldIsACall DEF Collect, Check, Remove, Edit
  <1>4. /\ dirs' \subseteq dirs /\ ledger' = ledger /\ running' = running
        /\ acked' = acked /\ current' = current /\ published' = published
    BY DEF Collect, Check, Remove, records
  <1> QED
    BY <1>3, <1>4, OneCallKeepsTypes DEF TypeOK

LEMMA ComposingTyped ==
    ASSUME TypeOK, NEW c \in Client, Composing(c),
           At(c, "build") => call[c].generation # None
    PROVE  TypeOK'
  <1>1. CASE Compose(c)
    <2>1. \A g \in Generation :
            [Idle EXCEPT !.step = "build", !.verb = "compose", !.generation = g] \in Call
      BY IdleIsACall DEF Call, GenerationOrNone
    <2>2. OneCall(c)
      BY <1>1, <2>1 DEF Compose, OneCall
    <2> QED
      BY <1>1, <2>2, OneCallKeepsTypes DEF Compose, records, TypeOK
  <1>2. CASE Build(c)
    <2>1. call[c].generation \in Generation
      BY <1>2 DEF Build, TypeOK, Call, GenerationOrNone
    <2>2. OneCall(c)
      BY <1>2, GotoIsACall, ReturnIsACall DEF Build
    <2> QED
      BY <1>2, <2>1, <2>2, OneCallKeepsTypes DEF Build, TypeOK
  <1>3. CASE Payload(c)
    <2>1. OneCall(c)
      BY <1>3, GotoIsACall, ReturnIsACall DEF Payload
    <2> QED
      BY <1>3, <2>1, OneCallKeepsTypes DEF Payload, records, TypeOK
  <1> QED
    BY <1>1, <1>2, <1>3 DEF Composing

-----------------------------------------------------------------------------
(* Part one: whatever overlaps *)

\* A ledger past the candidate phase has promoted something, and says converged
\* only when it is.
Sound(l) ==
    /\ l.phase # "candidate" => l.promoted # None
    /\ l.phase = "converged" => \A a \in Actor : l.rows[a] \in {None, l.promoted}

Promoting == {"judge", "target", "flip", "publish"}

\* What a client carries: s is the set of generations acknowledged so far.
CallOK(k, s) ==
    /\ Sound(k.copy)
    /\ k.step = "build" => k.generation # None
    /\ (k.verb = "ack" /\ k.result = "pass" /\ k.observed = k.generation)
          => k.generation \in s
    /\ k.step \in Promoting => k.copy.candidate \in s

Carried == \A c \in Client : CallOK(call[c], acked)

Safe == TypeOK /\ Sound(ledger) /\ Carried

\* Every edit of a sound ledger is sound; a promotion needs a candidate.
LEMMA EditsAreSound ==
    ASSUME NEW l \in Ledger, Sound(l), NEW g \in GenerationOrNone,
           NEW rows \in [Actor -> GenerationOrNone]
    PROVE  /\ Sound(Converged(l))
           /\ Sound(Failed(l, g))
           /\ Sound(Recovered(l))
           /\ l.candidate # None => Sound(Promoted(l))
           /\ Sound(Occupied(l, rows))
           /\ Sound(Offered(l, g))
  <1>1. ASSUME NEW m \in Ledger, m.phase # "candidate" => m.promoted # None,
               m.phase # "candidate" \/ Sound(m)
        PROVE  Sound(Converged(m))
    <2>1. CASE m.phase = "candidate" \/ m.promoted = None
      BY <2>1, <1>1 DEF Converged, Sound
    <2>2. CASE m.phase # "candidate" /\ m.promoted # None
      <3>1. /\ Converged(m).promoted = m.promoted
            /\ Converged(m).rows = m.rows
            /\ Converged(m).phase = "converged"
                 => \A a \in Actor : m.rows[a] \in {None, m.promoted}
        BY <2>2 DEF Converged, Ledger
      <3> QED
        BY <3>1, <2>2 DEF Sound
    <2> QED
      BY <2>1, <2>2
  <1>2. Sound(Converged(l))
    BY <1>1 DEF Sound
  <1>3. Sound(Occupied(l, rows))
    <2> DEFINE m == [l EXCEPT !.rows = rows]
    <2>1. m \in Ledger /\ m.phase = l.phase /\ m.promoted = l.promoted
      BY DEF Ledger
    <2>2. m.phase = "candidate" => Sound(m)
      BY <2>1 DEF Sound
    <2> HIDE DEF m
    <2>3. Sound(Converged(m))
      BY <2>1, <2>2, <1>1 DEF Sound
    <2> QED
      BY <2>3 DEF Occupied, m
  <1>4. Sound(Failed(l, g)) /\ Sound(Offered(l, g)) /\ Sound(Recovered(l))
    BY DEF Sound, Failed, Offered, Recovered, Ledger
  <1>5. l.candidate # None => Sound(Promoted(l))
    BY DEF Sound, Promoted, Ledger
  <1> QED
    BY <1>2, <1>3, <1>4, <1>5

LEMMA IdleIsOK ==
    ASSUME NEW s
    PROVE  CallOK(Idle, s) /\ Sound(NoLedger)
  BY DEF CallOK, Idle, Sound, NoLedger, Promoting

\* A step that carries on with the same call stays sound.
LEMMA GotoIsOK ==
    ASSUME NEW k \in Call, NEW s, NEW step, CallOK(k, s), step # "build",
           step \in Promoting => k.copy.candidate \in s
    PROVE  CallOK([k EXCEPT !.step = step], s)
  BY DEF CallOK, Call

\* One client's call changes, to one that is sound.
OneSound(c) == \E k \in Call : call' = [call EXCEPT ![c] = k] /\ CallOK(k, acked')

LEMMA OneSoundKeepsCarried ==
    ASSUME TypeOK, Carried, NEW c \in Client, OneSound(c), acked \subseteq acked'
    PROVE  Carried'
  <1>1. PICK k \in Call : call' = [call EXCEPT ![c] = k] /\ CallOK(k, acked')
    BY DEF OneSound
  <1>2. ASSUME NEW e \in Client
        PROVE  CallOK(call'[e], acked')
    <2>1. CASE e = c
      BY <2>1, <1>1 DEF TypeOK
    <2>2. CASE e # c
      <3>1. call'[e] = call[e]
        BY <2>2, <1>1 DEF TypeOK
      <3>2. CallOK(call[e], acked)
        BY DEF Carried
      <3> QED
        BY <3>1, <3>2 DEF CallOK
    <2> QED
      BY <2>1, <2>2
  <1> QED
    BY <1>2 DEF Carried

LEMMA ReturnIsSound ==
    ASSUME NEW c \in Client, Return(c)
    PROVE  OneSound(c)
  BY IdleIsACall, IdleIsOK DEF Return, OneSound

\* Holding a sound copy is all that a verb past its load carries.
LEMMA HoldIsSound ==
    ASSUME NEW c \in Client, NEW l \in Ledger, NEW step, Hold(c, step, l),
           step \in {"judge", "write"}, Sound(l),
           step = "judge" => l.candidate \in acked'
    PROVE  OneSound(c)
  <1> DEFINE k == [Idle EXCEPT !.step = step, !.copy = l]
  <1>1. k \in Call /\ k.step = step /\ k.copy = l /\ k.verb = "none"
    BY IdleIsACall DEF Call, Idle
  <1>2. call' = [call EXCEPT ![c] = k]
    BY DEF Hold
  <1> HIDE DEF k
  <1>3. CallOK(k, acked')
    BY <1>1 DEF CallOK, Promoting
  <1> QED
    BY <1>1, <1>2, <1>3 DEF OneSound

LEMMA GotoIsSound ==
    ASSUME Safe, NEW c \in Client, NEW step, Goto(c, step), acked' = acked,
           step \in {"load", "payload", "target", "flip", "publish", "remove"},
           step \in Promoting => call[c].copy.candidate \in acked
    PROVE  OneSound(c)
  <1>1. call[c] \in Call /\ CallOK(call[c], acked)
    BY DEF Safe, TypeOK, Carried
  <1>2. [call[c] EXCEPT !.step = step] \in Call
    BY <1>1 DEF Call
  <1>3. CallOK([call[c] EXCEPT !.step = step], acked)
    BY <1>1, GotoIsOK
  <1> QED
    BY <1>2, <1>3 DEF Goto, OneSound

LEMMA PlanIsSound ==
    ASSUME Safe, NEW c \in Client, Plan(c)
    PROVE  OneSound(c)
  <1>0. ledger \in Ledger /\ Sound(ledger) /\ Idle \in Call
    BY IdleIsACall DEF Safe, TypeOK
  <1>1. CASE PlanAck(c)
    <2>1. PICK result \in {"pass", "fail", "recovered"}, g \in Generation :
            \E o \in {g, None} :
               /\ call' = [call EXCEPT ![c] =
                             [Planned("ack") EXCEPT !.result = result, !.generation = g,
                                                    !.observed = o]]
               /\ acked' = IF result = "pass" /\ o = g
                           THEN acked \union {g} ELSE acked
      BY <1>1 DEF PlanAck
    <2>2. PICK o \in {g, None} :
             /\ call' = [call EXCEPT ![c] =
                           [Planned("ack") EXCEPT !.result = result, !.generation = g,
                                                  !.observed = o]]
             /\ acked' = IF result = "pass" /\ o = g
                         THEN acked \union {g} ELSE acked
      BY <2>1
    <2> DEFINE k == [Planned("ack") EXCEPT !.result = result, !.generation = g,
                                           !.observed = o]
    <2>3. k \in Call
      BY <1>0 DEF Planned, Call, GenerationOrNone
    <2>4. /\ k.step = "planned" /\ k.verb = "ack" /\ k.copy = ledger
          /\ k.result = result /\ k.generation = g /\ k.observed = o
      BY <1>0 DEF Planned, Call
    <2> HIDE DEF k
    <2>5. CallOK(k, acked')
      BY <2>2, <2>4, <1>0 DEF CallOK, Promoting
    <2> QED
      BY <2>2, <2>3, <2>5 DEF OneSound, k
  <1>2. CASE PlanOccupancy(c)
    <2>0. PICK rows \in [Actor -> GenerationOrNone] :
             call' = [call EXCEPT ![c] = [Planned("occupancy") EXCEPT !.actors = rows]]
      BY <1>2 DEF PlanOccupancy
    <2> DEFINE k == [Planned("occupancy") EXCEPT !.actors = rows]
    <2>1. k \in Call /\ k.step = "planned" /\ k.verb = "occupancy" /\ k.copy = ledger
      BY <1>0 DEF Planned, Call, Safe, TypeOK
    <2>2. call' = [call EXCEPT ![c] = k]
      BY <2>0
    <2> HIDE DEF k
    <2>3. CallOK(k, acked')
      BY <2>1, <1>0 DEF CallOK, Promoting
    <2> QED
      BY <2>1, <2>2, <2>3 DEF OneSound
  <1>3. CASE PlanGc(c)
    <2>1. PICK g \in dirs :
             call' = [call EXCEPT ![c] = [Planned("gc") EXCEPT !.generation = g]]
      BY <1>3 DEF PlanGc
    <2> DEFINE k == [Planned("gc") EXCEPT !.generation = g]
    <2>2. k \in Call /\ k.step = "planned" /\ k.verb = "gc" /\ k.copy = ledger
      BY <1>0 DEF Planned, Call, Safe, TypeOK, GenerationOrNone
    <2>3. call' = [call EXCEPT ![c] = k]
      BY <2>1
    <2> HIDE DEF k
    <2>4. CallOK(k, acked')
      BY <2>2, <1>0 DEF CallOK, Promoting
    <2> QED
      BY <2>2, <2>3, <2>4 DEF OneSound
  <1> QED
    BY <1>1, <1>2, <1>3 DEF Plan

\* A pass that is loaded names the candidate it was acknowledged for.
LEMMA PassNamesCandidate ==
    ASSUME NEW k, NEW l, NEW s, CallOK(k, s), k.verb = "ack",
           k.result \in {"pass", "fail", "recovered"}, Intent(k, l) = "pass"
    PROVE  l.candidate \in s
  BY DEF Intent, FailClosed, CallOK

LEMMA LoadIsSound ==
    ASSUME Safe, NEW c \in Client, Load(c)
    PROVE  OneSound(c)
  <1>0. /\ ledger \in Ledger /\ Sound(ledger)
        /\ call[c] \in Call /\ CallOK(call[c], acked) /\ acked' = acked
        /\ TypeOK
    BY DEF Safe, TypeOK, Carried, Load
  <1>1. CASE call[c].verb = "compose" /\ Edit(c, Offered(ledger, call[c].generation))
    <2>1. /\ Offered(ledger, call[c].generation) \in Ledger
          /\ Sound(Offered(ledger, call[c].generation))
      <3>1. call[c].generation \in GenerationOrNone
        BY <1>0 DEF Call
      <3>2. call[c].actors \in [Actor -> GenerationOrNone]
        BY <1>0 DEF Call
      <3> QED
        BY <3>1, <3>2, <1>0, EditsAreLedgers, EditsAreSound
    <2> QED
      BY <2>1, <1>1, HoldIsSound DEF Edit
  <1>2. CASE call[c].verb = "occupancy" /\ Edit(c, Occupied(ledger, call[c].actors))
    <2>1. call[c].generation \in GenerationOrNone
          /\ call[c].actors \in [Actor -> GenerationOrNone]
      BY <1>0 DEF Call
    <2>2. /\ Occupied(ledger, call[c].actors) \in Ledger
          /\ Sound(Occupied(ledger, call[c].actors))
      BY <2>1, <1>0, EditsAreLedgers, EditsAreSound
    <2> QED
      BY <2>2, <1>2, HoldIsSound DEF Edit
  <1>3. CASE call' = [call EXCEPT ![c].step = "check", ![c].copy = ledger]
    <2> DEFINE k == [call[c] EXCEPT !.step = "check", !.copy = ledger]
    <2>1. /\ k \in Call /\ k.step = "check" /\ k.copy = ledger
          /\ k.verb = call[c].verb /\ k.result = call[c].result
          /\ k.observed = call[c].observed /\ k.generation = call[c].generation
      BY <1>0 DEF Call
    <2>2. call' = [call EXCEPT ![c] = k]
      BY <1>3, <1>0
    <2> HIDE DEF k
    <2>3. CallOK(k, acked')
      BY <2>1, <1>0 DEF CallOK, Promoting
    <2> QED
      BY <2>1, <2>2, <2>3 DEF OneSound
  <1>4. CASE Return(c)
    BY <1>4, ReturnIsSound
  <1>5. CASE \/ Edit(c, Failed(ledger, PreviousPromoted(ledger)))
             \/ Edit(c, Recovered(ledger))
    <2>1. /\ PreviousPromoted(ledger) \in GenerationOrNone
          /\ call[c].actors \in [Actor -> GenerationOrNone]
      BY <1>0, PreviousIsAGeneration DEF Call
    <2>2. /\ Failed(ledger, PreviousPromoted(ledger)) \in Ledger
          /\ Sound(Failed(ledger, PreviousPromoted(ledger)))
          /\ Recovered(ledger) \in Ledger
          /\ Sound(Recovered(ledger))
      BY <2>1, <1>0, EditsAreLedgers, EditsAreSound
    <2> QED
      BY <2>2, <1>5, HoldIsSound DEF Edit
  <1>6. CASE call[c].verb = "ack" /\ Intent(call[c], ledger) = "pass"
             /\ Hold(c, "judge", ledger)
    <2>1. ledger.candidate \in acked
      BY <1>6, <1>0, PassNamesCandidate DEF Call
    <2> QED
      BY <2>1, <1>0, <1>6, HoldIsSound
  <1> QED
    BY <1>1, <1>2, <1>3, <1>4, <1>5, <1>6 DEF Load

LEMMA PromoteIsSound ==
    ASSUME Safe, NEW c \in Client, Promote(c)
    PROVE  OneSound(c)
  <1>0. /\ call[c] \in Call /\ CallOK(call[c], acked) /\ acked' = acked
        /\ call[c].copy.candidate \in acked
    BY DEF Safe, TypeOK, Carried, Promote, Judge, FindTarget, Flip, Publish,
           CallOK, Promoting, At
  <1>1. CASE Return(c)
    BY <1>1, ReturnIsSound
  <1>2. CASE Goto(c, "target") \/ Goto(c, "flip") \/ Goto(c, "publish")
    BY <1>2, <1>0, GotoIsSound
  <1>3. CASE Edit(c, Promoted(call[c].copy))
    <2>1. /\ call[c].copy \in Ledger /\ Sound(call[c].copy)
          /\ call[c].copy.candidate # None
          /\ call[c].actors \in [Actor -> GenerationOrNone]
          /\ call[c].generation \in GenerationOrNone
      BY <1>0, DeploymentAssumption DEF Call, CallOK, Safe, TypeOK
    <2>2. Promoted(call[c].copy) \in Ledger /\ Sound(Promoted(call[c].copy))
      BY <2>1, EditsAreLedgers, EditsAreSound
    <2> QED
      BY <2>2, <1>3, HoldIsSound DEF Edit
  <1> QED
    BY <1>1, <1>2, <1>3 DEF Promote, Judge, FindTarget, Flip, Publish

LEMMA CollectIsSound ==
    ASSUME Safe, NEW c \in Client, Collect(c)
    PROVE  OneSound(c)
  <1>0. /\ call[c] \in Call /\ CallOK(call[c], acked) /\ acked' = acked
    BY DEF Safe, TypeOK, Carried, Collect, Check, Remove
  <1>1. CASE Return(c)
    BY <1>1, ReturnIsSound
  <1>2. CASE Goto(c, "remove")
    BY <1>2, <1>0, GotoIsSound DEF Promoting
  <1>3. CASE Edit(c, Converged(call[c].copy))
    <2>1. /\ call[c].copy \in Ledger /\ Sound(call[c].copy)
          /\ call[c].actors \in [Actor -> GenerationOrNone]
          /\ call[c].generation \in GenerationOrNone
      BY <1>0 DEF Call, CallOK
    <2>2. Converged(call[c].copy) \in Ledger /\ Sound(Converged(call[c].copy))
      BY <2>1, EditsAreLedgers, EditsAreSound
    <2> QED
      BY <2>2, <1>3, HoldIsSound DEF Edit
  <1> QED
    BY <1>1, <1>2, <1>3 DEF Collect, Check, Remove

LEMMA ComposingIsSound ==
    ASSUME Safe, NEW c \in Client, Composing(c)
    PROVE  OneSound(c)
  <1>1. CASE Compose(c)
    <2>1. PICK g \in Generation :
             call' = [call EXCEPT ![c] = [Idle EXCEPT !.step = "build",
                                                      !.verb = "compose",
                                                      !.generation = g]]
      BY <1>1 DEF Compose
    <2> DEFINE k == [Idle EXCEPT !.step = "build", !.verb = "compose", !.generation = g]
    <2>2. /\ k \in Call /\ k.step = "build" /\ k.verb = "compose" /\ k.generation = g
          /\ k.copy = NoLedger
      BY IdleIsACall DEF Idle, Call, GenerationOrNone
    <2>3. call' = [call EXCEPT ![c] = k] /\ g # None
      BY <2>1, DeploymentAssumption
    <2> HIDE DEF k
    <2>4. CallOK(k, acked')
      BY <2>2, <2>3, IdleIsOK DEF CallOK, Promoting
    <2> QED
      BY <2>2, <2>3, <2>4 DEF OneSound
  <1>2. CASE Build(c)
    BY <1>2, GotoIsSound, ReturnIsSound DEF Build, Promoting
  <1>3. CASE Payload(c)
    BY <1>3, GotoIsSound, ReturnIsSound DEF Payload, Promoting
  <1> QED
    BY <1>1, <1>2, <1>3 DEF Composing

LEMMA SafeInit ==
    ASSUME Init
    PROVE  Safe
  <1>1. Idle \in Call /\ NoLedger \in Ledger /\ \A s : CallOK(Idle, s) /\ Sound(NoLedger)
    BY IdleIsACall, IdleIsOK
  <1>2. TypeOK
    BY <1>1 DEF Init, TypeOK, GenerationOrNone
  <1>3. Sound(ledger) /\ Carried
    BY <1>1 DEF Init, Carried
  <1> QED
    BY <1>2, <1>3 DEF Safe

LEMMA SafeStep ==
    ASSUME Safe, [Next]_vars
    PROVE  Safe'
  <1>0. TypeOK /\ Carried /\ Sound(ledger)
    BY DEF Safe
  <1>1. ASSUME NEW c \in Client, Plan(c)
        PROVE  Safe'
    <2>1. OneSound(c) /\ acked \subseteq acked' /\ ledger' = ledger
      BY <1>1, PlanIsSound DEF Plan, PlanAck, PlanOccupancy, PlanGc, records
    <2>2. TypeOK'
      BY <1>0, <1>1, PlanAckTyped, PlanOccupancyTyped, PlanGcTyped DEF Plan
    <2> QED
      BY <2>1, <2>2, <1>0, OneSoundKeepsCarried DEF Safe
  <1>2. ASSUME NEW c \in Client, Apply(c)
        PROVE  Safe'
    <2>1. OneSound(c)
      BY <1>2, GotoIsSound, ReturnIsSound DEF Apply, Promoting
    <2>2. TypeOK' /\ acked' = acked /\ ledger' = ledger
      BY <1>0, <1>2, ApplyTyped DEF Apply, records
    <2> QED
      BY <2>1, <2>2, <1>0, OneSoundKeepsCarried DEF Safe
  <1>3. ASSUME NEW c \in Client, Promote(c)
        PROVE  Safe'
    <2>1. TypeOK' /\ acked' = acked /\ ledger' = ledger
      BY <1>0, <1>3, PromoteTyped DEF Promote, Judge, FindTarget, Flip, Publish, records
    <2> QED
      BY <1>3, <2>1, <1>0, PromoteIsSound, OneSoundKeepsCarried DEF Safe
  <1>4. ASSUME NEW c \in Client, Collect(c)
        PROVE  Safe'
    <2>1. TypeOK' /\ acked' = acked /\ ledger' = ledger
      BY <1>0, <1>4, CollectTyped DEF Collect, Check, Remove, records
    <2> QED
      BY <1>4, <2>1, <1>0, CollectIsSound, OneSoundKeepsCarried DEF Safe
  <1>5. ASSUME NEW c \in Client, Composing(c)
        PROVE  Safe'
    <2>1. At(c, "build") => call[c].generation # None
      BY <1>0, <1>5 DEF Carried, CallOK, At
    <2>2. TypeOK' /\ acked' = acked /\ ledger' = ledger
      BY <1>0, <1>5, <2>1, ComposingTyped DEF Composing, Compose, Build, Payload, records
    <2> QED
      BY <1>5, <2>2, <1>0, ComposingIsSound, OneSoundKeepsCarried DEF Safe
  <1>6. ASSUME NEW c \in Client, Load(c)
        PROVE  Safe'
    <2>1. TypeOK' /\ acked' = acked /\ ledger' = ledger
      BY <1>0, <1>6, LoadTyped DEF Load, records
    <2> QED
      BY <1>6, <2>1, <1>0, LoadIsSound, OneSoundKeepsCarried DEF Safe
  <1>7. ASSUME NEW c \in Client, Write(c)
        PROVE  Safe'
    <2>1. TypeOK' /\ acked' = acked /\ ledger' = call[c].copy /\ OneSound(c)
      BY <1>0, <1>7, WriteTyped, ReturnIsSound DEF Write
    <2>2. Sound(call[c].copy)
      BY <1>0 DEF Carried, CallOK
    <2>3. Carried'
      BY <2>1, <1>0, OneSoundKeepsCarried
    <2> QED
      BY <2>1, <2>2, <2>3 DEF Safe, Sound
  <1>8. ASSUME NEW c \in Client, Kill(c)
        PROVE  Safe'
    <2>1. OneCall(c) /\ OneSound(c)
      BY <1>8, ReturnIsACall, ReturnIsSound DEF Kill
    <2>2. acked' = acked /\ ledger' = ledger
      BY <1>8 DEF Kill, records
    <2>3. TypeOK'
      BY <2>1, <1>0, <1>8, OneCallKeepsTypes DEF Kill, records, TypeOK
    <2> QED
      BY <2>1, <2>2, <2>3, <1>0, OneSoundKeepsCarried DEF Safe
  <1>9. ASSUME NEW a \in Actor, Start(a) \/ Stop(a)
        PROVE  Safe'
    <2>1. running' \in [Actor -> GenerationOrNone]
      BY <1>0, <1>9 DEF Start, Stop, TypeOK, GenerationOrNone
    <2>2. UNCHANGED <<records, call, acked>>
      BY <1>9 DEF Start, Stop
    <2> QED
      BY <2>1, <2>2, <1>0 DEF Safe, TypeOK, Carried, records
  <1>10. CASE UNCHANGED vars
    BY <1>0, <1>10 DEF Safe, TypeOK, Carried, vars, records
  <1> QED
    BY <1>1, <1>2, <1>3, <1>4, <1>5, <1>6, <1>7, <1>8, <1>9, <1>10
       DEF Next, Verb, Step, Client

\* The type invariant of deployment.json, the pointers and every client's copy.
THEOREM DeploymentTyped == Spec => []TypeOK
  <1>1. Init => Safe
    BY SafeInit
  <1>2. Safe /\ [Next]_vars => Safe'
    BY SafeStep
  <1>3. Safe => TypeOK
    BY DEF Safe
  <1> QED
    BY <1>1, <1>2, <1>3, PTL DEF Spec

\* maybe_set_converged, whoever overwrites whose ledger: a ledger that says
\* converged has every live row on the promoted generation.
THEOREM ConvergedMeansSettled == Spec => []ConvergedIsSettled
  <1>1. Init => Safe
    BY SafeInit
  <1>2. Safe /\ [Next]_vars => Safe'
    BY SafeStep
  <1>3. Safe => ConvergedIsSettled
    BY DEF Safe, Sound, ConvergedIsSettled
  <1> QED
    BY <1>1, <1>2, <1>3, PTL DEF Spec

\* apply_deploy_canary_ack, whoever overlaps: the link and the published pointer
\* move only to a generation that midi acknowledged having seen.
THEOREM LiveWasAcked == Spec => OnlyAckedGoesLive
  <1>1. Init => Safe
    BY SafeInit
  <1>2. Safe /\ [Next]_vars => Safe'
    BY SafeStep
  <1>3. Safe /\ Safe' /\ [Next]_vars =>
           [/\ current' # current => current' \in acked
            /\ published' # published => published' \in acked]_vars
    <2> SUFFICES ASSUME Safe, [Next]_vars
                 PROVE  /\ current' # current => current' \in acked
                        /\ published' # published => published' \in acked
      OBVIOUS
    <2>1. CASE \E c \in Client : Flip(c) \/ Publish(c)
      <3>1. PICK c \in Client : Flip(c) \/ Publish(c)
        BY <2>1
      <3>2. call[c].copy.candidate \in acked
        BY <3>1 DEF Safe, Carried, CallOK, Promoting, Flip, Publish, At
      <3> QED
        BY <3>1, <3>2 DEF Flip, Publish
    <2>2. CASE ~ \E c \in Client : Flip(c) \/ Publish(c)
      <3>1. current' = current /\ published' = published
        BY <2>2 DEF Next, Verb, Step, Client, Plan, PlanAck, PlanOccupancy, PlanGc,
             Apply, Promote, Judge, FindTarget, Collect, Check, Remove, Composing,
             Compose, Build, Payload, Load, Write, Kill, Start, Stop, vars, records
      <3> QED
        BY <3>1
    <2> QED
      BY <2>1, <2>2
  <1> QED
    BY <1>1, <1>2, <1>3, PTL DEF Spec, OnlyAckedGoesLive

-----------------------------------------------------------------------------
(* Part two: applies and composes that do not overlap *)

OneBusy == \A c, e \in Client : Busy(c) /\ Busy(e) => c = e

\* The link and the candidate never dangle.
Pointed ==
    /\ current \in dirs \union {None}
    /\ ledger.candidate \in dirs \union {None}

\* A ledger that may be written: what it calls rolling out is live.
Truthful(l) == l.phase # "candidate" => {l.promoted, published, current} = {l.candidate}

\* What a client holds, step by step, while it is alone.
BusyOK(k) ==
    /\ k.step = "planned" => k.verb # "compose"
    /\ (k.step = "payload" \/ (k.step = "load" /\ k.verb = "compose"))
          => k.generation \in dirs
    /\ k.step \in Promoting \union {"check", "remove"} => k.copy = ledger
    /\ k.step \in Promoting => ~HoldActive(ledger)
    /\ k.step \in {"target", "flip", "publish"} => ledger.phase = "candidate"
    /\ k.step \in {"flip", "publish"} => ledger.candidate \in dirs
    /\ k.step = "publish" => current = ledger.candidate
    /\ k.step = "remove" =>
          /\ k.generation \in dirs \ {current, published, ledger.candidate}
          /\ \A a \in Actor : running[a] # k.generation /\ ledger.rows[a] # k.generation
    /\ k.step = "write" =>
          /\ Truthful(k.copy)
          /\ k.copy.candidate = ledger.candidate \/ k.copy.candidate \in dirs

Turns == \A c \in Client : BusyOK(call[c])

Alone == Safe /\ OneBusy /\ Pointed /\ Truthful(ledger) /\ Turns

\* The step of the busy client concerns nobody else.
LEMMA BusyTurn ==
    ASSUME Alone, NEW c \in Client, Busy(c), OneSound(c), BusyOK(call[c])'
    PROVE  OneBusy' /\ Turns'
  <1>1. PICK k \in Call : call' = [call EXCEPT ![c] = k]
    BY DEF OneSound
  <1>2. ASSUME NEW e \in Client, e # c
        PROVE  /\ call'[e] = call[e]
               /\ call[e].step \in {"idle", "planned"}
               /\ call[e].step = "planned" => call[e].verb # "compose"
    BY <1>1, <1>2 DEF Alone, Safe, TypeOK, OneBusy, Busy, Turns, BusyOK
  <1>3. OneBusy'
    BY <1>2 DEF OneBusy, Busy
  <1>4. ASSUME NEW e \in Client, e # c
        PROVE  BusyOK(call[e])'
    BY <1>2, <1>4 DEF BusyOK, Promoting
  <1> QED
    BY <1>3, <1>4 DEF Turns

\* Without overlap a client begins when nobody is busy.
LEMMA FirstTurn ==
    ASSUME Alone, NEW c \in Client, \A e \in Client : ~Busy(e),
           OneSound(c), BusyOK(call[c])'
    PROVE  OneBusy' /\ Turns'
  <1>1. PICK k \in Call : call' = [call EXCEPT ![c] = k]
    BY DEF OneSound
  <1>2. ASSUME NEW e \in Client, e # c
        PROVE  /\ call'[e] = call[e]
               /\ call[e].step \in {"idle", "planned"}
               /\ call[e].step = "planned" => call[e].verb # "compose"
    BY <1>1, <1>2 DEF Alone, Safe, TypeOK, Busy, Turns, BusyOK
  <1>3. OneBusy'
    BY <1>2 DEF OneBusy, Busy
  <1>4. ASSUME NEW e \in Client, e # c
        PROVE  BusyOK(call[e])'
    BY <1>2, <1>4 DEF BusyOK, Promoting
  <1> QED
    BY <1>3, <1>4 DEF Turns

\* A client that is not busy plans, or drops its plan: the records stay.
LEMMA QuietTurn ==
    ASSUME Alone, NEW c \in Client, OneSound(c), UNCHANGED <<records, running>>,
           call'[c].step \in {"idle", "planned"},
           call'[c].step = "planned" => call'[c].verb # "compose"
    PROVE  OneBusy' /\ Turns'
  <1>1. PICK k \in Call : call' = [call EXCEPT ![c] = k]
    BY DEF OneSound
  <1>2. \A e \in Client : e # c => call'[e] = call[e]
    BY <1>1 DEF Alone, Safe, TypeOK
  <1>3. OneBusy'
    BY <1>2 DEF Alone, OneBusy, Busy
  <1>4. ASSUME NEW e \in Client, e # c
        PROVE  BusyOK(call[e])'
    <2>1. BusyOK(call[e])
      BY DEF Alone, Turns
    <2>2. call'[e] = call[e]
      BY <1>2, <1>4
    <2> QED
      BY <2>1, <2>2 DEF BusyOK, records, Truthful, HoldActive, MidiAliveOn
  <1>5. BusyOK(call[c])'
    BY DEF BusyOK, Promoting
  <1> QED
    BY <1>3, <1>4, <1>5 DEF Turns

\* The records stay pointed and truthful when none of them changes.
LEMMA SameRecords ==
    ASSUME Alone, UNCHANGED records
    PROVE  Pointed' /\ Truthful(ledger)'
  BY DEF Alone, Pointed, Truthful, records

LEMMA AloneInit ==
    ASSUME Init
    PROVE  Alone
  <1>1. Safe
    BY SafeInit
  <1>2. \A c \in Client : call[c].step = "idle"
    BY IdleIsACall DEF Init
  <1>3. OneBusy /\ Turns
    BY <1>2 DEF OneBusy, Busy, Turns, BusyOK, Promoting
  <1>4. Pointed /\ Truthful(ledger)
    BY DEF Init, Pointed, Truthful, NoLedger
  <1> QED
    BY <1>1, <1>3, <1>4 DEF Alone

LEMMA AlonePlan ==
    ASSUME Alone, NEW c \in Client, Plan(c)
    PROVE  OneBusy' /\ Turns' /\ Pointed' /\ Truthful(ledger)'
  <1>0. Idle \in Call /\ call \in [Client -> Call] /\ Safe
    BY IdleIsACall DEF Alone, Safe, TypeOK
  <1>1. OneSound(c)
    BY <1>0, PlanIsSound
  <1>2. call'[c].step = "planned" /\ call'[c].verb # "compose"
    <2>0. ledger \in Ledger
      BY <1>0 DEF Safe, TypeOK
    <2>1. \A verb \in {"ack", "occupancy", "gc"} :
             /\ Planned(verb) \in Call
             /\ Planned(verb).step = "planned" /\ Planned(verb).verb = verb
      BY <1>0, <2>0 DEF Planned, Call
    <2>2. CASE PlanAck(c)
      <3>1. \A k \in Call : \A r, g, o :
               /\ [k EXCEPT !.result = r, !.generation = g, !.observed = o].step = k.step
               /\ [k EXCEPT !.result = r, !.generation = g, !.observed = o].verb = k.verb
        BY DEF Call
      <3>2. \E r, g, o : call' = [call EXCEPT ![c] =
               [Planned("ack") EXCEPT !.result = r, !.generation = g, !.observed = o]]
        BY <2>2 DEF PlanAck
      <3> QED
        BY <1>0, <2>1, <3>1, <3>2
    <2>3. CASE PlanOccupancy(c)
      <3>1. \E rows : call' = [call EXCEPT ![c] = [Planned("occupancy") EXCEPT !.actors = rows]]
        BY <2>3 DEF PlanOccupancy
      <3> QED
        BY <1>0, <2>1, <3>1 DEF Call
    <2>4. CASE PlanGc(c)
      <3>1. \E g : call' = [call EXCEPT ![c] = [Planned("gc") EXCEPT !.generation = g]]
        BY <2>4 DEF PlanGc
      <3> QED
        BY <1>0, <2>1, <3>1 DEF Call
    <2> QED
      BY <2>2, <2>3, <2>4 DEF Plan
  <1>3. UNCHANGED <<records, running>>
    BY DEF Plan, PlanAck, PlanOccupancy, PlanGc
  <1> QED
    BY <1>1, <1>2, <1>3, QuietTurn, SameRecords

LEMMA AloneApply ==
    ASSUME Alone, ~Overlap, NEW c \in Client, Apply(c)
    PROVE  OneBusy' /\ Turns' /\ Pointed' /\ Truthful(ledger)'
  <1>0. Idle \in Call /\ Idle.step = "idle" /\ call \in [Client -> Call] /\ Safe
        /\ call[c] \in Call
    BY IdleIsACall DEF Alone, Safe, TypeOK
  <1>1. OneSound(c)
    BY <1>0, GotoIsSound, ReturnIsSound DEF Apply, Promoting
  <1>2. call[c].verb # "compose"
    BY DEF Alone, Turns, BusyOK, Apply, At
  <1>3. \/ call'[c].step = "idle"
        \/ call'[c].step = "load" /\ call'[c].verb # "compose"
    BY <1>0, <1>2 DEF Apply, Goto, Return, Call
  <1>4. BusyOK(call[c])'
    BY <1>3 DEF BusyOK, Promoting
  <1>5. \A e \in Client : ~Busy(e)
    BY DEF Apply, MayBegin
  <1> QED
    BY <1>1, <1>4, <1>5, FirstTurn, SameRecords DEF Apply

\* Editing keeps a copy truthful while the pointers stay.
LEMMA EditsAreTruthful ==
    ASSUME NEW l \in Ledger, Truthful(l), NEW g, NEW rows \in [Actor -> GenerationOrNone]
    PROVE  /\ Truthful(Converged(l)) /\ Converged(l).candidate = l.candidate
           /\ Truthful(Failed(l, g)) /\ Failed(l, g).candidate = l.candidate
           /\ Truthful(Recovered(l)) /\ Recovered(l).candidate = l.candidate
           /\ Truthful(Occupied(l, rows)) /\ Occupied(l, rows).candidate = l.candidate
           /\ Truthful(Offered(l, g)) /\ Offered(l, g).candidate = g
  <1>1. ASSUME NEW m \in Ledger, Truthful(m)
        PROVE  Truthful(Converged(m)) /\ Converged(m).candidate = m.candidate
    BY <1>1 DEF Converged, Truthful, Ledger
  <1>2. Truthful(Occupied(l, rows)) /\ Occupied(l, rows).candidate = l.candidate
    <2> DEFINE m == [l EXCEPT !.rows = rows]
    <2>1. m \in Ledger /\ Truthful(m) /\ m.candidate = l.candidate
      BY DEF Ledger, Truthful
    <2> HIDE DEF m
    <2>2. Truthful(Converged(m)) /\ Converged(m).candidate = m.candidate
      BY <1>1, <2>1
    <2> QED
      BY <2>1, <2>2 DEF Occupied, m
  <1> QED
    BY <1>1, <1>2 DEF Truthful, Failed, Recovered, Offered, Ledger

\* A client that writes next: the copy it holds may be written.
LEMMA EditTurn ==
    ASSUME Alone, NEW c \in Client, NEW l, Edit(c, l), Truthful(l)',
           (l.candidate = ledger.candidate \/ l.candidate \in dirs)'
    PROVE  BusyOK(call[c])'
  <1>1. call'[c] = [Idle EXCEPT !.step = "write", !.copy = l]
    BY DEF Edit, Hold, Alone, Safe, TypeOK
  <1>2. call'[c].step = "write" /\ call'[c].copy = l
    BY <1>1, IdleIsACall DEF Call
  <1> QED
    BY <1>2 DEF BusyOK, Promoting

\* A client that returns holds nothing.
LEMMA ReturnTurn ==
    ASSUME Alone, NEW c \in Client, Return(c)
    PROVE  BusyOK(call[c])'
  <1>1. call'[c] = Idle
    BY DEF Return, Alone, Safe, TypeOK
  <1> QED
    BY <1>1, IdleIsACall DEF BusyOK, Promoting

LEMMA AloneLoad ==
    ASSUME Alone, NEW c \in Client, Load(c)
    PROVE  OneBusy' /\ Turns' /\ Pointed' /\ Truthful(ledger)'
  <1>0. /\ ledger \in Ledger /\ Truthful(ledger) /\ call[c] \in Call /\ Safe
        /\ call \in [Client -> Call] /\ TypeOK /\ BusyOK(call[c]) /\ Busy(c)
        /\ dirs' = dirs /\ current' = current /\ published' = published
        /\ ledger' = ledger /\ running' = running
    BY DEF Alone, Safe, TypeOK, Load, records, Turns, Busy, At
  <1>1. PICK rows \in [Actor -> GenerationOrNone] : rows = call[c].actors
    BY <1>0 DEF Call
  <1>2. PICK g : g = call[c].generation
    OBVIOUS
  <1>3. PICK previous : previous = PreviousPromoted(ledger)
    OBVIOUS
  <1>4. call[c].verb = "compose" => g \in dirs
    BY <1>0, <1>2 DEF BusyOK, Load, At
  <1>5. BusyOK(call[c])'
    <2>1. CASE call[c].verb = "compose" /\ Edit(c, Offered(ledger, g))
      <3>1. Truthful(Offered(ledger, g)) /\ Offered(ledger, g).candidate = g
        BY <1>0, <1>1, EditsAreTruthful
      <3>2. PICK l : l = Offered(ledger, g)
        OBVIOUS
      <3> QED
        BY <1>0, <1>4, <2>1, <3>1, <3>2, EditTurn DEF Truthful
    <2>2. CASE \E l \in {Occupied(ledger, rows), Failed(ledger, previous),
                         Recovered(ledger)} : Edit(c, l)
      <3>1. PICK l \in {Occupied(ledger, rows), Failed(ledger, previous),
                        Recovered(ledger)} : Edit(c, l)
        BY <2>2
      <3>2. Truthful(l) /\ l.candidate = ledger.candidate
        BY <1>0, <1>1, <3>1, EditsAreTruthful
      <3> QED
        BY <1>0, <3>1, <3>2, EditTurn DEF Truthful
    <2>3. CASE call' = [call EXCEPT ![c].step = "check", ![c].copy = ledger]
      <3>1. call'[c].step = "check" /\ call'[c].copy = ledger
        BY <2>3, <1>0 DEF Call
      <3> QED
        BY <1>0, <3>1 DEF BusyOK, Promoting
    <2>4. CASE Return(c)
      BY <2>4, ReturnTurn
    <2>5. CASE Intent(call[c], ledger) = "pass" /\ Hold(c, "judge", ledger)
              /\ call[c].verb = "ack"
      <3>1. call'[c] = [Idle EXCEPT !.step = "judge", !.copy = ledger]
        BY <2>5, <1>0 DEF Hold
      <3>2. call'[c].step = "judge" /\ call'[c].copy = ledger
        BY <3>1, IdleIsACall DEF Call
      <3>3. ~HoldActive(ledger)
        BY <2>5 DEF Intent
      <3>4. ~HoldActive(ledger)'
        BY <3>3, <1>0 DEF HoldActive, MidiAliveOn
      <3> QED
        BY <1>0, <3>2, <3>4 DEF BusyOK, Promoting
    <2> QED
      BY <1>1, <1>2, <1>3, <2>1, <2>2, <2>3, <2>4, <2>5 DEF Load
  <1> QED
    BY <1>0, <1>5, LoadIsSound, BusyTurn, SameRecords DEF Load

LEMMA AloneWrite ==
    ASSUME Alone, NEW c \in Client, Write(c)
    PROVE  OneBusy' /\ Turns' /\ Pointed' /\ Truthful(ledger)'
  <1>0. Safe /\ BusyOK(call[c]) /\ Busy(c) /\ OneSound(c) /\ BusyOK(call[c])'
    BY ReturnIsSound, ReturnTurn DEF Alone, Turns, Write, Busy, At
  <1>1. /\ Truthful(call[c].copy)
        /\ call[c].copy.candidate = ledger.candidate \/ call[c].copy.candidate \in dirs
    BY <1>0 DEF BusyOK, Write, At
  <1>2. Pointed' /\ Truthful(ledger)'
    BY <1>1 DEF Write, Alone, Pointed, Truthful
  <1> QED
    BY <1>0, <1>2, BusyTurn

LEMMA AloneKill ==
    ASSUME Alone, NEW c \in Client, Kill(c)
    PROVE  OneBusy' /\ Turns' /\ Pointed' /\ Truthful(ledger)'
  <1>1. call'[c] = Idle /\ OneSound(c)
    BY ReturnIsSound DEF Kill, Return, Alone, Safe, TypeOK
  <1> QED
    BY <1>1, IdleIsACall, QuietTurn, SameRecords DEF Kill

\* A promotion under way: nobody touches the ledger, so the candidate is the
\* acknowledged one, and the records disagree only while the ledger calls it a
\* candidate still.
LEMMA AlonePromote ==
    ASSUME Alone, NEW c \in Client, Promote(c)
    PROVE  OneBusy' /\ Turns' /\ Pointed' /\ Truthful(ledger)'
  <1>0. /\ ledger \in Ledger /\ Truthful(ledger) /\ call[c] \in Call /\ Safe
        /\ call \in [Client -> Call] /\ BusyOK(call[c]) /\ Sound(ledger) /\ Pointed
        /\ Carried /\ acked \subseteq Generation
    BY DEF Alone, Safe, TypeOK, Turns
  <1>1. /\ call[c].step \in Promoting
        /\ dirs' = dirs /\ ledger' = ledger /\ running' = running
    BY DEF Promote, Judge, FindTarget, Flip, Publish, Promoting, At, records
  <1>2. /\ call[c].copy = ledger /\ ~HoldActive(ledger) /\ Busy(c)
        /\ ledger.candidate # None
    <2>1. CallOK(call[c], acked)
      BY <1>0 DEF Carried
    <2> QED
      BY <1>0, <1>1, <2>1, DeploymentAssumption DEF BusyOK, Busy, Promoting, CallOK
  <1>3. ~HoldActive(ledger)'
    BY <1>1, <1>2 DEF HoldActive, MidiAliveOn
  <1>4. OneSound(c)
    BY <1>0, PromoteIsSound
  <1>5. CASE Return(c) /\ UNCHANGED records
    BY <1>2, <1>4, <1>5, ReturnTurn, BusyTurn, SameRecords
  <1>6. CASE Judge(c) /\ Goto(c, "target")
    <2>1. call'[c].step = "target" /\ call'[c].copy = ledger
      BY <1>0, <1>2, <1>6 DEF Goto, Call
    <2>2. ledger.phase = "candidate"
      <3>1. ~AlreadyPromoted(ledger)
        <4>1. call[c].step = "judge" /\ call'[c].step # "idle"
          BY <1>6, <2>1 DEF Judge, At
        <4>2. Return(c) => call'[c].step = "idle"
          BY <1>0, IdleIsACall DEF Return
        <4> QED
          BY <1>2, <1>6, <4>1, <4>2 DEF Judge
      <3>2. ledger.phase # "candidate" => AlreadyPromoted(ledger)
        BY <1>0 DEF Sound, Truthful, Pointed, AlreadyPromoted
      <3> QED
        BY <3>1, <3>2
    <2>3. BusyOK(call[c])'
      BY <1>1, <1>3, <2>1, <2>2 DEF BusyOK, Promoting
    <2> QED
      BY <1>2, <1>4, <1>6, <2>3, BusyTurn, SameRecords DEF Judge
  <1>7. CASE FindTarget(c) /\ Goto(c, "flip")
    <2>1. call'[c].step = "flip" /\ call'[c].copy = ledger
      BY <1>0, <1>2, <1>7 DEF Goto, Call
    <2>2. ledger.phase = "candidate"
      BY <1>0, <1>7 DEF BusyOK, FindTarget, At
    <2>3. ledger.candidate \in dirs
      BY <1>0, <1>2 DEF Pointed
    <2>4. BusyOK(call[c])'
      BY <1>1, <1>3, <2>1, <2>2, <2>3 DEF BusyOK, Promoting
    <2> QED
      BY <1>2, <1>4, <1>7, <2>4, BusyTurn, SameRecords DEF FindTarget
  <1>8. CASE Flip(c)
    <2>1. call'[c].step = "publish" /\ call'[c].copy = ledger
      BY <1>0, <1>2, <1>8 DEF Flip, Goto, Call
    <2>2. /\ ledger.phase = "candidate" /\ ledger.candidate \in dirs
          /\ current' = ledger.candidate
      BY <1>0, <1>2, <1>8 DEF BusyOK, Flip, At
    <2>3. BusyOK(call[c])'
      BY <1>1, <1>3, <2>1, <2>2 DEF BusyOK, Promoting
    <2>4. Pointed' /\ Truthful(ledger)'
      BY <1>0, <1>1, <2>2 DEF Pointed, Truthful
    <2> QED
      BY <1>2, <1>4, <2>3, <2>4, BusyTurn
  <1>9. CASE Publish(c) /\ Edit(c, Promoted(call[c].copy))
    <2>1. /\ ledger.phase = "candidate" /\ current = ledger.candidate
          /\ current' = current
      BY <1>0, <1>9 DEF BusyOK, Publish, At
    <2>2. current \in dirs
      BY <1>0, <1>2, <2>1 DEF Pointed
    <2>3. published' = ledger.candidate
      BY <1>2, <1>9, <2>2 DEF Publish
    <2>4. PICK l : l = Promoted(ledger)
      OBVIOUS
    <2>5. l.promoted = ledger.candidate /\ l.candidate = ledger.candidate
      BY <1>0, <2>4 DEF Promoted, Ledger
    <2>6. Truthful(l)'
      BY <2>1, <2>3, <2>5 DEF Truthful
    <2>7. BusyOK(call[c])'
      BY <1>1, <1>2, <1>9, <2>4, <2>5, <2>6, EditTurn
    <2>8. Pointed' /\ Truthful(ledger)'
      BY <1>0, <1>1, <2>1 DEF Pointed, Truthful
    <2> QED
      BY <1>2, <1>4, <2>7, <2>8, BusyTurn
  <1>10. CASE Publish(c) /\ current \notin dirs
    BY <1>5, <1>10 DEF Publish, records
  <1> QED
    BY <1>5, <1>6, <1>7, <1>8, <1>9, <1>10
       DEF Promote, Judge, FindTarget, Publish, records

\* gc: between its check and the removal only actors move, and those start on
\* what it would not collect.
LEMMA AloneCollect ==
    ASSUME Alone, NEW c \in Client, Collect(c)
    PROVE  OneBusy' /\ Turns' /\ Pointed' /\ Truthful(ledger)'
  <1>0. /\ ledger \in Ledger /\ Truthful(ledger) /\ call[c] \in Call /\ Safe
        /\ call \in [Client -> Call] /\ BusyOK(call[c]) /\ Pointed
        /\ dirs \subseteq Generation
    BY DEF Alone, Safe, TypeOK, Turns
  <1>1. /\ call[c].step \in {"check", "remove"} /\ call[c].copy = ledger
        /\ current' = current /\ published' = published
        /\ ledger' = ledger /\ running' = running
    BY <1>0 DEF Collect, Check, Remove, At, records, BusyOK
  <1>2. OneSound(c) /\ Busy(c)
    BY <1>0, <1>1, CollectIsSound DEF Busy
  <1>3. CASE Return(c) /\ UNCHANGED records
    BY <1>2, <1>3, ReturnTurn, BusyTurn, SameRecords
  <1>4. CASE Check(c) /\ Goto(c, "remove") /\ ~Return(c)
    <2>1. /\ call'[c].step = "remove" /\ call'[c].copy = ledger
          /\ call'[c].generation = call[c].generation
      BY <1>0, <1>1, <1>4 DEF Goto, Call
    <2>2. call[c].generation \in dirs /\ ~Retained(call[c].generation, ledger)
      BY <1>1, <1>4 DEF Check
    <2>3. /\ call[c].generation \in dirs \ {current, published, ledger.candidate}
          /\ \A a \in Actor : running[a] # call[c].generation
                              /\ ledger.rows[a] # call[c].generation
      BY <1>0, <2>2, DeploymentAssumption DEF Retained
    <2>4. dirs' = dirs
      BY <1>4 DEF Check, records
    <2>5. BusyOK(call[c])'
      BY <1>1, <2>1, <2>3, <2>4 DEF BusyOK, Promoting
    <2> QED
      BY <1>2, <1>4, <2>5, BusyTurn, SameRecords DEF Check
  <1>5. CASE Remove(c) /\ Edit(c, Converged(call[c].copy))
    <2>1. call[c].generation # current /\ call[c].generation # ledger.candidate
      BY <1>0, <1>5 DEF BusyOK, Remove, At
    <2>2. dirs' = dirs \ {call[c].generation}
      BY <1>5 DEF Remove
    <2>3. Pointed' /\ Truthful(ledger)'
      BY <1>0, <1>1, <2>1, <2>2 DEF Pointed, Truthful
    <2>4. PICK l : l = Converged(ledger)
      OBVIOUS
    <2>5. Truthful(l) /\ l.candidate = ledger.candidate
      BY <1>0, <2>4, EditsAreTruthful DEF Ledger
    <2>6. BusyOK(call[c])'
      BY <1>1, <1>5, <2>4, <2>5, EditTurn DEF Truthful
    <2> QED
      BY <1>2, <2>3, <2>6, BusyTurn
  <1>6. CASE Remove(c) /\ Return(c)
    <2>1. call[c].generation \notin dirs \/ call'[c].step = "write"
      <3>1. Edit(c, Converged(ledger)) =>
              call'[c] = [Idle EXCEPT !.step = "write", !.copy = Converged(ledger)]
        BY <1>0 DEF Edit, Hold
      <3>2. [Idle EXCEPT !.step = "write", !.copy = Converged(ledger)].step = "write"
        BY IdleIsACall DEF Call
      <3> QED
        BY <1>1, <1>6, <3>1, <3>2 DEF Remove
    <2>2. call'[c].step = "idle"
      BY <1>0, <1>6, IdleIsACall DEF Return
    <2>3. dirs' = dirs
      BY <1>6, <2>1, <2>2 DEF Remove
    <2> QED
      BY <1>1, <1>3, <1>6, <2>3 DEF records
  <1> QED
    BY <1>3, <1>4, <1>5, <1>6 DEF Collect, Check, Remove, records

LEMMA AloneComposing ==
    ASSUME Alone, ~Overlap, NEW c \in Client, Composing(c)
    PROVE  OneBusy' /\ Turns' /\ Pointed' /\ Truthful(ledger)'
  <1>0. /\ call[c] \in Call /\ Safe /\ call \in [Client -> Call] /\ BusyOK(call[c])
        /\ Pointed /\ Truthful(ledger)
    BY DEF Alone, Safe, TypeOK, Turns
  <1>1. OneSound(c)
    BY <1>0, ComposingIsSound
  <1>2. CASE Compose(c)
    <2>1. \E g : call' = [call EXCEPT ![c] = [Idle EXCEPT !.step = "build",
                                                          !.verb = "compose",
                                                          !.generation = g]]
      BY <1>2 DEF Compose
    <2>2. call'[c].step = "build"
      BY <1>0, <2>1, IdleIsACall DEF Call
    <2>3. BusyOK(call[c])'
      BY <2>2 DEF BusyOK, Promoting
    <2> QED
      BY <1>1, <1>2, <2>3, FirstTurn, SameRecords DEF Compose, MayBegin
  <1>3. CASE Build(c) /\ Goto(c, "payload") /\ ~Return(c)
    <2>1. /\ call'[c].step = "payload" /\ call'[c].generation = call[c].generation
          /\ Busy(c)
      BY <1>0, <1>3 DEF Build, Goto, Call, Busy, At
    <2>2. /\ dirs' = dirs \union {call[c].generation}
          /\ current' = current /\ published' = published /\ ledger' = ledger
      BY <1>3 DEF Build
    <2>3. BusyOK(call[c])'
      BY <2>1, <2>2 DEF BusyOK, Promoting
    <2>4. Pointed' /\ Truthful(ledger)'
      BY <1>0, <2>2 DEF Pointed, Truthful
    <2> QED
      BY <1>1, <2>1, <2>3, <2>4, BusyTurn
  <1>4. CASE Payload(c)
    <2>1. Busy(c) /\ UNCHANGED records /\ dirs' = dirs
      BY <1>4 DEF Payload, Busy, At, records
    <2>2. CASE call[c].generation \in dirs /\ Goto(c, "load")
      <3>1. call'[c].step = "load" /\ call'[c].generation \in dirs
        BY <1>0, <2>2 DEF Goto, Call
      <3>2. BusyOK(call[c])'
        BY <2>1, <3>1 DEF BusyOK, Promoting
      <3> QED
        BY <1>1, <2>1, <3>2, BusyTurn, SameRecords
    <2>3. CASE Return(c)
      BY <1>1, <2>1, <2>3, ReturnTurn, BusyTurn, SameRecords
    <2> QED
      BY <1>4, <2>2, <2>3 DEF Payload
  <1>5. CASE Build(c) /\ Return(c) /\ UNCHANGED records
    <2>1. Busy(c)
      BY <1>5 DEF Build, Busy, At
    <2> QED
      BY <1>1, <1>5, <2>1, ReturnTurn, BusyTurn, SameRecords
  <1>6. ASSUME Build(c), ~(Return(c) /\ UNCHANGED records)
        PROVE  Goto(c, "payload") /\ ~Return(c)
    <2>1. Goto(c, "payload") => ~Return(c)
      <3>1. Goto(c, "payload") => call'[c].step = "payload"
        BY <1>0 DEF Goto, Call
      <3>2. Return(c) => call'[c].step = "idle"
        BY <1>0, IdleIsACall DEF Return
      <3> QED
        BY <3>1, <3>2
    <2> QED
      BY <1>6, <2>1 DEF Build, records
  <1> QED
    BY <1>2, <1>3, <1>4, <1>5, <1>6 DEF Composing

LEMMA AloneActor ==
    ASSUME Alone, NEW b \in Actor, Start(b) \/ Stop(b)
    PROVE  OneBusy' /\ Turns' /\ Pointed' /\ Truthful(ledger)'
  <1>0. /\ call' = call /\ dirs' = dirs /\ current' = current
        /\ published' = published /\ ledger' = ledger
    BY DEF Start, Stop, records
  <1>1. \A a \in Actor : running'[a] \in {running[a], current, ledger.candidate, None}
    BY DEF Start, Stop, StartsOn, Alone, Safe, TypeOK
  <1>2. ASSUME NEW e \in Client
        PROVE  BusyOK(call[e])'
    <2>1. PICK k : k = call[e]
      OBVIOUS
    <2>2. BusyOK(k)
      BY <2>1 DEF Alone, Turns
    <2>3. None \notin dirs
      BY DeploymentAssumption DEF Alone, Safe, TypeOK
    <2>4. k.step = "remove" => \A a \in Actor : running'[a] # k.generation
      BY <1>1, <2>2, <2>3 DEF BusyOK
    <2>5. BusyOK(k)'
      BY <1>0, <2>2, <2>4 DEF BusyOK, HoldActive, MidiAliveOn, Truthful
    <2> QED
      BY <1>0, <2>1, <2>5
  <1>3. OneBusy'
    BY <1>0 DEF Alone, OneBusy, Busy
  <1> QED
    BY <1>0, <1>2, <1>3 DEF Turns, Alone, Pointed, Truthful

LEMMA AloneStep ==
    ASSUME Alone, ~Overlap, [Next]_vars
    PROVE  Alone'
  <1>0. Safe'
    BY SafeStep DEF Alone
  <1>1. CASE UNCHANGED vars
    <2>1. \A e \in Client : BusyOK(call[e]) => BusyOK(call[e])'
      <3>1. /\ call' = call /\ dirs' = dirs /\ current' = current
            /\ published' = published /\ ledger' = ledger /\ running' = running
        BY <1>1 DEF vars, records
      <3> SUFFICES ASSUME NEW e \in Client, BusyOK(call[e])
                   PROVE  BusyOK(call[e])'
        OBVIOUS
      <3>2. PICK k : k = call[e]
        OBVIOUS
      <3>3. BusyOK(k)'
        BY <3>1, <3>2 DEF BusyOK, HoldActive, MidiAliveOn, Truthful
      <3> QED
        BY <3>1, <3>2, <3>3
    <2>2. OneBusy' /\ Pointed' /\ Truthful(ledger)'
      BY <1>1 DEF Alone, OneBusy, Busy, Pointed, Truthful, vars, records
    <2> QED
      BY <1>0, <2>1, <2>2 DEF Alone, Turns, vars
  <1>2. CASE Next
    BY <1>0, <1>2, AlonePlan, AloneApply, AlonePromote, AloneCollect, AloneComposing,
       AloneLoad, AloneWrite, AloneKill, AloneActor
       DEF Next, Verb, Step, Client, Alone
  <1> QED
    BY <1>1, <1>2

\* If verbs and composes do not overlap: wherever a verb is killed, a ledger that
\* calls its candidate rolled out has the link and the published pointer on it.
THEOREM RolloutStaysLive ==
    ASSUME ~Overlap
    PROVE  Spec => []RolloutIsLive
  <1>1. Init => Alone
    BY AloneInit
  <1>2. Alone /\ [Next]_vars => Alone'
    BY AloneStep
  <1>3. Alone => RolloutIsLive
    BY DEF Alone, Truthful, RolloutIsLive
  <1> QED
    BY <1>1, <1>2, <1>3, PTL DEF Spec

\* The published pointer moves in one step only, of a client that holds the ledger.
LEMMA LiveByPublish ==
    ASSUME Alone, [Next]_vars, published' # published
    PROVE  /\ ~HoldActive(ledger) /\ ledger.candidate \in dirs
           /\ published' = ledger.candidate
           /\ dirs' = dirs /\ ledger' = ledger
  <1>1. PICK c \in Client : Publish(c)
    BY DEF Next, Verb, Step, Client, Plan, PlanAck, PlanOccupancy, PlanGc, Apply,
       Promote, Judge, FindTarget, Flip, Collect, Check, Remove, Composing, Compose,
       Build, Payload, Load, Write, Kill, Start, Stop, vars, records
  <1>2. BusyOK(call[c])
    BY DEF Alone, Turns
  <1> QED
    BY <1>1, <1>2 DEF BusyOK, Promoting, Publish, At

\* A directory goes in one step only, of a gc that checked it.
LEMMA GoneByRemove ==
    ASSUME Alone, [Next]_vars, dirs \ dirs' # {}
    PROVE  \E c \in Client :
              /\ Remove(c)
              /\ dirs' = dirs \ {call[c].generation}
              /\ call[c].generation \in dirs \ {current, published, ledger.candidate}
              /\ \A a \in Actor : running[a] # call[c].generation
                                  /\ ledger.rows[a] # call[c].generation
  <1>1. PICK c \in Client : Remove(c)
    BY DEF Next, Verb, Step, Client, Plan, PlanAck, PlanOccupancy, PlanGc, Apply,
       Promote, Judge, FindTarget, Flip, Publish, Collect, Check, Composing, Compose,
       Build, Payload, Load, Write, Kill, Start, Stop, vars, records
  <1>2. BusyOK(call[c])
    BY DEF Alone, Turns
  <1> QED
    BY <1>1, <1>2 DEF BusyOK, Remove, At

\* recovery_hold_active, if verbs and composes do not overlap: nothing goes live
\* between a failed canary and midi's return.
THEOREM HoldHolds ==
    ASSUME ~Overlap
    PROVE  Spec => NothingGoesLiveOnHold
  <1>1. Init => Alone
    BY AloneInit
  <1>2. Alone /\ [Next]_vars => Alone'
    BY AloneStep
  <1>3. Alone /\ [Next]_vars => [published' # published => ~HoldActive(ledger)]_vars
    BY LiveByPublish
  <1> QED
    BY <1>1, <1>2, <1>3, PTL DEF Spec, NothingGoesLiveOnHold

\* apply_deploy_gc, if verbs and composes do not overlap but actors move freely:
\* only what nothing refers to and nothing executes is removed.
THEOREM GarbageOnly ==
    ASSUME ~Overlap
    PROVE  Spec => OnlyGarbageIsCollected
  <1>1. Init => Alone
    BY AloneInit
  <1>2. Alone /\ [Next]_vars => Alone'
    BY AloneStep
  <1>3. Alone /\ [Next]_vars =>
           [\A g \in dirs \ dirs' :
               /\ g \notin {current, published, ledger.candidate}
               /\ \A a \in Actor : running[a] # g /\ ledger.rows[a] # g]_vars
    BY GoneByRemove
  <1> QED
    BY <1>1, <1>2, <1>3, PTL DEF Spec, OnlyGarbageIsCollected

LEMMA LedgerByWrite ==
    ASSUME Alone, [Next]_vars, ledger' # ledger
    PROVE  /\ ledger'.candidate = ledger.candidate \/ ledger'.candidate \in dirs
           /\ dirs' = dirs /\ published' = published
  <1>1. PICK c \in Client : Write(c)
    BY DEF Next, Verb, Step, Client, Plan, PlanAck, PlanOccupancy, PlanGc, Apply,
       Promote, Judge, FindTarget, Flip, Publish, Collect, Check, Remove, Composing,
       Compose, Build, Payload, Load, Kill, Start, Stop, vars, records
  <1>2. BusyOK(call[c])
    BY DEF Alone, Turns
  <1> QED
    BY <1>1, <1>2 DEF BusyOK, Write, At

LEMMA DirByBuild ==
    ASSUME Alone, [Next]_vars, dirs' \ dirs # {}
    PROVE  \E g \in Generation :
              dirs' = dirs \union {g} /\ ledger' = ledger /\ published' = published
  <1>1. PICK c \in Client : Build(c)
    BY DEF Next, Verb, Step, Client, Plan, PlanAck, PlanOccupancy, PlanGc, Apply,
       Promote, Judge, FindTarget, Flip, Publish, Collect, Check, Remove, Composing,
       Compose, Payload, Load, Write, Kill, Start, Stop, vars, records
  <1>2. call[c].generation \in Generation
    BY <1>1 DEF Build, At, Alone, Safe, TypeOK, Carried, CallOK, Call, GenerationOrNone
  <1> QED
    BY <1>1, <1>2 DEF Build

\* If verbs and composes do not overlap, three records, killed verbs and all,
\* implement the one-record staged deployment.
THEOREM DeploymentIsStaged ==
    ASSUME ~Overlap
    PROVE  Spec => DeploysInStages
  <1>1. Init => Alone
    BY AloneInit
  <1>2. Alone /\ [Next]_vars => Alone'
    BY AloneStep
  <1>3. Init => Stages!Init
    BY DEF Init, Stages!Init, NoLedger, GenerationOrNone
  <1>4. Alone /\ [Next]_vars => [Stages!Next]_(Stages!vars)
    <2> SUFFICES ASSUME Alone, [Next]_vars, ~UNCHANGED Stages!vars
                 PROVE  Stages!Next
      OBVIOUS
    <2>0. dirs \subseteq Generation
      BY DEF Alone, Safe, TypeOK
    <2>1. CASE published' # published
      <3>1. Stages!GoLive
        BY <2>1, LiveByPublish DEF Stages!GoLive
      <3> QED
        BY <3>1 DEF Stages!Next
    <2>2. CASE dirs \ dirs' # {}
      <3>1. PICK c \in Client :
              /\ Remove(c)
              /\ dirs' = dirs \ {call[c].generation}
              /\ call[c].generation \in dirs \ {current, published, ledger.candidate}
        BY <2>2, GoneByRemove
      <3>2. Stages!Collect(call[c].generation)
        BY <3>1 DEF Remove, Stages!Collect
      <3> QED
        BY <2>0, <3>1, <3>2 DEF Stages!Next
    <2>3. CASE dirs' \ dirs # {}
      <3>1. PICK g \in Generation :
              dirs' = dirs \union {g} /\ ledger' = ledger /\ published' = published
        BY <2>3, DirByBuild
      <3> QED
        BY <3>1 DEF Stages!Next, Stages!Build
    <2>4. CASE dirs' = dirs /\ published' = published
      <3>1. ledger' # ledger /\ ledger'.candidate # ledger.candidate
        BY <2>4 DEF Stages!vars
      <3>2. Stages!Offer(ledger'.candidate)
        BY <2>4, <3>1, LedgerByWrite DEF Stages!Offer
      <3>3. ledger'.candidate \in Generation
        BY <2>0, <3>1, LedgerByWrite
      <3> QED
        BY <3>2, <3>3 DEF Stages!Next
    <2>5. dirs' = dirs \/ dirs \ dirs' # {} \/ dirs' \ dirs # {}
      BY <1>2, <2>0 DEF Alone, Safe, TypeOK
    <2> QED
      BY <2>1, <2>2, <2>3, <2>4, <2>5
  <1> QED
    BY <1>1, <1>2, <1>3, <1>4, PTL DEF Spec, DeploysInStages, Stages!Spec
=============================================================================
