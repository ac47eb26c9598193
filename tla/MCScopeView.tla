---------------------------- MODULE MCScopeView ----------------------------
(* An operation c with a running driver, its parent p, which is also the runtime *)
(* integrator and may be gone from systemd, and a watched w.                     *)
EXTENDS ScopeView

CONSTANTS c, p, w, i1, i2

MCOrder == <<p, c, w>>
MCDir == 1..2
MCWorld == {[input |-> i1, generation |-> 1], [input |-> i2, generation |-> None]}
MCScope == [files |-> {"preferred"}, owned |-> {c, p}, critical |-> {p}, watch |-> {w}]
MCManifest == <<[MCScope EXCEPT !.files = {}], MCScope>>

MCUnit == [state |-> "inactive", sub |-> "dead", enabled |-> FALSE, started |-> TRUE,
           result |-> "success"]
MCListed == [state |-> "active", sub |-> "running", enabled |-> TRUE]
MCWaiting == [MCUnit EXCEPT !.state = "active", !.sub = "waiting", !.enabled = TRUE]
MCTimer == [type |-> "oneshot", listed |-> MCListed,
            units |-> [service |-> MCUnit, timer |-> MCWaiting], last |-> TRUE, next |-> TRUE]
MCFailing == [MCTimer EXCEPT !.type = "simple",
                             !.units.service.state = "failed", !.units.service.result = "failure"]
MCUnread == [MCFailing EXCEPT !.type = None]
MCLost == [MCTimer EXCEPT !.units.service = None]
MCNew == [MCTimer EXCEPT !.last = FALSE, !.units.service.started = FALSE]
MCGone == [MCTimer EXCEPT !.units = <<>>, !.type = None]
MCUnasked == [MCTimer EXCEPT !.type = "simple", !.units = [service |-> None]]
MCDown == [MCUnasked EXCEPT !.listed.state = "failed", !.listed.sub = "failed"]
MCLooping == [MCUnasked EXCEPT !.units.service =
                 [MCUnit EXCEPT !.state = "activating", !.sub = "auto-restart", !.enabled = TRUE]]
MCAllWell == [o \in {c, p, w} |-> CASE o = c -> [MCTimer EXCEPT !.next = FALSE]
                                  [] o = p -> MCTimer
                                  [] OTHER -> MCUnasked]
MCAnswer == {MCAllWell, [MCAllWell EXCEPT ![p] = MCGone, ![c] = MCUnread],
             [MCAllWell EXCEPT ![w] = MCDown],
             [MCAllWell EXCEPT ![p] = MCFailing, ![c] = MCLooping],
             [MCAllWell EXCEPT ![p] = MCNew, ![c] = MCLost]}
MCSurface == [o \in {c, p, w} |->
                [stall |-> o = p, candidate |-> IF o = p THEN "candidate" ELSE None,
                 pending |-> o = p, unconsumed |-> o = c]]

MCNothing == [agent |-> TRUE, parent |-> None, readable |-> TRUE, lifecycle |-> "active", observation |-> None,
              processed |-> None, checkpoint |-> None, blocker |-> None, session |-> FALSE]
MCReady == [MCNothing EXCEPT !.observation = [input |-> i1, generation |-> 1],
                             !.checkpoint = [input |-> i1, generation |-> 1, output |-> TRUE]]
MCFiles == {[o \in {c, p, w} |-> CASE o = c -> [MCNothing EXCEPT !.parent = p]
                                   [] o = p -> f
                                   [] OTHER -> MCNothing] :
            f \in {[MCReady EXCEPT !.blocker = [input |-> None]],
                  [MCReady EXCEPT !.parent = c],
                  [MCReady EXCEPT !.readable = FALSE]}}
=============================================================================
