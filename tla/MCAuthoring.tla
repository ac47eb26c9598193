----------------------------- MODULE MCAuthoring -----------------------------
(* An operation of each kind, and arguments with the characters that are quoted or *)
(* escaped, but quotation marks.                                                    *)
EXTENDS Authoring

CONSTANTS a1, a2

\* Every two characters next to each other in one argument, every one by itself.
MCWords ==
    <<<<"a", "a", " ", "a", "\\", "a", "$", "a", "%", " ", " ", "\\", " ",
        "$", " ", "%", "\\", "\\", "$", "\\", "%", "$", "$", "%", "%", "a">>,
      <<" ">>, <<"\\">>, <<"$">>, <<"%">>, <<"\\", "\\">>, <<"%", "%">>>>

MCChar == {"a", "b", "v", "/", " ", "\"", "'", "\\", "$", "%", "=", ":"}
MCName == {"PATH", "K", "u.service", Network, "t", "s", "unit", "no", "always", "1min", "2min", "daily"}

MCPrograms == {<<"/", "b">>, <<"/", " ">>}
MCPlain == <<<<"/", "b">>>>
MCBase == [kind |-> "oneshot", title |-> None, description |-> None, exec |-> MCPlain,
           env |-> <<>>, path |-> <<>>, after |-> <<>>, network |-> FALSE, restart |-> None,
           schedule |-> None, enabled |-> TRUE]
MCInterval == [type |-> "interval", boot |-> "1min", active |-> None, inactive |-> "2min", persistent |-> TRUE]
MCCalendar == [type |-> "calendar", calendar |-> "daily", persistent |-> FALSE]

MCSpecs ==
    {[MCBase EXCEPT !.exec = @ \o MCWords],
     [MCBase EXCEPT !.kind = "simple", !.restart = "no", !.enabled = FALSE,
                         !.after = <<"u.service", Network>>],
     [MCBase EXCEPT !.kind = "oneshot-linger", !.title = "t", !.network = TRUE,
                         !.path = <<<<"/">>, <<"/", " ", "a">>>>],
     [MCBase EXCEPT !.schedule = MCCalendar, !.enabled = FALSE,
                         !.exec = <<<<"/", " ">>, <<"'">>, <<"%", "%">>, <<"\\", " ">>>>],
     [MCBase EXCEPT !.schedule = MCInterval, !.enabled = None,
                         !.path = <<<<"/", "b">>>>, !.env = <<[key |-> "K", value |-> <<"v">>]>>]}

MCEdits ==
    {[title |-> "s"], [kind |-> "simple"], [kind |-> "oneshot-linger"],
     [exec |-> <<<<"/", "b">>, <<"$", " ", "a">>, <<"%">>>>], [network |-> TRUE],
     [exec |-> <<<<"/", "a">>>>], [path |-> <<<<"/">>, <<"a">>>>],
     [env |-> <<[key |-> "K", value |-> <<"v">>]>>],
     [schedule |-> MCCalendar], [schedule |-> MCInterval, enabled |-> FALSE],
     [schedule |-> None], [restart |-> "always"]}

MCSymmetry == Permutations(Agent)
=============================================================================
