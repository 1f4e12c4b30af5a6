--------------------------- MODULE MCEvalHarness ---------------------------
EXTENDS EvalHarness

File(name, loads) == [name |-> name, loads |-> loads]
SmallDirectories ==
  {<<>>, <<File("s1", TRUE), File("s2", TRUE)>>, <<File("s1", TRUE), File("s2", FALSE)>>}

\* Two replays of everything, three of the first scenario, none.
AllOf  == [everything |-> TRUE, thrice |-> FALSE, never |-> TRUE]
RunsOf == [everything |-> 2, thrice |-> 3, never |-> 0]
GoldOf == [s1 |-> <<"list_pods", "get_events">>, s2 |-> <<"get_alerts", "get_alerts">>]

Calls(tools) == [i \in DOMAIN tools |-> Entry(i, "log_analyst", "tool_call", tools[i])]
Outcome(log, verdict, spent) ==
  [trajectory |-> log, diagnosis |-> verdict, tokens |-> spent]

\* Nothing called; one of the expected tools; a loop, with more than the expected tool
\* and a rejected call.
Idle    == Outcome(<<>>, "wrong", 1)
Partial == Outcome(Calls(<<"list_pods">>), "right", 2)
Looping == Outcome(Calls(<<"get_alerts", "list_pods", "get_alerts">>)
             \o <<Entry(3, "log_analyst", "validation_error", "get_events"),
                  Entry(4, "circuit_breaker", "trip", "repeated_route")>>, "wrong", 4)
OutcomesOf == [s1 |-> {Idle, Partial}, s2 |-> {Looping}]
=============================================================================
