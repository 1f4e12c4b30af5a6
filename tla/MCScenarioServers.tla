------------------------- MODULE MCScenarioServers -------------------------
EXTENDS ScenarioServers

\* Two pods share a name, one has no log; two runbooks share a trigger.
Crash ==
  [name     |-> "s1",
   pods     |-> <<[name |-> "web", namespace |-> "prod", status |-> "CrashLoopBackOff"],
                  [name |-> "web", namespace |-> "data", status |-> "Running"]>>,
   logs     |-> [web |-> <<"l1", "l2", "l3">>],
   events   |-> <<[name |-> "web", namespace |-> "prod"], [name |-> "db", namespace |-> "data"]>>,
   metrics  |-> [restarts |-> <<1, 2>>],
   alerts   |-> <<[name |-> "crash", severity |-> "critical"]>>,
   runbooks |-> <<[name |-> "web", trigger |-> "db", steps |-> <<>>],
                  [name |-> "restart", trigger |-> "db", steps |-> <<"step">>]>>]

\* The same incident resolved: in s2.json it is a copy that was not renamed inside,
\* or one that was.
Resolved ==
  [Crash EXCEPT !.pods = <<[name |-> "db", namespace |-> "data", status |-> "Running"]>>,
                !.logs = [db |-> <<"l4">>], !.events = <<>>, !.alerts = <<>>,
                !.runbooks = <<>>]

Renamed == [Resolved EXCEPT !.name = "s2"]

SmallScenarios == {Crash, Resolved, Renamed}
SmallFiles ==
  {[s1 |-> <<Crash>>, s2 |-> <<Resolved>>], [s1 |-> <<Crash>>, s2 |-> <<Renamed>>]}
SmallEdits == {<<>>, <<Resolved>>}
SmallTails == {-1, 0, 1, 2, 9}
=============================================================================
