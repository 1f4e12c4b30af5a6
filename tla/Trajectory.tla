----------------------------- MODULE Trajectory -----------------------------
(***************************************************************************)
(* The vocabulary of GraphState.trajectory (agents/state.py), the log that *)
(* the supervisor, the specialists, the circuit breaker and the sanitizer  *)
(* append to, and that the breaker and the supervisor read back.           *)
(***************************************************************************)
EXTENDS Roles, Integers, Sequences

CONSTANT
  Tools   \* the names a model may call tools by, whether a server has such a tool or not

TripReasons == {"max_iterations", "token_budget", "timeout", "repeated_route"}
TurnActionNames == {"tool_call", "validation_error"}
EntryActions ==
  TurnActionNames \cup {"route", "trip", "sanitized", "incomplete_synthesis"}

\* The detail is kept where the program reads it back (the route, the name of the
\* tool) or a property speaks of it (the reason of a trip); elsewhere it is "none".
Details == RouteTargets \cup TripReasons \cup {"none"}

\* Entries of a specialist's calls name a tool; the others never do.
TrajectoryEntry ==
  [step : Nat, agent : Agents, action : TurnActionNames, detail : Tools]
    \cup [step : Nat, agent : Agents, action : EntryActions \ TurnActionNames,
          detail : Details]

Entry(step, agent, action, detail) ==
  [step |-> step, agent |-> agent, action |-> action, detail |-> detail]

IsRoute(e) == e.agent = "supervisor" /\ e.action = "route"
IsTrip(e) == e.agent = "circuit_breaker" /\ e.action = "trip"

\* Where the log has the supervisor's routing decisions.
RouteSteps(trajectory) == {i \in DOMAIN trajectory : IsRoute(trajectory[i])}
=============================================================================
