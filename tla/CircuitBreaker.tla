--------------------------- MODULE CircuitBreaker ---------------------------
(***************************************************************************)
(* The guardrail of src/incident_copilot/guardrails/circuit_breaker.py: a  *)
(* pure function of the shared graph state.                                *)
(***************************************************************************)
EXTENDS Trajectory, FiniteSets

CONSTANTS
  MaxAgentIterations,  \* Settings.max_agent_iterations (15)
  MaxTotalTokens,      \* Settings.max_total_tokens (200 000)
  AgentTimeout         \* Settings.agent_timeout_seconds (300)

\* Settings are plain integers; zero is legal and trips at once.
ASSUME LimitsAssumption ==
  /\ MaxAgentIterations \in Nat
  /\ MaxTotalTokens \in Nat
  /\ AgentTimeout \in Nat

-----------------------------------------------------------------------------

RepeatedRouteWindow == 3

\* Where the last n routing decisions are, or all of them if there are fewer.
LastRoutes(trajectory, n) ==
  {i \in RouteSteps(trajectory) :
     Cardinality({j \in RouteSteps(trajectory) : j > i}) < n}

\* Mutant: asks for one more identical decision than the window holds.
RepeatedRouteTooLate(trajectory) ==
  LET window == RepeatedRouteWindow + 1 IN
  /\ Cardinality(RouteSteps(trajectory)) >= window
  /\ \A i, j \in LastRoutes(trajectory, window) :
        trajectory[i].detail = trajectory[j].detail

\* _repeated_route: the last three routing decisions name the same target.
RepeatedRoute(trajectory) ==
  /\ Cardinality(RouteSteps(trajectory)) >= RepeatedRouteWindow
  /\ \A i, j \in LastRoutes(trajectory, RepeatedRouteWindow) :
        trajectory[i].detail = trajectory[j].detail

\* Mutant: > for >= on the iterations.
TripReasonOffByOne(iterations, tokens, elapsed, trajectory) ==
  IF iterations > MaxAgentIterations THEN "max_iterations"
  ELSE IF tokens >= MaxTotalTokens THEN "token_budget"
  ELSE IF elapsed >= AgentTimeout THEN "timeout"
  ELSE IF RepeatedRoute(trajectory) THEN "repeated_route"
  ELSE "none"

\* Mutant: the token budget is never read.
TripReasonNoBudget(iterations, tokens, elapsed, trajectory) ==
  IF iterations >= MaxAgentIterations THEN "max_iterations"
  ELSE IF elapsed >= AgentTimeout THEN "timeout"
  ELSE IF RepeatedRoute(trajectory) THEN "repeated_route"
  ELSE "none"

\* check(state, settings): the first limit hit, in the code's order, or "none".
TripReason(iterations, tokens, elapsed, trajectory) ==
  IF iterations >= MaxAgentIterations THEN "max_iterations"
  ELSE IF tokens >= MaxTotalTokens THEN "token_budget"
  ELSE IF elapsed >= AgentTimeout THEN "timeout"
  ELSE IF RepeatedRoute(trajectory) THEN "repeated_route"
  ELSE "none"
=============================================================================
