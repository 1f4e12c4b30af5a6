------------------------------- MODULE Roles -------------------------------
(***************************************************************************)
(* Who takes part in a diagnosis, and what the supervisor may decide: the  *)
(* names that agents sign the log with.                                    *)
(***************************************************************************)

Specialists == {"log_analyst", "metrics_analyst", "runbook_executor"}
Guardrails == {"circuit_breaker", "sanitizer"}
Agents == Specialists \cup Guardrails \cup {"supervisor"}
RouteTargets == Specialists \cup {"synthesize"}
=============================================================================
