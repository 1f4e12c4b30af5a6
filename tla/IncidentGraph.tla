--------------------------- MODULE IncidentGraph ---------------------------
(***************************************************************************)
(* One diagnosis as the compiled LangGraph of agents/graph.py runs it: the *)
(* supervisor node and its conditional edge, a specialist turn as one step *)
(* (ToolLoop has its interior), synthesis, and the persist node.  Nodes    *)
(* run one at a time; a node's returned dict is merged into the shared     *)
(* state by the reducers of agents/state.py (operator.add on trajectory,   *)
(* findings, tokens and iteration_count).  An exception in a node ends the *)
(* run: no node of the graph catches one.                                  *)
(***************************************************************************)
EXTENDS CircuitBreaker, FiniteSets, SequencesExt

CONSTANTS
  TurnActions,    \* what a specialist turn may log: sequences of calls
  TurnUsage,      \* tokens a specialist turn may report
  Usage,          \* tokens one supervisor or synthesis completion may report
  MaxElapsed,     \* bound on the clock
  WithStore,      \* build_graph was given a MemoryStore
  InitialStores   \* what the incident memory may hold for this scenario

Diagnoses == {"complete", "incomplete"}
IncidentRecord == [diagnosis : Diagnoses, findings : Seq(Specialists)]
LoggedCall == [action : TurnActionNames, detail : Tools]

ASSUME GraphAssumption ==
  /\ TurnActions \subseteq Seq(LoggedCall)
  /\ TurnUsage \subseteq Nat
  /\ Usage \subseteq Nat
  /\ MaxElapsed \in Nat
  /\ WithStore \in BOOLEAN
  /\ InitialStores \subseteq Seq(IncidentRecord)

VARIABLES
  pc,               \* the node that runs next, or the stage a node has reached
  trajectory,       \* GraphState.trajectory
  findings,         \* GraphState.findings, as the agents they come from
  tokens,           \* GraphState.input_tokens + output_tokens
  iteration_count,  \* GraphState.iteration_count
  next_agent,       \* GraphState.next_agent
  diagnosis,        \* GraphState.diagnosis
  elapsed,          \* time.monotonic() - start_time
  store,            \* rows of the incidents table for this scenario, by resolved_at
  prompt,           \* what the supervisor's pending completion was told
  overruns          \* history: specialist turns started past the budget or timeout

vars == <<pc, trajectory, findings, tokens, iteration_count, next_agent,
          diagnosis, elapsed, store, prompt, overruns>>

PriorLimit == 2

Prompts == [prior : 0..PriorLimit, consulted : SUBSET Agents, findings : Nat]
NoPrompt == [prior |-> 0, consulted |-> {}, findings |-> 0]

Stages == {"supervisor", "routing", "synthesis", "persist", "end", "raised"}
            \cup Specialists
Halted == pc \in {"end", "raised"}

-----------------------------------------------------------------------------
\* Helpers of the supervisor and of the specialists.

\* Mutant: the supervisor's own entries count.
AgentsConsultedAll(log) == {log[i].agent : i \in DOMAIN log}

\* _agents_consulted: whoever signed an entry, the supervisor aside.
AgentsConsulted(log) == {log[i].agent : i \in DOMAIN log} \ {"supervisor"}

\* find_similar(name, limit=2): how many past diagnoses the prompt quotes.
PriorContext ==
  IF WithStore /\ trajectory = <<>>
  THEN IF Len(store) < PriorLimit THEN Len(store) ELSE PriorLimit
  ELSE 0

\* Mutant: a reply that names no route yields no route.
ParseRoutingNoDefault(mentioned) ==
  IF "log_analyst" \in mentioned THEN "log_analyst"
  ELSE IF "metrics_analyst" \in mentioned THEN "metrics_analyst"
  ELSE IF "runbook_executor" \in mentioned THEN "runbook_executor"
  ELSE IF "synthesize" \in mentioned THEN "synthesize" ELSE "none"

\* _parse_routing: the first route, in this order, that the reply contains.
ParseRouting(mentioned) ==
  IF "log_analyst" \in mentioned THEN "log_analyst"
  ELSE IF "metrics_analyst" \in mentioned THEN "metrics_analyst"
  ELSE IF "runbook_executor" \in mentioned THEN "runbook_executor"
  ELSE "synthesize"

\* Mutant: the edge skips the synthesis node.
NodeOfSkipsSynthesis(target) == IF target = "synthesize" THEN "persist" ELSE target

\* The conditional edge out of the supervisor.
NodeOf(target) == IF target = "synthesize" THEN "synthesis" ELSE target

\* Mutant: numbers a turn's entries from one.
CallEntriesFromOne(base, agent, acts) ==
  [i \in 1..Len(acts) |-> Entry(base + i, agent, acts[i].action, acts[i].detail)]

\* The entries a specialist turn returns, numbered from the base step it read.
CallEntries(base, agent, acts) ==
  [i \in 1..Len(acts) |->
     Entry(base + i - 1, agent, acts[i].action, acts[i].detail)]

Flag(action) == [action |-> action, detail |-> "none"]

\* Past a limit that only the supervisor checks.
OverLimit(spent) == spent >= MaxTotalTokens \/ elapsed >= AgentTimeout

-----------------------------------------------------------------------------

Init ==
  /\ pc = "supervisor"
  /\ trajectory = <<>>
  /\ findings = <<>>
  /\ tokens = 0
  /\ iteration_count = 0
  /\ next_agent = "none"
  /\ diagnosis = "none"
  /\ elapsed = 0
  /\ store \in IF WithStore THEN InitialStores ELSE {<<>>}
  /\ prompt = NoPrompt
  /\ overruns = 0

Trip == TripReason(iteration_count, tokens, elapsed, trajectory)

\* Mutant: the trip leaves next_agent alone, and the edge follows the last route.
BreakerTripsKeepsRoute ==
  /\ pc = "supervisor"
  /\ Trip # "none"
  /\ trajectory' = Append(trajectory,
                     Entry(Len(trajectory), "circuit_breaker", "trip", Trip))
  /\ pc' = IF next_agent = "none" THEN "synthesis" ELSE NodeOf(next_agent)
  /\ UNCHANGED <<findings, tokens, iteration_count, next_agent, diagnosis, elapsed,
                 store, prompt, overruns>>

\* The supervisor node when the circuit breaker trips: no completion is asked.
BreakerTrips ==
  /\ pc = "supervisor"
  /\ Trip # "none"
  /\ trajectory' = Append(trajectory,
                     Entry(Len(trajectory), "circuit_breaker", "trip", Trip))
  /\ next_agent' = "synthesize"
  /\ pc' = NodeOf("synthesize")
  /\ UNCHANGED <<findings, tokens, iteration_count, diagnosis, elapsed, store,
                 prompt, overruns>>

\* The supervisor node up to its llm.complete.
AskForRoute ==
  /\ pc = "supervisor"
  /\ Trip = "none"
  /\ prompt' = [prior     |-> PriorContext,
                consulted |-> AgentsConsulted(trajectory),
                findings  |-> Len(findings)]
  /\ pc' = "routing"
  /\ UNCHANGED <<trajectory, findings, tokens, iteration_count, next_agent,
                 diagnosis, elapsed, store, overruns>>

\* The completion comes back: the node returns, and the edge is followed.
Route(mentioned, usage) ==
  LET target == ParseRouting(mentioned) IN
  /\ pc = "routing"
  /\ next_agent' = target
  /\ tokens' = tokens + usage
  /\ trajectory' = Append(trajectory,
                     Entry(Len(trajectory), "supervisor", "route", target))
  /\ pc' = NodeOf(target)
  /\ prompt' = NoPrompt
  /\ overruns' = IF target \in Specialists /\ OverLimit(tokens + usage)
                 THEN overruns + 1 ELSE overruns
  /\ UNCHANGED <<findings, iteration_count, diagnosis, elapsed, store>>

\* Mutant: returns the whole list of findings to a reducer that adds it again.
SpecialistReturnsAll(acts, usage, reports) ==
  /\ pc \in Specialists
  /\ trajectory' = trajectory \o CallEntries(Len(trajectory), pc, acts)
  /\ findings' = findings \o (IF reports THEN Append(findings, pc) ELSE findings)
  /\ tokens' = tokens + usage
  /\ iteration_count' = iteration_count + 1
  /\ pc' = "supervisor"
  /\ UNCHANGED <<next_agent, diagnosis, elapsed, store, prompt, overruns>>

\* Mutant: an empty-handed turn is not counted.
SpecialistReturnsUncounted(acts, usage, reports) ==
  /\ pc \in Specialists
  /\ trajectory' = trajectory \o CallEntries(Len(trajectory), pc, acts)
  /\ findings' = IF reports THEN Append(findings, pc) ELSE findings
  /\ tokens' = tokens + usage
  /\ iteration_count' = iteration_count + (IF reports THEN 1 ELSE 0)
  /\ pc' = "supervisor"
  /\ UNCHANGED <<next_agent, diagnosis, elapsed, store, prompt, overruns>>

\* A specialist node returns: "reports" is whether its last response had text.
SpecialistReturns(acts, usage, reports) ==
  /\ pc \in Specialists
  /\ trajectory' = trajectory \o CallEntries(Len(trajectory), pc, acts)
  /\ findings' = IF reports THEN Append(findings, pc) ELSE findings
  /\ tokens' = tokens + usage
  /\ iteration_count' = iteration_count + 1
  /\ pc' = "supervisor"
  /\ UNCHANGED <<next_agent, diagnosis, elapsed, store, prompt, overruns>>

\* The synthesis node: "hits" is whether sanitize_text changed the reply,
\* "missing" whether validate_synthesis then found a section absent.
Synthesize(hits, missing, usage) ==
  LET flags == (IF hits THEN <<Flag("sanitized")>> ELSE <<>>)
                 \o (IF missing THEN <<Flag("incomplete_synthesis")>> ELSE <<>>)
  IN
  /\ pc = "synthesis"
  /\ diagnosis' = IF missing THEN "incomplete" ELSE "complete"
  /\ tokens' = tokens + usage
  /\ trajectory' = trajectory \o CallEntries(Len(trajectory), "sanitizer", flags)
  /\ pc' = "persist"
  /\ UNCHANGED <<findings, iteration_count, next_agent, elapsed, store, prompt,
                 overruns>>

\* Mutant: only a complete diagnosis is worth saving.
PersistCompleteOnly ==
  /\ pc = "persist"
  /\ store' = IF WithStore /\ diagnosis = "complete"
              THEN Append(store, [diagnosis |-> diagnosis, findings |-> findings])
              ELSE store
  /\ pc' = "end"
  /\ UNCHANGED <<trajectory, findings, tokens, iteration_count, next_agent,
                 diagnosis, elapsed, prompt, overruns>>

\* The persist node; without a store it returns at once.
Persist ==
  /\ pc = "persist"
  /\ store' = IF WithStore /\ diagnosis # "none"
              THEN Append(store, [diagnosis |-> diagnosis, findings |-> findings])
              ELSE store
  /\ pc' = "end"
  /\ UNCHANGED <<trajectory, findings, tokens, iteration_count, next_agent,
                 diagnosis, elapsed, prompt, overruns>>

\* A call a node makes raises: the store's, a completion or the tool loop.
NodeRaises ==
  /\ \/ pc = "supervisor" /\ Trip = "none" /\ WithStore /\ trajectory = <<>>
     \/ pc \in {"routing", "synthesis"} \cup Specialists
     \/ pc = "persist" /\ WithStore
  /\ pc' = "raised"
  /\ prompt' = NoPrompt
  /\ UNCHANGED <<trajectory, findings, tokens, iteration_count, next_agent,
                 diagnosis, elapsed, store, overruns>>

\* Time passes, whatever the graph is doing.
Tick ==
  /\ ~Halted
  /\ elapsed < MaxElapsed
  /\ elapsed' = elapsed + 1
  /\ UNCHANGED <<pc, trajectory, findings, tokens, iteration_count, next_agent,
                 diagnosis, store, prompt, overruns>>

Progress ==
  \/ BreakerTrips
  \/ AskForRoute
  \/ \E mentioned \in SUBSET RouteTargets, usage \in Usage : Route(mentioned, usage)
  \/ \E acts \in TurnActions, usage \in TurnUsage, reports \in BOOLEAN :
        SpecialistReturns(acts, usage, reports)
  \/ \E hits, missing \in BOOLEAN, usage \in Usage : Synthesize(hits, missing, usage)
  \/ Persist
  \/ NodeRaises

Terminated == Halted /\ UNCHANGED vars

Next == Progress \/ Tick \/ Terminated

Spec == Init /\ [][Next]_vars

-----------------------------------------------------------------------------
\* Properties.

TypeOK ==
  /\ pc \in Stages
  /\ trajectory \in Seq(TrajectoryEntry)
  /\ findings \in Seq(Specialists)
  /\ tokens \in Nat
  /\ iteration_count \in Nat
  /\ next_agent \in RouteTargets \cup {"none"}
  /\ diagnosis \in Diagnoses \cup {"none"}
  /\ elapsed \in 0..MaxElapsed
  /\ store \in Seq(IncidentRecord)
  /\ prompt \in Prompts
  /\ overruns \in Nat

\* Every node numbers its entries from the length of the log it was given, and
\* a specialist numbers a whole turn from one reading of it; after the reducers
\* have concatenated everything, entry i still bears step i - 1.
StepsAreContiguous == \A i \in DOMAIN trajectory : trajectory[i].step = i - 1

\* Where the log records a decision to run a specialist.
SpecialistRouteSteps ==
  {i \in DOMAIN trajectory :
     IsRoute(trajectory[i]) /\ trajectory[i].detail \in Specialists}

\* The iteration limit bounds the turns actually run, not just a counter: each
\* route to a specialist is counted once, except one under way or one that raised.
IterationCap ==
  LET routed == Cardinality(SpecialistRouteSteps) IN
  /\ routed <= MaxAgentIterations
  /\ pc \in Specialists => routed = iteration_count + 1
  /\ pc = "raised" => routed \in {iteration_count, iteration_count + 1}
  /\ pc \notin Specialists \cup {"raised"} => routed = iteration_count

\* Where the log records an execution of the supervisor: each leaves one entry.
SupervisorSteps ==
  {i \in DOMAIN trajectory : IsRoute(trajectory[i]) \/ IsTrip(trajectory[i])}

\* LangGraph raises when a run takes more node executions than its limit, which
\* nothing here sets.  With a turn for each decision to run a specialist, synthesis
\* and persist, a diagnosis needs 2 * MaxAgentIterations + 3 at most.
SuperstepBound ==
  Cardinality(SupervisorSteps) + Cardinality(SpecialistRouteSteps) + 2
    <= 2 * MaxAgentIterations + 3

\* Once the breaker has tripped nothing is routed and no specialist runs: only
\* the sanitizer may sign later entries, and the breaker trips once.
TripEndsRouting ==
  \A i \in DOMAIN trajectory : IsTrip(trajectory[i]) =>
    \A j \in DOMAIN trajectory : j > i => trajectory[j].agent = "sanitizer"

\* The stuck-loop guard: no four decisions in a row name the same target.  Among
\* the three before any decision, if there are three, one names another.
NoFourthRepeat ==
  LET routes == RouteSteps(trajectory) IN
  \A i \in routes :
    Cardinality({j \in routes : j < i}) >= RepeatedRouteWindow =>
      \E j \in routes :
        /\ j < i
        /\ Cardinality({k \in routes : j < k /\ k < i}) < RepeatedRouteWindow
        /\ trajectory[j].detail # trajectory[i].detail

\* The budget and the timeout are read before a decision, so the decision itself
\* may cross them: at most one specialist turn starts past either.
OneTurnPastBudget == overruns <= 1

\* Whatever crosses the token budget, what is billed after it is at most one
\* routing decision, one turn and one synthesis.
OvershootBounded ==
  tokens <= MaxTotalTokens + Max(Usage) + Max(TurnUsage) + Max(Usage)

\* The prompt says "already consulted" only of specialists the supervisor did
\* route to: no guardrail's entry ever gets into it, and nothing is invented.
ConsultedWereRouted ==
  prompt.consulted \subseteq {trajectory[i].detail : i \in SpecialistRouteSteps}

\* A finding is reported by a turn that ran: a turn reports one at most, and the
\* i-th finding comes from the i-th decision to run a specialist or a later one.
FindingsFollowTurns ==
  /\ Len(findings) <= iteration_count
  /\ \A i \in DOMAIN findings : \E p \in SpecialistRouteSteps :
       /\ trajectory[p].detail = findings[i]
       /\ Cardinality({q \in SpecialistRouteSteps : q <= p}) >= i

\* A diagnosis that ends has an answer, and with a store that answer is its last
\* record, with the findings it rests on.
EndsWithSavedAnswer ==
  pc = "end" =>
    /\ diagnosis # "none"
    /\ WithStore => /\ store # <<>>
                    /\ Last(store) = [diagnosis |-> diagnosis, findings |-> findings]

\* How many steps the graph has left at most, whatever the model says: three for each
\* turn that may still run, and three to answer and save.
StepsLeft ==
  LET turnsLeft == MaxAgentIterations - iteration_count
  IN  CASE pc = "supervisor"    -> 3 * turnsLeft + 3
        [] pc = "routing"       -> 3 * turnsLeft + 2
        [] pc \in Specialists   -> 3 * turnsLeft + 1
        [] pc = "synthesis"     -> 2
        [] pc = "persist"       -> 1
        [] Halted               -> 0

\* The edges of the graph are a cycle, and what leaves it is the breaker's to decide.
\* Every step but the clock's brings the end nearer: no answer of the model, no
\* report and no trip sends the graph around once more for nothing.
EveryStepAdvances ==
  [][0 <= StepsLeft' /\ StepsLeft' < StepsLeft]_
    <<pc, trajectory, findings, tokens, iteration_count, next_agent, diagnosis,
      store, prompt, overruns>>

\* The stage of the lifecycle each stage of the graph belongs to.
Status ==
  CASE pc = "persist" -> "concluded"
    [] pc = "end"     -> "closed"
    [] pc = "raised"  -> "aborted"
    [] OTHER          -> "investigating"

Lifecycle == INSTANCE DiagnosisLifecycle WITH
  MaxTurns   <- MaxAgentIterations,
  Persistent <- WithStore,
  status     <- Status,
  turns      <- iteration_count,
  answer     <- diagnosis,
  archive    <- Len(store)

\* The graph keeps the promise of DiagnosisLifecycle: bounded turns, one answer,
\* one record at the very end and none when a node raised.
ImplementsLifecycle == Lifecycle!Spec

\* docs/architecture.md: the supervisor re-routes on the accumulated findings.
\* Once a finding is in the state, the prompt should not say that no specialist
\* has been consulted.  It does: see graph_silent_finding.
PromptReportsFindings ==
  pc = "routing" /\ findings # <<>> => prompt.consulted # {}
=============================================================================
