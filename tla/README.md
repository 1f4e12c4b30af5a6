# A TLA+ verification of Incident Copilot

Incident Copilot diagnoses simulated production incidents. A *supervisor* asks a
language model which *specialist* to engage; the specialist investigates with
tools served over MCP and reports a finding; after some turns a *synthesis* node
writes the diagnosis. *Guardrails* are meant to keep all of this bounded. This
directory holds TLA+ modules that model that machinery, TLC configurations that
check it on small instances, and TLAPS proofs, for every value of the constants, of
the main properties of the diagnosis graph, of the tool loop inside it, of the whole
they make up, of the incident memory, of the evaluation command and of the servers
that serve a scenario.

Paths below are relative to `src/incident_copilot/` unless they start with `docs/`.

## 1. The system

### Components

| component | state it keeps | operations | modelled by |
|---|---|---|---|
| graph, `agents/graph.py`, `agents/state.py` | `GraphState`: findings, trajectory, token and iteration counters (all four merged by `operator.add`), next_agent, diagnosis, start_time | run the next node, merge its dict, follow the edge; `persist` | `IncidentGraph` |
| supervisor, `agents/supervisor.py` | none of its own | read the breaker, query memory (first decision only), build a prompt, ask the model, parse the reply | `IncidentGraph` |
| circuit breaker, `guardrails/circuit_breaker.py` | none: a function of the graph state and the clock | `check`, `make_trip_entry` | `CircuitBreaker` |
| specialists, `agents/specialists.py` | locals of one turn: conversation, private log, token totals | the tool loop | `ToolLoop`, and inside the graph `Copilot` |
| tool-call validator, `guardrails/tool_validator.py` | none | `validate` | `ToolLoop` |
| context, `context/*.py` | none | `evict`, `prune`, `summarize` | `Transcript`, `ToolLoop` |
| message conversion, `llm/anthropic_provider.py` | none | `_to_anthropic_messages`, `_parse_response` | `Transcript` |
| MCP client, `mcp_servers/client.py` | a session with a subprocess | connect, `list_tools`, `call_tool` | `ToolLoop` |
| synthesis and sanitizer, `agents/synthesis.py`, `guardrails/sanitizer.py` | none | ask for the diagnosis, redact it, look for the required sections | `IncidentGraph` (what a regular expression matches is a free choice) |
| incident memory, `memory/store.py` | tables `incidents`, `preferences` | `save_incident`, `find_similar`, preferences | `MemoryStore` shared and call by call, `IncidentGraph` as one diagnosis uses it; not preferences |
| evaluation, `evals/*.py` | the results so far | replay scenarios, score, write reports | `EvalMetrics`, `EvalHarness`, and with the graph inside `Evaluation` |
| scenarios and mock servers, `scenarios.py`, `mcp_servers/*_mock.py` | a scenario file, read again by each server | ten lookups | `ScenarioServers` |
| command line, `cli.py` | none | `diagnose`, `evals`: load, start, fail | `IncidentGraph`, `ScenarioServers`, `EvalHarness`; not what they print |
| settings, `config.py` | read once | limits, keys, provider | the limits, as constants |
| provider factory and stubs, `llm/factory.py`, `llm/bedrock_provider.py`, `llm/vertex_provider.py` | none | build a provider, or raise | not modelled (section 7) |

### How they interact

LangGraph runs one node at a time. A node is given the whole state and returns a
dict; the reducers *add* the returned log entries, findings and counts to the
state, so a node must return increments. The supervisor and synthesis call the
model synchronously. A specialist is a coroutine: it awaits its MCP server (one
subprocess per turn unless a client is injected), and everything it learns stays
in local variables until it returns. No node catches an exception: anything that
raises ends the diagnosis, which the command line reports as failed.

The trajectory is the shared memory of the control logic. The breaker reads the
routes from it to find a stuck loop, the supervisor reads from it who has been
consulted, and the evaluation counts tool calls and trips in it.

The command line loads a scenario and hands it to the graph; a server is told only
the *name* the scenario bears, and loads the file of that name itself, once per turn.
The evaluation replays each scenario several times, one replay after the other, in one
process, and writes two reports named after the second in which it ended.

### What is hard

* **Checked here, crossed there.** The breaker is read before a decision; the
  decision, the turn it starts and the synthesis all spend tokens and time after it.
* **Positions in a shared log.** Every writer numbers entries from a length it
  read earlier; a specialist does so before its first await.
* **Derived facts.** "Consulted" is derived from who signed log entries, and a
  specialist that calls no tool signs none.
* **Cutting a conversation.** The window is counted in messages, while the
  provider demands that tool uses and results stay paired.
* **Partial failure.** One failing tool call among several, a silent server, a
  completion that raises: what survives, and does it end?
* **A shared file.** A save is a statement and a commit on a connection that other
  threads share and on a file that other processes lock; either can be refused, and the
  process can end in between.
* **One incident, many readers.** The supervisor, each turn's server and the metrics
  read the scenario separately, under two names, from files that can change meanwhile.
* **All or nothing.** An evaluation is many diagnoses, any of which may raise, and two
  files, which another evaluation may be writing as well.
* **Scores at the edge.** Empty sets, no replays, an even number of verdicts.
* **Cycles.** specialist - supervisor cycles end only because of the breaker.

`PROJECT.json` lists these, line by line, as hazards with the properties that watch them.

## 2. The modules

```
Roles ── Trajectory ── CircuitBreaker ── IncidentGraph ── Copilot ── MCCopilot
  │           │                            │   │   │         └────── CopilotProofs
  │           │                            │   │   ├───── MCIncidentGraph, IncidentGraphProofs
  │           │                            │   │   └───── Evaluation (with Loops) ── MCEvaluation, EvaluationProofs
  │           │                            │   │             └ INSTANCE EvalHarness
  │           │                            └─ INSTANCE DiagnosisLifecycle
  │           ├── ToolLoop (with Transcript) ── INSTANCE in Copilot
  │           │      └─────────────── ToolLoopProofs
  │           └── EvalMetrics (with Loops) ── EvalHarness ── MCEvalHarness, EvalHarnessProofs
  └── ScenarioServers (with Loops) ── MCScenarioServers, ScenarioServersProofs

MemoryStore ── MCMemoryStore, MemoryStoreProofs
Loops ── LoopsProofs, in EvaluationProofs, EvalHarnessProofs and ScenarioServersProofs
```

CopilotProofs and EvaluationProofs extend IncidentGraphProofs: they carry its theorems over; EvaluationProofs
also instantiates EvalHarnessProofs, with the graph's outcomes for those of a replay.

* **Roles** - the agents, and what the supervisor may decide.
* **Trajectory** - the log entries all components share. The free text of an
  entry is kept only where the program reads it back (a route, the name of the tool
  called) or a property needs it (why the breaker tripped).
* **CircuitBreaker** - `TripReason`, the pure function `check`, and `RepeatedRoute`.
* **DiagnosisLifecycle** - the abstract promise: at most `MaxTurns` turns, one
  answer, at most one new record and that at the very end, none when it aborts.
* **IncidentGraph** - one diagnosis. `pc` is the node about to run, or the point
  a node has reached. The supervisor is two actions (`AskForRoute`, `Route`)
  because time passes and the call can raise in between; `BreakerTrips` is its
  other branch. `SpecialistReturns` is a whole turn in one step. `Synthesize`,
  `Persist` and `NodeRaises` complete the nodes, `Tick` is the clock. A model's
  reply is the set of routes its text contains, so `ParseRouting` has every reply
  to deal with: none, one, several. `prompt` is what the pending routing request
  says; `overruns` is a history variable.
* **Transcript** - `Evict`, `Prune`, and the grouping of consecutive tool results
  (`AnswerTurn`); `Accepted` is the pairing rule of the Messages API, which is external.
* **ToolLoop** - one turn as the coroutine executes it: connect, list the tools,
  ask, validate each call, call, wait, time out, join the answers, prune. The
  model chooses what to call, several calls at a time; the server answers,
  errors, dies or is silent. The loop of the code is a `while True` (`specialists.py:68`);
  `MaxRounds`, the responses with tool calls that a run explores, is a bound of the model.
* **Copilot** - `IncidentGraph` with the turn opened up. `TurnBegins` hands the
  turn the length of the log, `TurnRuns` is a step of `ToolLoop`, `TurnReturns`
  merges its locals, `TurnRaises` loses them.
* **MemoryStore** - the incident memory under several diagnoses of one scenario:
  several `MemoryStore` objects (one in each process) on one database file, several
  diagnoses on one object. `Insert` and `Commit` are the two calls of `save_incident`,
  `FindSimilar` is the query of the supervisor's first decision, `Resolve` takes
  `resolved_at`, and a `...Locked` action is the same call refused with "database is
  locked". `unsaved` and `intx` are the implicit transaction of a connection, which no
  code rolls back; `lock` is what it holds on the file. `ProcessEnds` is the end of a
  process at any point, and stands for `close` too: closing does not commit. `IncidentGraph`
  has the memory to itself and both calls in one step; this module is about what that leaves out.
* **EvalMetrics** - the scores of `evals/metrics.py` as operators on runs. One replay's score
  is exact, a multiple of 1/`One`; what is reported of all replays is rounded once, to
  thousandths, as in the code.
* **EvalHarness** - the `evals` command, several at a time in one directory. `Begin`
  loads every file of `scenarios/`, selected or not; `RunReturns` and `RunRaises` are a
  replay; `Score` is the metrics of a scenario whose replays are done, `ScoreFails` their
  division by zero; `Stamp` names the reports; `Open` and `Write` are the truncation and
  the writing of each file; `WriteFails` is any failure or interruption in between.
  What is in a report is the set of commands whose whole text it has; what a failed write
  leaves of its text counts as none.
* **Evaluation** - one command of `EvalHarness` whose replays are behaviours of
  `IncidentGraph`, tools and all. `ReplayReturns` hands the end of a diagnosis to `RunReturns`, and
  `FreshState` is the new `GraphState` of the next.
* **ScenarioServers** - the scenario files, the diagnosis that loads one, a server per
  turn (`Connect`, `Disconnect`) that loads one again, the tools of the three servers, and
  `Edit`. `told` is the history of answers.
* **Loops** - the two loops over a list that the code writes as a comprehension with a
  condition (`Matching`) and as `sum(...)` (`Total`), written as recursive functions so that
  the proofs can expand them.
* **...Proofs** - the theorems; **LoopsProofs** has those about the two loops. **MC...** modules only hold values of constants.

Definitions whose comment starts with "Mutant:" are deliberate mistakes, one
for each checked property, used to see that the property notices them. They
are not part of any specification.

### What the models leave out

* Text: descriptions, prompts beyond the three facts above, arguments, results.
  Token counts are sums; input and output tokens are always added by the code
  before they are compared, so one number is enough.
* Tool calls are of four kinds: `valid`, `ill_typed` (passes the validator, the
  server reports an error), `unknown` and `missing` (refused).
* Retries inside the Anthropic SDK (`max_retries=3`) are part of a completion.
* Floating point: the score of one replay is an exact multiple of 1/`One`, a number that all its
  divisors (up to twice the number of tools) divide, where the program has the nearest float. What is
  reported is rounded to three places by both; they can differ only if it lies
  halfway between two thousandths, which takes a multiple of 16 in its divisor.
  Metrics are not a variable: they are a function of a result's replays.
* Whether a diagnosis contains enough of the expected keywords is a free choice of
  "right" or "wrong". Durations, and the layout of reports, tables and panels, are left out.
* In `Evaluation` a replay keeps of its log the tool calls, rejections and trips, which the
  metrics read, and the conclusion. A finished graph's log as a whole is `IncidentGraph`'s affair.
* The preferences of `store.py:94-104`, which nothing in the program calls. `set_preference` commits the
  connection that saves use, so a caller could carry a stray row just as a later save does.
* A scenario file that is missing and one that does not parse are both absent; an error
  that a lookup returns as its answer is an answer with nothing in it. Text fields that no
  tool filters by are not there.
* LangGraph's limit on node executions. `cli.py:49` sets none, so the library's
  default applies; it is 25 in the oldest versions that `pyproject.toml` admits and
  far larger in the locked one. `SuperstepBound` says what the limit must allow:
  2 * MaxAgentIterations + 3, which is 33 with the default settings. The models
  assume it is not reached.
* SQLite is external: its locks (shared, reserved, pending) and the sqlite3 module's
  implicit `BEGIN` before an INSERT are as they are by default, with the rollback journal.
  Waiting for a lock is part of the call; only a wait that runs out is an action. Power
  loss is SQLite's affair; a process that ends leaves the committed rows and no others.
* An MCP server or a completion may fail at any point; causes are not distinguished
  further than `fault` does.

## 3. What is checked

### Passing runs

**graph_safety** (2.8 million states). Four iterations, a budget of 5 tokens with
completions of 1 and turns of 0 or 3, a timeout after one tick, a memory
that is empty or holds three records (one more than the prompt quotes), turns with
no entry and with two. Every limit can be the first hit, completions and turns
can each cross the budget, and a fourth decision could repeat three.

| property | what it says |
|---|---|
| `TypeOK` | the state is well formed; in particular a reply always yields a route |
| `StepsAreContiguous` | after all the concatenation, entry i bears step i - 1 |
| `IterationCap` | the log's decisions to run a specialist agree with the counter, and are at most the limit |
| `SuperstepBound` | how many node executions a diagnosis can take |
| `TripEndsRouting` | after a trip only the sanitizer signs entries |
| `OneTurnPastBudget` | at most one turn starts past the budget or the timeout |
| `OvershootBounded` | the budget is exceeded by at most one decision, one turn and one synthesis |
| `NoFourthRepeat` | no target is decided on four times in a row, whatever the turns in between log |
| `ConsultedWereRouted` | a prompt names as consulted only specialists that were routed to |
| `FindingsFollowTurns` | the i-th finding comes from the i-th specialist decision or a later one |
| `EndsWithSavedAnswer` | a diagnosis that ends has an answer, which is the last record of the memory |
| `ImplementsLifecycle` | the graph implements `DiagnosisLifecycle` |
| `EveryStepAdvances` | every step but the clock's lowers `StepsLeft`, a bound on the steps left: the cycles of the graph cannot go around for nothing |

**loop_turn** (209 thousand states). Up to three rounds of one to four parallel calls
of three kinds (`missing` is treated like `unknown`), a window of 4 messages, whose tail
is 3, so that the conversation is pruned several times with the cut on a response or within a round,
and a round is smaller than the tail, as large, or larger; base steps 0 and 3.

| property | what it says |
|---|---|
| `TypeOK` | the turn's locals are well formed |
| `LogMatchesAnswers` | call k left entry k with the k-th step, and is answered by a rejection exactly when logged as one |
| `EveryCallAnswered` | the answers so far and then the pending calls are the calls of the response, each once and in its order; of the pending ones the log has the one in flight only, and a turn that raises leaves just that call logged and unanswered |
| `WindowBound` | a request holds at most one message more than the window, one summary, at its place |
| `FreshAnswersReachModel` | pruning never takes answers the model has not seen, if the round fits in the window |
| `SafeCutIsAligned` | without pruning requests are always paired; pruning preserves that exactly when the kept tail opens on a response |
| `OnlySummariesUncounted` | the totals reported are what was billed, as long as nothing was summarised |
| `ToolAwaitEnds` | a call in flight ends, whatever the server does |

**copilot_whole** (357 thousand states). Two iterations, up to three rounds a turn, a window of
three messages, so that a whole diagnosis holds turns that prune, reject and fail:
`ImplementsGraph` (the whole implements `IncidentGraph`: nothing the turn does inside
is visible before it returns), `BaseStepStaysFresh` (the log length a turn read before its
awaits is still right when it ends) and `CopilotTermination` (a diagnosis in which no turn asks
for tools `MaxRounds` times is over at last). The premise of the last is part of the property
because nothing in the code stands for it: see the disagreements below.

**evaluation_whole** (614 thousand states). One scenario, two replays, each a whole run of the
graph of up to two turns, each of which calls the expected tool or another.

| property | what it says |
|---|---|
| `ReplaysAreIndependent` | the log scored of a replay is of one diagnosis: its only conclusion, a decision to synthesize or a trip, is its last entry, the calls before it bear increasing steps, and it tripped for the iterations only after as many entries of its own. A log carried over from the replay before has two conclusions, tripped or not |
| `EvaluationEnds` | the command ends if nodes return or raise: the graph terminates without help from its clock |

**evals_commands** (71 thousand states). Three commands in one directory: all scenarios
twice, the first three times, all with no replay at all; directories that are empty, sound, or
hold a file that does not load; replays that call nothing, some of the expected tools, or more
than those in a loop, and that raise; writes that fail at every point; ends in the same second
and in different ones.

| property | what it says |
|---|---|
| `ReportsAreComplete` | no text of a command is in a report unless it scored all selected scenarios, in order, each on as many replays as asked for, all of them its own |
| `ReportsAreKept` | the two reports of a command that is done have its text and no other, unless another command ended in the same second |
| `F1IsHarmonic` | the F1 reported is the mean of the replays' Dice coefficients, rounded once: it comes of each replay's own precision and recall, not of the rounded means that stand beside it |
| `ScoresAreSound` | scores are thousandths of a whole; consistency is 1.000 when all replays use the same set of tools, and only then while n * n * \|Tools\| < 2000 for n replays, beyond which a lone difference may be rounded away; the verdict is the majority's, "right" when there is none |
| `ReplayOrderIrrelevant` | the order of the replays changes no score |
| `EveryCommandEnds` | a command ends if its replays return or raise |

**scenario_tools** (313 thousand states). A diagnosis of one of two files, the second a copy
renamed inside or not, with one edit at any time, turns of all three specialists in any order,
and any two tool calls with all arguments; two pods share a name, two runbooks a trigger.

| property | what it says |
|---|---|
| `TypeOK` | the state is well formed |
| `ServedAsDiagnosed` | without an edit and with a file that bears its incident's name, every server starts and serves the incident the supervisor's prompt describes |
| `AnswersAgree` | answers from one version of a file agree across tools, turns and servers: a listed pod is described, targets are the pods, a filter filters, runbooks are found exactly when listed |
| `TailsNest` | fewer log lines are the end of more, and no more than asked for; none means all |

**memory_shared** (308 thousand states). Three processes, one of them with two diagnoses
on one connection, a limit of two records, a clock that may stand still or go back.

| property | what it says |
|---|---|
| `TypeOK` | the state is well formed; no prompt quotes more than the limit |
| `SavedIsDurable` | once a save has returned, no neighbour, refused call or ending process takes the record back |
| `StrayRowHasCarrier` | a record whose save did not return is in the file only because a later save on the same connection committed it |
| `PastIsTold` | a diagnosis is told of every incident saved before it began, in any process, unless the limit is used up by records at least as recent |

### Violation runs

Five runs check what a document of the repository says and the code does not do.
Each finds its counterexample.

| run | the document | the code |
|---|---|---|
| graph_silent_finding | `docs/architecture.md:5`: re-routes "based on accumulated findings" | a specialist that answered without calling a tool is not counted as consulted, and the prompt then mentions no findings (`supervisor.py:35`, `:58`) |
| loop_silent_server | `docs/guardrails.md:3`: "the system never is [stuck]" | `initialize` and `list_tools` have no timeout (`client.py:56`, `:30`) |
| loop_compaction | `docs/architecture.md:58`: "compacts history if needed, supervisor re-routes or proceeds" | with one call per response the first compaction orphans a tool result and the provider refuses the next request (`window.py:18`) |
| copilot_uncounted_summary | `docs/guardrails.md:12`: the limit is on total tokens | the summarizer's tokens are dropped (`summarizer.py:42`) |
| memory_locked_out | `PROJECT.md:14`: "the resolved incident is written to memory" | a refused save leaves its transaction open, the next query on that connection keeps its lock, and another process is refused its saves while nobody is saving (`store.py:63`) |

loop_compaction and copilot_uncounted_summary use the real window of 20 messages.

Other disagreements and surprises show in one line of the code or of a model, without
exploring it:

* `docs/architecture.md:59` says that the incident is persisted to memory, and neither the
  command line nor the harness passes a store to `build_graph` (`cli.py:36`,
  `evals/harness.py:78`), so that `persist` does nothing. The memory's properties are
  about graphs built with one.
* `docs/guardrails.md:3` says that an agent can be wrong; a call with an ill-typed argument
  passes the validator, and the server's error (`client.py:48`) aborts the diagnosis.
* `docs/guardrails.md:3` puts the guardrails around "every agent loop" and `docs/architecture.md:57`
  says that every iteration ticks the breaker; the tool loop (`specialists.py:68`) is a `while True` that
  reads no limit, since only the supervisor asks the breaker (`docs/guardrails.md:7`). A model that asks for tools in every
  response keeps a turn, and the diagnosis, going for ever: that is why `CopilotTermination` has a premise.
* `docs/evals.md:14` defines consistency as the stability of the *routing path*, by a normalised
  edit distance between trajectories; the code takes the Jaccard index of the *sets of tools*
  (`metrics.py:110-123`). Replays that take other routes to the same tools, or call them in another
  order, are fully consistent, which `ScoresAreSound` states as what the code does. With the
  default of one replay it is always 1.
* Half of the replays being right counts as a correct diagnosis, and `loop_count` equals
  `breaker_trips` (`Compute`).
* Two evaluations that end in the same second overwrite each other's reports, which may
  then hold text of both: the exception in `ReportsAreKept`.
* A replay that raises discards the scores of every scenario before it.
* `query_range` ignores its range; `get_pod_logs` of zero lines answers all of them and of a
  pod that does not exist an empty log; `describe_pod` ignores the namespace and describes
  the first pod of that name.
* A scenario file copied without renaming the incident inside is diagnosed from one file
  and served from another: the exception in `ServedAsDiagnosed`.

### Deadlock

Deadlock is checked in every run. A finished diagnosis or turn stutters explicitly
(`Terminated`), so a deadlock would be a state from which the code has no step. Commands and diagnoses of `EvalHarness`,
`Evaluation` and `ScenarioServers` stutter likewise once ended. In `MemoryStore` every call returns or
is refused, so it has no deadlock of its own; what it has instead is memory_locked_out.

## 4. Fairness

* `Evaluation!EvaluationSpec`: weak fairness of a replay's progress and of the command's.
  LangGraph starts the next node as soon as one is done, and a node's calls return or
  raise. No fairness of the clocks: the graph's termination does not rest on the timeout.
* `EvalHarness!HarnessSpec`: weak fairness of each command, whose replays are single steps.
* `ToolLoop!FairSpec`: weak fairness of the coroutine, of completions (the SDK has its own
  timeout) and of the passing of time during a call; none of the server. `ToolAwaitEnds`
  holds under it; `SilentServerNeverHangs` fails under it.
* `Copilot!CopilotFairSpec`: additionally that servers answer or fail. Without it the
  termination of the whole is false, which loop_silent_server shows for one turn. Fairness does not
  stop a model from asking for tools, so `CopilotTermination` speaks of behaviours in which no turn does so
  `MaxRounds` times; in these the bound of the model blocks nothing.

## 5. What is proved

tlapm checks every leaf of eight modules. Every invariant and every action property that
a passing run checks, and every refinement, has a theorem; liveness does not.

### The graph

`IncidentGraphProofs` proves the following for every value of the limits, of the token
counts and of the sets of turns, from `LimitsAssumption` and `GraphAssumption` alone
(the constants have their types).

| theorem | property | inductive invariant |
|---|---|---|
| `TypeCorrect` | `TypeOK` | itself |
| `LogContiguous` | `StepsAreContiguous` | itself with `TypeOK` |
| `SuperstepsAreBounded` | `SuperstepBound` | `ClosingInv`: at most one execution of the supervisor sent no specialist to work, and from then on the graph concludes; with `CapInv` for those that did |
| `TripIsFinal` | `TripEndsRouting` | `GuardrailInv`: while a decision can still be made nobody but the supervisor and the specialists has signed an entry |
| `OvershootIsOneTurn` | `OneTurnPastBudget` | `OverrunInv`: an overrun means that tokens or clock are past the limit, so the breaker trips before the next decision |
| `TurnsAreCapped` | `IterationCap` | `CapInv`: the decisions in the log are the turns counted, plus the one under way, and a decision is only made below the limit |
| `PromptIsHonest` | `ConsultedWereRouted` | `SignedInv`: every specialist that signed an entry was routed to before |
| `OvershootIsBounded` | `OvershootBounded` | `SpentInv`: what may have been spent in each stage; for costs that have a maximum |
| `FindingsAreEarned` | `FindingsFollowTurns` | `FindingInv`: the specialist that runs is the one the last decision names; with `CapInv` |
| `AnswerIsSaved` | `EndsWithSavedAnswer` | `AnswerInv`: there is an answer from `persist` on and none before |
| `NoRouteRepeatsLong` | `NoFourthRepeat` | `RepeatInv`: while a decision is pending the last three do not agree, because the breaker read the same log just before |
| `GraphImplementsLifecycle` | `ImplementsLifecycle` | `TypeOK`, `CapInv`, `AnswerInv`: each step maps to a step of the lifecycle or to a stutter |
| `DiagnosisAdvances` | `EveryStepAdvances` | `TypeOK` and `CapInv`: while a decision is pending or a specialist runs, the count is below the limit, so every turn that returns uses one up |

None of the graph's properties is inductive alone: each speaks of the log, and a step is only
right because of where `pc` can be when the log looks that way; the invariants in the
right column say so. The argument for each has one step per action. Most actions append
to the log, so one lemma (`LogGrows`) reduces what an appended log satisfies to what the
old one did and to the new entries; another (`DecisionsGrow`) says that the positions of
decisions grow by one at most, and by that of the decision just made. In `TurnsAreCapped` a decision adds exactly one element
to a finite set of positions, by the library's theorems on cardinality.

`DiagnosisAdvances` is the part of termination that needs no fairness: `StepsLeft` is a natural
number, 3 * MaxAgentIterations + 3 at first, and every step but a tick of the clock lowers it,
for any limits and any replies. That such a step is always taken in the end, because nodes return
or raise, is left to `CopilotTermination` and `EvaluationEnds`.

### The tool loop

`ToolLoopProofs` proves, for every window, number of rounds and set of parallel calls, from
`ToolLoopAssumption`:

| theorem | property | inductive invariant |
|---|---|---|
| `TypeCorrect` | `TypeOK` | with `ShapeInv`: how long the conversation is where the turn depends on it |
| `LogMatches` | `LogMatchesAnswers` | `CallInv`: answered and pending calls of the response under way are consecutive entries of the log, up to the one in flight, which is logged but not answered |
| `CallsAreAnswered` | `EveryCallAnswered` | the same: consecutive calls are in order, and a turn that raises changes none of it |
| `WindowIsBounded` | `WindowBound` | `WindowInv`: the conversation opens on the incident, a summary is its second message or nowhere, and a request respects the window |
| `SummariesAlone` | `OnlySummariesUncounted` | `WindowInv`: totals differ from what was billed only if a summary is there, and a summary, once there, stays |
| `AnswersReachModel` | `FreshAnswersReachModel` | `WindowInv`: the answers of the last round end the conversation, and after pruning still do if they are fewer than the window |

What they need of `Prune` is in two lemmas: which messages it keeps (`Pruned`), and what
stays true of the conversation (`PruneKeeps`).

The last theorem, `SafeCuts`, is `SafeCutIsAligned`: pruning leaves a
request that the provider takes exactly when the tail it keeps opens on a response. One
lemma (`RoundIsPaired`) says that a well-paired conversation, a response and the answers to
all its calls are well paired, another (`CutIsAligned`) does the cut for any conversation. The
invariant, `PairInv`, is what precedes a response being processed: the request that was taken.

### The whole

`CopilotProofs` proves `BaseStepIsFresh` (`BaseStepStaysFresh`: no step appends to the log of
a turn under way, because a turn is under way only in a specialist's node), and under the
hypothesis `TurnsFit` six more. `TurnsFit` is about the graph that is to be implemented, whose
turns are single steps: it lets a turn log any calls and rejections up to as many as MaxRounds
responses of MaxCalls calls hold, and cost up to what these and the final response can cost.
The run's sets are exactly these. A graph with fewer turns would not do, and one with more would say less about cost.

| theorem | what it says | argument |
|---|---|---|
| `CopilotImplementsGraph` | `ImplementsGraph`: the graph with its turns opened up is a graph whose turns are single steps | `CopilotInv`, which is `TypeOK`, `FreshInv`, `TurnInv` (a turn logs consecutive steps from its base step) and `RoomInv` (it has logged, or has still to answer, each call of a response once, and paid each response once): every step inside a turn maps to a stutter, its return to `SpecialistReturns`, its failure to `NodeRaises` |
| `CopilotIsBounded` | `IterationCap`, `SuperstepBound`, `TripEndsRouting`, `OneTurnPastBudget` and `NoFourthRepeat` hold of the whole | by the refinement, from the graph's theorems |
| `CopilotIsHonest` | `StepsAreContiguous`, `ConsultedWereRouted`, `FindingsFollowTurns` and `EndsWithSavedAnswer` hold of the whole | likewise |
| `CopilotImplementsLifecycle` | the whole implements `DiagnosisLifecycle` | the two refinements, one after the other |
| `CopilotOvershootIsBounded` | `OvershootBounded`: one decision, one turn and one synthesis past the budget, in a system that adds up each completion of a turn | likewise; the turn's share is bounded by `RoomInv` |
| `CopilotAdvances` | `EveryStepAdvances`: however long its tool loops get, each return to the graph brings the end nearer | likewise |

### The memory

`MemoryStoreProofs` does the same for the memory, for any stores, diagnoses, limit and
clock, from `MemoryAssumption` (the constants have their types, the diagnoses are finitely many).

| theorem | property | inductive invariant |
|---|---|---|
| `TypeCorrect` | `TypeOK` | itself |
| `SavesAreDurable` | `SavedIsDurable` | `SaveInv`, that is both properties with `RowInv`: a record between its two calls is in its own store's transaction or already in the file |
| `StrayRowsAreCarried` | `StrayRowHasCarrier` | the same; a transaction holds records of its own store only |
| `PastIsAlwaysTold` | `PastIsTold` | from `SavedIsDurable`: what was saved is in the file the query reads |

### The evaluation and the servers

`EvalHarnessProofs` assumes `EvalAssumption`: any commands, directories, numbers of
replays, also negative ones, and outcomes; and `EvalMetricsAssumption`: the tools are finitely many, and
`One` is a multiple of every divisor of a replay's scores.

| theorem | property | inductive invariant |
|---|---|---|
| `TypeCorrect` | `HarnessTypeOK`, which no run repeats | itself, with a type of the current replay |
| `ReportsComplete` | `ReportsAreComplete` | `ReportInv`: with `Own`, what each command has replayed and scored so far is its own, in order, and complete once it writes |
| `ReportsKept` | `ReportsAreKept` | `KeptInv`: how far a command that alone has its second is with each of its files |
| `OrderIsIrrelevant` | `ReplayOrderIrrelevant` | the type and `ReportInv`, which say that what is scored is a list of replays as long as asked for |
| `ScoresSound` | `ScoresAreSound` | the same |
| `F1Harmonic` | `F1IsHarmonic` | the same |

The last three are about arithmetic over lists of any length. A mean does not change when two
summands are exchanged (`TotalReordered`). Consistency is a mean over pairs: twice the pairs above
the diagonal are the whole grid of overlaps without it, because overlaps are symmetric
(`PairsTwice`, by exchanging rows and columns of the sum), and a grid's total does not change
when two rows and the same two columns are exchanged. Bounds go from the replays to the means,
since sums grow with their summands, and rounding keeps a share between 0 and 1000
(`RoundedBounds`, `ReportedBounds`). One pair of replays with different tools keeps the mean
below 1 by what a tool weighs among n(n-1)/2 pairs (`ShareShort`, `PairsBounds`); whether
that is seen in thousandths is the condition of `ScoresAreSound` (`ConsistencyBounds`). The verdict compares
how many positions hold "right" with how many do not, so counts are cardinalities of sets of positions.

Behind `F1Harmonic` are three divisions: precision, recall, and the harmonic mean of the two. Because
their divisors divide `One` (`OneDivided`) each has no remainder (`ShareIs`), so that with a tools used, g
expected and k in common F1 is 2k/(a+g) exactly (`HarmonicIs`, `AccuracyIs`) for any
number of tools, and the one rounding is that of the mean, the same on both sides.

The theorems are stated of `HarnessSafety`, the specification without its fairness, so that they also
apply to commands about which less is assumed.

`EvaluationProofs` proves of every replay of a command what is proved of a diagnosis, from
`EvaluationAssumption` and `EvalMetricsAssumption`: as in the harness, no memory is passed to the graph, and the files, options
and gold trajectories have their types.

| theorem | property | inductive invariant |
|---|---|---|
| `ReplaysAreBounded` | `IterationCap`, `SuperstepBound`, `TripEndsRouting`, `OneTurnPastBudget`, `NoFourthRepeat`, `StepsAreContiguous`, in every replay | `ReplayInv`: the invariants of the graph together; `FreshState` meets them as `Init` does |
| `ReplaysDoNotMeet` | `ReplaysAreIndependent` | with `ConcludedInv` (the log under way has no conclusion while the graph may still decide, and afterwards one, after every call), `EarnedInv` (a trip for the iterations was earned by entries before it) and `RecordedInv` (what was recorded of earlier replays); `ScoredLogIsIndependent` goes from the end of a graph's log to what the metrics get of it |
| `EvaluationImplementsHarness` | the command is one of `EvalHarness` (`HarnessSafety`) | `ReplayInv` and the types of the harness: a step of the graph changes nothing the harness has, and the end of a diagnosis is one of `ReplayOutcomes`, whose log is a list of entries (`MatchingPlaces`) |
| `WholeReportsAreSound` | `ReportsAreComplete`, `ReportsAreKept`, `ScoresAreSound`, `F1IsHarmonic`, `ReplayOrderIrrelevant` | by the refinement, from the theorems of `EvalHarnessProofs` |

For the last two `EvalHarnessProofs` is instantiated with the parameters of the one command and with
`ReplayOutcomes` for its outcomes; `ScoredAssumption` proves what it assumes of them, so the harness's
theorems hold of it without a further hypothesis. In `evals_commands` the outcomes of a replay are chosen;
here they are whatever the graph ends in, the names of the tools called included. TLC does not check this refinement, since
`ReplayOutcomes` is not a finite set.

`ScenarioServersProofs` is about any scenarios, edits and arguments, from `ServersAssumption`:

| theorem | property | inductive invariant |
|---|---|---|
| `ServersAreTyped` | `TypeOK` | `TypeInv`: also what the files hold and the arguments the answers remember |
| `TurnsAreServed` | `ServedAsDiagnosed` | `ServedInv`: until an edit the incident is what its file holds |
| `OneIncidentIsTold` | `AnswersAgree` | `AnswersInv`: some history of the file, one content per edit, explains every answer by the version it bears |
| `LogsEndAlike` | `TailsNest` | the same; the rest is about ends of sequences |

The state does not keep what a file held before an edit. `AnswersInv` says that such a history
exists, and each step extends it or keeps it; two answers from one version are then
two lookups in one scenario, and `PodsAgree`, `TargetsAgree`, `EventsAgree` and `RunbooksAgree`
compare these.

### The loops

`LoopsProofs` says what the loops of the code return for every list: the elements that a
comprehension keeps, each of them, in their order (`MatchingOf`, `MatchingPlaces`,
`MatchingAll`); that a sum is additive, grows with its summands, is a cardinality when
they are zeros and ones, and does not depend on their order or, in a grid, on whether rows
or columns are summed first (`TotalAdds`, `TotalGrows`, `TotalMarks`, `TotalSwapped`,
`GridTransposed`, `GridSwapped`). The library's induction theorems take an
operator as a parameter and cannot be used, so induction is by least counterexample:
a set of naturals that is not empty has a least element (`LeastNatural`), and the set of
lengths at which a loop is wrong has none (`TurnByTurn`). In the same way `LoopRuns` finds that
the recursive functions exist.

### Only model-checked

* Liveness (`ToolAwaitEnds`, `CopilotTermination`, `EvaluationEnds`, `EveryCommandEnds`):
  fairness and ENABLED are out of the prover's reach.

## 6. Why the bounds are enough

The limits enter the code only through comparisons with counters, so small limits put
each comparison on, below and above its boundary. The window is counted in messages and
the cut depends on the conversation's length and on the sizes of the last rounds; 4
messages, of which the tail is 3, with rounds of up to four calls give every alignment of the cut (on a response,
on its first or on a later answer) and rounds that fit the window with one message to spare, just,
and not at all. Two different steps of the clock are enough to be
before and after a timeout. Three
processes with four diagnoses are the least in which a connection is shared by threads,
every kind of call is refused (a read only when a commit of one process is held up by
another), and three records compete for two places in a prompt.
Three commands are one with several scenarios, one with several replays and one with none;
two seconds are the same and another. Replays differ in the tools they use (none, fewer than
expected, more), which decides every branch of the scores; two of them can be a tie, and three
have a pair that is not adjacent. `One` is the least number that the divisors which occur divide. Two replays of
two iterations are the fewest in which the second could go on with a log, a count or tokens of the first
and end otherwise for it. Four iterations are the fewest in which a
fourth decision can repeat three. `MaxRounds` has no counterpart in the code: safety is
proved for every value of it, and termination is stated below it. Two tool calls make every pair that `AnswersAgree` and `TailsNest` speak
of, one edit separates every two reads. What is proved needs no bound.

## 7. Plan

In this order, the most important behaviour first:

1. Trajectory, CircuitBreaker, IncidentGraph, DiagnosisLifecycle - done, with proofs.
2. Transcript, ToolLoop - done, with proofs.
3. Copilot - done, with the proof that it implements IncidentGraph with turns of the length and
   cost that its bounds allow, and what follows from it.
4. MemoryStore - done, with proofs, but for the preferences, which nothing uses yet.
5. EvalMetrics, EvalHarness, Evaluation - done, with proofs about the reports, the scores and
   the replays, and that the command with its diagnoses implements the harness.
6. ScenarioServers - done, with proofs about which file is served and what the answers say.

Not modelled: the LLM provider factory and the Bedrock and Vertex stubs (stateless, they raise),
logging, settings beyond the limits, what the command line prints and the layout of reports,
and the regular expressions of the sanitizer (properties of text; whether one matches is free).
