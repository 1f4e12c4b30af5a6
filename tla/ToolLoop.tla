------------------------------ MODULE ToolLoop ------------------------------
(***************************************************************************)
(* One specialist turn: _run_tool_loop of agents/specialists.py, with the  *)
(* MCP client it calls, the validator in front of it and the pruning after *)
(* each round.  The model behind llm.tool_use chooses freely what to call; *)
(* the MCP server answers, reports an error, or stays silent.              *)
(***************************************************************************)
EXTENDS Trajectory, Transcript, FiniteSets

CONSTANTS
  MaxMessages,      \* prune's max_messages (20)
  CallTimeout,      \* _MCP_CALL_TIMEOUT (30 s), in ticks of the model
  ClientInjected,   \* the graph was built with an MCPClient for this specialist
  Served,           \* the tools that list_tools answers with
  CallKinds,        \* the kinds of call the model makes, a subset of AllCallKinds
  MaxCalls,         \* bound: calls in one response
  MaxRounds,        \* bound: responses that ask for tools
  UsageOf,          \* tokens one tool_use completion may report
  SummaryUsage,     \* tokens one summarizer completion may report
  BaseSteps         \* lengths the trajectory may have when the turn starts

\* "unknown" names no served tool and "missing" lacks a required argument: the
\* validator refuses both.  "ill_typed" has every required argument, with a value
\* the tool does not take.
AllCallKinds == {"valid", "ill_typed", "unknown", "missing"}

ASSUME ToolLoopAssumption ==
  /\ MaxMessages \in Nat
  /\ CallTimeout \in Nat
  /\ ClientInjected \in BOOLEAN
  /\ Served \subseteq Tools
  /\ CallKinds \subseteq AllCallKinds
  /\ MaxCalls \in Nat
  /\ MaxRounds \in Nat
  /\ UsageOf \subseteq Nat
  /\ SummaryUsage \subseteq Nat
  /\ BaseSteps \subseteq Nat

VARIABLES
  stage,       \* where the coroutine is
  base_step,   \* len(state["trajectory"]) when the turn began
  messages,    \* the conversation
  pending,     \* calls of the current response not yet processed, oldest first
  results,     \* tool_results of the last round
  entries,     \* the turn's own trajectory: [step, action, detail]
  reported,    \* total_input + total_output
  content,     \* whether last_response_content has text
  waited,      \* ticks spent in the current call_tool
  rounds,      \* responses that asked for tools, so far
  billed,      \* history: tokens of every completion of the turn
  fault        \* history: what raised, or "none"

vars == <<stage, base_step, messages, pending, results, entries, reported,
          content, waited, rounds, billed, fault>>

LoopStages == {"idle", "connecting", "listing", "model", "calls", "awaiting",
               "summarizing", "returned", "raised"}
Faults == {"none", "server", "completion", "bad_request", "tool_error",
           "tool_timeout"}
Over == stage \in {"returned", "raised"}

Call == [id : Nat, kind : AllCallKinds, tool : Tools]

\* What a model may ask for.
Requests == {r \in [kind : CallKinds, tool : Tools] :
               r.kind = "unknown" <=> r.tool \notin Served}

\* The calls of a response, which bear its ids from "first" on.
CallsFrom(first, requests) ==
  [i \in DOMAIN requests |->
     [id |-> first + i - 1, kind |-> requests[i].kind, tool |-> requests[i].tool]]

-----------------------------------------------------------------------------

\* tool_validator.validate: an existing tool, with every required argument there.
Validates(call) == call.kind \in {"valid", "ill_typed"}

\* Mutant: numbers from the last entry instead of from after it.
NextStepBehind == base_step + Len(entries) - 1

\* Mutant: starts again from the base at every round.
NextStepPerRound == base_step + Len(results)

\* The step of the next entry: base_step + len(trajectory).
NextStep == base_step + Len(entries)

Raise(cause) ==
  /\ stage' = "raised"
  /\ fault' = cause

Init ==
  /\ stage = "idle"
  /\ base_step = 0
  /\ messages = <<>>
  /\ pending = <<>>
  /\ results = <<>>
  /\ entries = <<>>
  /\ reported = 0
  /\ content = FALSE
  /\ waited = 0
  /\ rounds = 0
  /\ billed = 0
  /\ fault = "none"

\* The graph calls the specialist's node.
Begin(base) ==
  /\ stage = "idle"
  /\ base_step' = base
  /\ stage' = IF ClientInjected THEN "listing" ELSE "connecting"
  /\ UNCHANGED <<messages, pending, results, entries, reported, content, waited,
                 rounds, billed, fault>>

\* connect_to_server: the subprocess is up and the session initialised.
Connected ==
  /\ stage = "connecting"
  /\ stage' = "listing"
  /\ UNCHANGED <<base_step, messages, pending, results, entries, reported,
                 content, waited, rounds, billed, fault>>

\* list_tools answers, and the conversation opens on the incident.
ToolsListed ==
  /\ stage = "listing"
  /\ messages' = <<IncidentStatement>>
  /\ stage' = "model"
  /\ UNCHANGED <<base_step, pending, results, entries, reported, content, waited,
                 rounds, billed, fault>>

\* The server process or its session is lost while something is awaited from it.
ServerFails ==
  /\ stage \in {"connecting", "listing", "awaiting"}
  /\ Raise("server")
  /\ UNCHANGED <<base_step, messages, pending, results, entries, reported,
                 content, waited, rounds, billed>>

\* A response without tool calls: the loop breaks and the node returns.
ModelAnswers(usage, text) ==
  /\ stage = "model"
  /\ Accepted(messages)
  /\ reported' = reported + usage
  /\ billed' = billed + usage
  /\ content' = text
  /\ stage' = "returned"
  /\ UNCHANGED <<base_step, messages, pending, results, entries, waited, rounds,
                 fault>>

\* Mutant: a response that asks for tools is not added to the totals.
ModelCallsUncounted(usage, text, requests) ==
  LET calls == CallsFrom(Len(entries) + 1, requests) IN
  /\ stage = "model" /\ rounds < MaxRounds /\ requests # <<>> /\ Accepted(messages)
  /\ billed' = billed + usage
  /\ content' = text
  /\ messages' = Append(messages,
                   AssistantMessage({calls[i].id : i \in DOMAIN calls}))
  /\ pending' = calls
  /\ results' = <<>>
  /\ rounds' = rounds + 1
  /\ stage' = "calls"
  /\ UNCHANGED <<base_step, entries, reported, waited, fault>>

\* A response that asks for tools, "requests" in order.  The code goes around this
\* loop for as long as the model asks (`while True`): MaxRounds is a bound of the
\* model, and what depends on it says so.
ModelCalls(usage, text, requests) ==
  LET calls == CallsFrom(Len(entries) + 1, requests) IN
  /\ stage = "model"
  /\ rounds < MaxRounds
  /\ requests # <<>>
  /\ Accepted(messages)
  /\ reported' = reported + usage
  /\ billed' = billed + usage
  /\ content' = text
  /\ messages' = Append(messages,
                   AssistantMessage({calls[i].id : i \in DOMAIN calls}))
  /\ pending' = calls
  /\ results' = <<>>
  /\ rounds' = rounds + 1
  /\ stage' = "calls"
  /\ UNCHANGED <<base_step, entries, waited, fault>>

\* The request is refused, or the completion fails otherwise: nothing retries.
ModelFails ==
  /\ stage = "model"
  /\ Raise(IF Accepted(messages) THEN "completion" ELSE "bad_request")
  /\ UNCHANGED <<base_step, messages, pending, results, entries, reported,
                 content, waited, rounds, billed>>

Log(action) ==
  entries' = Append(entries, [step   |-> NextStep,
                              action |-> action,
                              detail |-> Head(pending).tool])

\* Mutant: rejections are answered before the calls that were made.
RejectCallFirst ==
  /\ stage = "calls"
  /\ pending # <<>>
  /\ ~Validates(Head(pending))
  /\ Log("validation_error")
  /\ results' = <<Answer("rejection", Head(pending).id)>> \o results
  /\ pending' = Tail(pending)
  /\ UNCHANGED <<stage, base_step, messages, reported, content, waited, rounds,
                 billed, fault>>

\* A call the validator refuses: its error becomes the answer, no tool is called.
RejectCall ==
  /\ stage = "calls"
  /\ pending # <<>>
  /\ ~Validates(Head(pending))
  /\ Log("validation_error")
  /\ results' = Append(results, Answer("rejection", Head(pending).id))
  /\ pending' = Tail(pending)
  /\ UNCHANGED <<stage, base_step, messages, reported, content, waited, rounds,
                 billed, fault>>

\* A call that passes is logged before it is made.
CallTool ==
  /\ stage = "calls"
  /\ pending # <<>>
  /\ Validates(Head(pending))
  /\ Log("tool_call")
  /\ waited' = 0
  /\ stage' = "awaiting"
  /\ UNCHANGED <<base_step, messages, pending, results, reported, content, rounds,
                 billed, fault>>

\* The server answers the call in flight.
ToolReplies ==
  /\ stage = "awaiting"
  /\ Head(pending).kind = "valid"
  /\ results' = Append(results, Answer("result", Head(pending).id))
  /\ pending' = Tail(pending)
  /\ waited' = 0
  /\ stage' = "calls"
  /\ UNCHANGED <<base_step, messages, entries, reported, content, rounds, billed,
                 fault>>

\* The server answers with isError: call_tool raises, and nothing catches it.
ToolErrors ==
  /\ stage = "awaiting"
  /\ Raise("tool_error")
  /\ UNCHANGED <<base_step, messages, pending, results, entries, reported,
                 content, waited, rounds, billed>>

Wait ==
  /\ stage = "awaiting"
  /\ waited < CallTimeout
  /\ waited' = waited + 1
  /\ UNCHANGED <<stage, base_step, messages, pending, results, entries, reported,
                 content, rounds, billed, fault>>

\* Mutant: the call is awaited without wait_for.
ToolTimesOutNever ==
  /\ stage = "awaiting"
  /\ waited > CallTimeout
  /\ Raise("tool_timeout")
  /\ UNCHANGED <<base_step, messages, pending, results, entries, reported,
                 content, waited, rounds, billed>>

\* asyncio.wait_for gives up: the exception leaves the loop like any other.
ToolTimesOut ==
  /\ stage = "awaiting"
  /\ waited = CallTimeout
  /\ Raise("tool_timeout")
  /\ UNCHANGED <<base_step, messages, pending, results, entries, reported,
                 content, waited, rounds, billed>>

\* The response is done with: its answers join the conversation, and prune
\* either finds it short enough or asks the summarizer.
EndRound ==
  /\ stage = "calls"
  /\ pending = <<>>
  /\ messages' = messages \o results
  /\ stage' = IF NeedsPruning(messages', MaxMessages) THEN "summarizing" ELSE "model"
  /\ UNCHANGED <<base_step, pending, results, entries, reported, content, waited,
                 rounds, billed, fault>>

\* The summary comes back; its usage is not added to the turn's totals.
Summarized(usage) ==
  /\ stage = "summarizing"
  /\ messages' = Prune(messages, MaxMessages)
  /\ billed' = billed + usage
  /\ stage' = "model"
  /\ UNCHANGED <<base_step, pending, results, entries, reported, content, waited,
                 rounds, fault>>

SummarizerFails ==
  /\ stage = "summarizing"
  /\ Raise("completion")
  /\ UNCHANGED <<base_step, messages, pending, results, entries, reported,
                 content, waited, rounds, billed>>

-----------------------------------------------------------------------------

\* What one response may ask for, in order.
CallBatches == SeqOf(Requests, MaxCalls)

ModelReturns ==
  \/ \E usage \in UsageOf, text \in BOOLEAN : ModelAnswers(usage, text)
  \/ \E usage \in UsageOf, text \in BOOLEAN, requests \in CallBatches :
        ModelCalls(usage, text, requests)
  \/ ModelFails

\* Steps the specialist's own process takes, and those of the model it calls.
ProcessStep ==
  \/ ModelReturns
  \/ RejectCall
  \/ CallTool
  \/ ToolTimesOut
  \/ EndRound
  \/ \E usage \in SummaryUsage : Summarized(usage)
  \/ SummarizerFails

LocalStep == ProcessStep \/ Wait

\* Steps of the MCP server.
ServerStep == Connected \/ ToolsListed \/ ToolReplies \/ ToolErrors \/ ServerFails

Terminated == Over /\ UNCHANGED vars

Next ==
  \/ \E base \in BaseSteps : Begin(base)
  \/ LocalStep
  \/ ServerStep
  \/ Terminated

Spec == Init /\ [][Next]_vars

\* The coroutine runs on, the model's completions return or raise (the SDK times
\* them out), and time passes during a call.  Nothing is assumed of the server.
FairSpec ==
  /\ Spec
  /\ WF_vars(\E base \in BaseSteps : Begin(base))
  /\ WF_vars(LocalStep)

-----------------------------------------------------------------------------
\* Properties.

TypeOK ==
  /\ stage \in LoopStages
  /\ base_step \in Nat
  /\ messages \in Seq(Message)
  /\ pending \in Seq(Call)
  /\ results \in Seq(Message)
  /\ entries \in Seq([step : Nat, action : TurnActionNames, detail : Tools])
  /\ reported \in Nat
  /\ content \in BOOLEAN
  /\ waited \in 0..CallTimeout
  /\ rounds \in 0..MaxRounds
  /\ billed \in Nat
  /\ fault \in Faults

\* The turn's log and what the model is told agree: call number k left entry k,
\* with the k-th step of the turn, and is answered by a rejection exactly when
\* the log calls it a validation error.
LogMatchesAnswers ==
  /\ \A k \in DOMAIN entries : entries[k].step = base_step + k - 1
  /\ \A i \in DOMAIN results : \E k \in results[i].ids \cap DOMAIN entries :
        (results[i].kind = "rejection") <=> (entries[k].action = "validation_error")

\* The calls of a response are answered once each, in the order in which it makes
\* them: the answers so far and then the calls still pending are its calls, in that
\* order, until nothing is pending.  Of the pending calls the log has the one in
\* flight and no other.  A turn that raises here leaves it at that: the call that
\* was in flight is logged, and neither it nor a later one has an answer.
EveryCallAnswered ==
  messages # <<>> /\ Last(messages).kind = "assistant" =>
    LET n == Len(results) + Len(pending)
        ids == [i \in 1..n |-> IF i <= Len(results) THEN results[i].ids
                               ELSE {pending[i - Len(results)].id}]
        inFlight == stage \in {"awaiting", "raised"}
    IN  /\ UNION {ids[i] : i \in 1..n} = Last(messages).ids
        /\ Cardinality(Last(messages).ids) = n
        /\ \A i, j \in 1..n : i < j => \A a \in ids[i], b \in ids[j] : a < b
        /\ \A i \in DOMAIN pending :
              pending[i].id <= Len(entries) <=> inFlight /\ i = 1
        /\ inFlight => pending # <<>>

\* What a request may hold: at most one summary, right after the incident, and
\* never more than one message beyond the window.
WindowBound ==
  stage = "model" =>
    /\ Len(messages) <= EffectiveMax(MaxMessages) + 1
    /\ messages[1] = IncidentStatement
    /\ \A i \in DOMAIN messages : messages[i] = Summary => i = 2

\* The answers of a round that fits in the window are the end of the very next
\* request: pruning never takes what the model has not seen yet.
FreshAnswersReachModel ==
  stage = "model" /\ Len(results) < EffectiveMax(MaxMessages) =>
    IsSuffix(results, messages)

\* A request is well paired until something is pruned, and pruning a well-paired
\* conversation leaves it so exactly when the tail it keeps opens on a response.
SafeCutIsAligned ==
  /\ stage = "model" /\ (\A i \in DOMAIN messages : messages[i] # Summary) =>
       Accepted(messages)
  /\ stage = "summarizing" /\ Accepted(messages) =>
       (Accepted(Prune(messages, MaxMessages)) <=>
         messages[Split(messages, MaxMessages) + 1].kind = "assistant")

\* What the breaker will be told is what was billed, the summaries aside.
OnlySummariesUncounted ==
  /\ reported <= billed
  /\ (\A i \in DOMAIN messages : messages[i] # Summary) => reported = billed

\* A tool that never answers is given up on.
ToolAwaitEnds == stage = "awaiting" ~> stage # "awaiting"

\* docs/guardrails.md: "an agent can be wrong, slow, or stuck - the system never
\* is".  A server that is silent before the first completion hangs the turn.
SilentServerNeverHangs == <>Over

\* docs/architecture.md, data flow, step 4: "context manager compacts history if
\* needed, supervisor re-routes or proceeds to synthesis".  Compaction itself
\* should not make the next request one that the provider refuses.
CompactionNeverAborts == fault # "bad_request"
=============================================================================
