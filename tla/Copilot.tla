------------------------------ MODULE Copilot ------------------------------
(***************************************************************************)
(* One whole diagnosis: the graph of IncidentGraph with each specialist    *)
(* turn opened up into the tool loop of ToolLoop.  The turn reads the      *)
(* shared state when it begins and writes to it only when it returns.      *)
(***************************************************************************)
EXTENDS IncidentGraph

CONSTANTS MaxMessages, CallTimeout, ClientInjected, Served, CallKinds,
          MaxCalls, MaxRounds, UsageOf, SummaryUsage   \* those of ToolLoop

ASSUME TurnAssumption ==
  /\ {MaxMessages, CallTimeout, MaxCalls, MaxRounds} \subseteq Nat
  /\ ClientInjected \in BOOLEAN
  /\ Served \subseteq Tools
  /\ UsageOf \subseteq Nat
  /\ SummaryUsage \subseteq Nat

VARIABLES stage, base_step, messages, pending, results, entries, reported,
          content, waited, rounds, billed, fault,   \* those of ToolLoop
          spent    \* history: tokens of every completion of the diagnosis

turnVars == <<stage, base_step, messages, pending, results, entries, reported,
              content, waited, rounds, billed, fault>>

Turn == INSTANCE ToolLoop WITH BaseSteps <- {}

allVars == <<vars, turnVars, spent>>

\* The turn's locals are gone once the node has returned.
TurnForgotten ==
  /\ stage' = "idle"
  /\ base_step' = 0
  /\ messages' = <<>>
  /\ pending' = <<>>
  /\ results' = <<>>
  /\ entries' = <<>>
  /\ reported' = 0
  /\ content' = FALSE
  /\ waited' = 0
  /\ rounds' = 0
  /\ billed' = 0
  /\ fault' = "none"

CopilotInit == Init /\ Turn!Init /\ spent = 0

-----------------------------------------------------------------------------

\* A step of a node that is not a specialist.
OtherNode ==
  /\ \/ BreakerTrips
     \/ AskForRoute
     \/ \E mentioned \in SUBSET RouteTargets, usage \in Usage : Route(mentioned, usage)
     \/ \E hits, missing \in BOOLEAN, usage \in Usage : Synthesize(hits, missing, usage)
     \/ Persist
     \/ pc \notin Specialists /\ NodeRaises
  /\ spent' = spent + (tokens' - tokens)
  /\ UNCHANGED turnVars

\* Mutant: steps are numbered from the iteration count.
TurnBeginsFromCount ==
  /\ pc \in Specialists
  /\ Turn!Begin(iteration_count)
  /\ UNCHANGED <<vars, spent>>

\* The specialist's node is called with the state as it is.
TurnBegins ==
  /\ pc \in Specialists
  /\ Turn!Begin(Len(trajectory))
  /\ UNCHANGED <<vars, spent>>

\* The loop and its server run; the shared state does not move.
TurnRuns ==
  /\ Turn!ProcessStep \/ Turn!ServerStep
  /\ UNCHANGED <<vars, spent>>

\* Mutant: the node returns the running total of what it was given.
TurnReturnsTotals ==
  /\ stage = "returned"
  /\ trajectory' = trajectory \o
       [i \in DOMAIN entries |->
          Entry(entries[i].step, pc, entries[i].action, entries[i].detail)]
  /\ findings' = IF content THEN Append(findings, pc) ELSE findings
  /\ tokens' = tokens + reported
  /\ iteration_count' = iteration_count + (iteration_count + 1)
  /\ pc' = "supervisor"
  /\ spent' = spent + billed
  /\ TurnForgotten
  /\ UNCHANGED <<next_agent, diagnosis, elapsed, store, prompt, overruns>>

\* The loop is over: its dict goes through the reducers.
TurnReturns ==
  /\ stage = "returned"
  /\ trajectory' = trajectory \o
       [i \in DOMAIN entries |->
          Entry(entries[i].step, pc, entries[i].action, entries[i].detail)]
  /\ findings' = IF content THEN Append(findings, pc) ELSE findings
  /\ tokens' = tokens + reported
  /\ iteration_count' = iteration_count + 1
  /\ pc' = "supervisor"
  /\ spent' = spent + billed
  /\ TurnForgotten
  /\ UNCHANGED <<next_agent, diagnosis, elapsed, store, prompt, overruns>>

\* Mutant: the node swallows the exception of its tool loop.
TurnRaisesSwallowed ==
  /\ stage = "raised"
  /\ pc \in Specialists
  /\ UNCHANGED allVars

\* The loop raised: so does the node, and what the turn had gathered is lost.
TurnRaises ==
  /\ stage = "raised"
  /\ pc \in Specialists
  /\ NodeRaises
  /\ spent' = spent + billed
  /\ UNCHANGED turnVars

\* Time passes for the graph, and for the tool call in flight if there is one;
\* once the graph's clock is at its cap the call's own still runs.
TimePasses ==
  /\ \/ Tick
     \/ elapsed = MaxElapsed /\ stage = "awaiting" /\ UNCHANGED vars
  /\ IF stage = "awaiting" THEN Turn!Wait ELSE UNCHANGED turnVars
  /\ UNCHANGED spent

CopilotNext ==
  \/ OtherNode
  \/ TurnBegins
  \/ TurnRuns
  \/ TurnReturns
  \/ TurnRaises
  \/ TimePasses
  \/ Halted /\ UNCHANGED allVars

CopilotSpec == CopilotInit /\ [][CopilotNext]_allVars

\* Nodes run as soon as they may, completions and tool servers answer or fail,
\* and time passes during a tool call.
CopilotFairSpec ==
  /\ CopilotSpec
  /\ WF_allVars(OtherNode \/ TurnBegins \/ TurnRuns \/ TurnReturns \/ TurnRaises)

-----------------------------------------------------------------------------
\* Properties.

\* Opening the turn changes nothing for the graph: every behaviour of the whole
\* is one of IncidentGraph, whose specialist turn is a single step.
ImplementsGraph == Spec

\* A turn works on a log nobody else appends to: the base step it numbers its
\* entries from is still the length of the log when it returns or raises.
BaseStepStaysFresh ==
  pc \in Specialists /\ stage # "idle" => base_step = Len(trajectory)

\* A diagnosis is over at last if servers and completions answer or fail and no turn
\* asks for tools MaxRounds times.  The premise is there because nothing in the code
\* stands for it: the tool loop is a `while True` that reads no limit, and a model that
\* asks for tools in every response is never interrupted.  Below MaxRounds the guard of
\* ModelCalls blocks nothing, so it is the graph, and not the model's bound, that ends.
CopilotTermination == [](rounds < MaxRounds) => <>Halted

\* docs/guardrails.md: the breaker limits total tokens.  What it compares with
\* the limit should be what the diagnosis has spent.
BreakerSeesAllTokens == pc = "supervisor" => tokens = spent
=============================================================================
