----------------------------- MODULE Evaluation -----------------------------
(***************************************************************************)
(* One evals command with the diagnoses it replays: EvalHarness whose      *)
(* replays are runs of IncidentGraph, each from a GraphState of its own    *)
(* and without a memory (harness.py passes no store to build_graph).       *)
(***************************************************************************)
EXTENDS IncidentGraph, Loops

CONSTANTS
  Directories, All, Runs, Gold, One   \* those of EvalHarness

\* _single_run gives build_graph no memory.
ASSUME EvaluationAssumption ==
  /\ WithStore = FALSE
  /\ Directories \subseteq Seq([name : DOMAIN Gold, loads : BOOLEAN])
  /\ All \in BOOLEAN
  /\ Runs \in Int
  /\ \A scenario \in DOMAIN Gold : Gold[scenario] \in Seq(Tools)
  /\ IsFiniteSet(Tools)
  /\ One \in Nat \ {0}
  /\ \A d \in 1..(2 * Cardinality(Tools)) : \E m \in 1..One : One = m * d

VARIABLES directory, stage, runs, results, stamp, clock, reports

\* What a diagnosis may leave to be scored.
ReplayOutcomes ==
  [trajectory : Seq(TrajectoryEntry), diagnosis : {"right", "wrong"}, tokens : Nat]

evals == "evals"
Harness == INSTANCE EvalHarness WITH
  Commands <- {evals},   \* alone in its directory, whenever it ends
  LastSecond <- 0,
  All      <- [c \in {evals} |-> All],
  Runs     <- [c \in {evals} |-> Runs],
  Outcomes <- [s \in DOMAIN Gold |-> ReplayOutcomes]

commandVars == <<directory, stage, runs, results, stamp, clock, reports>>
evaluationVars == <<vars, commandVars>>

\* Mutant: the log is carried over.
FreshStateKeepsLog ==
  /\ pc' = "supervisor"
  /\ findings' = <<>>
  /\ tokens' = 0
  /\ iteration_count' = 0
  /\ next_agent' = "none"
  /\ diagnosis' = "none"
  /\ elapsed' = 0
  /\ prompt' = NoPrompt
  /\ overruns' = 0
  /\ UNCHANGED <<trajectory, store>>

\* Each replay has a GraphState of its own.
FreshState ==
  /\ pc' = "supervisor"
  /\ trajectory' = <<>>
  /\ findings' = <<>>
  /\ tokens' = 0
  /\ iteration_count' = 0
  /\ next_agent' = "none"
  /\ diagnosis' = "none"
  /\ elapsed' = 0
  /\ prompt' = NoPrompt
  /\ overruns' = 0
  /\ UNCHANGED store

\* Where a diagnosis stops routing: the trip or the decision to answer.
IsConclusion(e) == IsTrip(e) \/ (IsRoute(e) /\ e.detail = "synthesize")

\* What the metrics read of a log, which is calls and trips, and its conclusion: the
\* other routes and the sanitizer's entries are in no score and are left out.
ScoredLog(log) ==
  Matching(log, {e \in ToSet(log) : e.action \in TurnActionNames \/ IsConclusion(e)})

EvaluationInit == Init /\ Harness!HarnessInit

-----------------------------------------------------------------------------

UnderWay == Harness!Replaying(evals) /\ Len(runs[evals]) < Runs

GraphRuns ==
  /\ UnderWay
  /\ Progress
  /\ UNCHANGED commandVars

GraphWaits ==
  /\ UnderWay
  /\ Tick
  /\ UNCHANGED commandVars

\* ainvoke returns the final state; whether its diagnosis is right is free.
ReplayReturns(verdict) ==
  /\ pc = "end"
  /\ Harness!RunReturns(evals, [trajectory |-> ScoredLog(trajectory),
                                diagnosis  |-> verdict,
                                tokens     |-> tokens])
  /\ FreshState

\* Mutant: the harness goes on with the next replay.
ReplayRaisesSwallowed ==
  /\ pc = "raised"
  /\ FreshState
  /\ UNCHANGED commandVars

\* A node raised; so does ainvoke, and the command fails.
ReplayRaises ==
  /\ pc = "raised"
  /\ Harness!RunRaises(evals)
  /\ FreshState

ReplayProgress ==
  \/ GraphRuns
  \/ \E verdict \in {"right", "wrong"} : ReplayReturns(verdict)
  \/ ReplayRaises

CommandProgress == Harness!Bookkeeping(evals) /\ UNCHANGED vars

EvaluationNext ==
  \/ ReplayProgress
  \/ GraphWaits
  \/ CommandProgress
  \/ Harness!Ended(evals) /\ UNCHANGED evaluationVars

\* Nodes return or raise, and the command goes on; nothing is asked of the clock.
EvaluationSpec ==
  /\ EvaluationInit
  /\ [][EvaluationNext]_evaluationVars
  /\ WF_evaluationVars(ReplayProgress)
  /\ WF_evaluationVars(CommandProgress)

-----------------------------------------------------------------------------
\* Properties.

Recorded == ToSet(runs[evals])
              \cup UNION {ToSet(results[evals][i].runs) : i \in DOMAIN results[evals]}

\* No replay pays for the one before.  Its log is of one diagnosis: it concludes once, by
\* a trip or a decision, and the calls in it, in the order of their steps, all come before;
\* a log that goes on where another ended has two conclusions.  And it tripped for the
\* iterations only after as many decisions of its own.
IndependentLog(log) ==
  /\ log # <<>>
  /\ \A i \in DOMAIN log : IsConclusion(log[i]) <=> i = Len(log)
  /\ \A i, j \in DOMAIN log : i < j => log[i].step < log[j].step
  /\ \A i \in DOMAIN log :
       IsTrip(log[i]) /\ log[i].detail = "max_iterations" => log[i].step >= MaxAgentIterations

ReplaysAreIndependent == \A r \in Recorded : IndependentLog(r.trajectory)

\* However many diagnoses it takes, the command ends once nodes return or raise.
EvaluationEnds == <>Harness!Ended(evals)
=============================================================================
