-------------------------- MODULE EvaluationProofs --------------------------
(***************************************************************************)
(* Theorems about Evaluation: what holds of one diagnosis holds of every   *)
(* replay, and what is recorded of a replay is about that replay alone.    *)
(***************************************************************************)
EXTENDS Evaluation, IncidentGraphProofs, LoopsProofs

\* What the theorems of IncidentGraphProofs are proved from, for the replay under way.
ReplayInv ==
  /\ TypeOK /\ StepsAreContiguous /\ GuardrailInv /\ OverrunInv
  /\ CapInv /\ ClosingInv /\ RepeatInv
  /\ store = <<>>

\* The breaker trips for the iterations only after as many decisions in its own log.
EarnedInv ==
  \A i \in DOMAIN trajectory :
    IsTrip(trajectory[i]) /\ trajectory[i].detail = "max_iterations" =>
      trajectory[i].step >= MaxAgentIterations

\* Where the supervisor may still be asked, and where it never will be again.
Open == {"supervisor", "routing"} \cup Specialists
Answering == {"synthesis", "persist", "end"}

\* The log concludes once, and no call comes after.
ConcludesAt(log, c) ==
  /\ c \in DOMAIN log
  /\ IsConclusion(log[c])
  /\ \A i \in DOMAIN log : IsConclusion(log[i]) => i = c
  /\ \A i \in DOMAIN log : i > c => log[i].action \notin TurnActionNames

\* An open diagnosis has no conclusion in its log; one that is answering has one, and
\* no call comes after it.
ConcludedInv ==
  /\ pc \in Open => \A i \in DOMAIN trajectory : ~IsConclusion(trajectory[i])
  /\ pc \in Answering => \E c : ConcludesAt(trajectory, c)

-----------------------------------------------------------------------------
\* The replay under way.

\* A graph without a memory starts as any other.
LEMMA InitInv == Init => ReplayInv /\ EarnedInv /\ ConcludedInv
<1> SUFFICES ASSUME Init PROVE ReplayInv /\ EarnedInv /\ ConcludedInv
  OBVIOUS
<1>1. TypeOK /\ CapInv
  BY TypeInitially, CapInitially
<1>2. StepsAreContiguous /\ GuardrailInv /\ ClosingInv /\ RepeatInv /\ EarnedInv
  BY DEF Init, StepsAreContiguous, GuardrailInv, TripEndsRouting, ClosingInv, ClosingSteps,
         SupervisorSteps, RepeatInv, NoFourthRepeat, RouteSteps, EarnedInv
<1>3. OverrunInv /\ store = <<>>
  BY EvaluationAssumption DEF Init, OverrunInv
<1>4. ConcludedInv
  BY DEF Init, ConcludedInv, Answering
<1> QED BY <1>1, <1>2, <1>3, <1>4 DEF ReplayInv

\* Every step of a command is a step of the graph or starts one afresh.
LEMMA ReplayStep ==
  ASSUME [EvaluationNext]_evaluationVars PROVE [Next]_vars \/ FreshState
BY DEF EvaluationNext, evaluationVars, ReplayProgress, GraphRuns, GraphWaits, ReplayReturns,
       ReplayRaises, CommandProgress, Next

\* The memory that is not there stays empty.
LEMMA NoMemory == ASSUME store = <<>>, [Next]_vars PROVE store' = <<>>
BY EvaluationAssumption DEF Next, Progress, BreakerTrips, AskForRoute, Route, SpecialistReturns,
   Synthesize, Persist, NodeRaises, Tick, Terminated, vars

\* How a trip gets into the log.
LEMMA TripIsEarned ==
  ASSUME TypeOK, CapInv, BreakerTrips
  PROVE  LET n == Len(trajectory) IN
         /\ trajectory' = Append(trajectory, Entry(n, "circuit_breaker", "trip", Trip))
         /\ Trip = "max_iterations" => n >= MaxAgentIterations
<1> DEFINE n == Len(trajectory)
<1>1. n \in Nat /\ DOMAIN trajectory = 1..n /\ iteration_count \in Nat
  BY LenProperties DEF TypeOK
<1>2. IsFiniteSet(1..n) /\ Cardinality(1..n) = n
  <2> HIDE DEF n
  <2>1. IsFiniteSet(1..n) /\ Cardinality(1..n) = IF 1 > n THEN 0 ELSE n - 1 + 1
    BY <1>1, FS_Interval
  <2> QED BY <1>1, <2>1
<1>3. Cardinality(SpecialistRouteSteps) <= n /\ Cardinality(SpecialistRouteSteps) \in Nat
  <2>1. SpecialistRouteSteps \subseteq 1..n
    BY <1>1 DEF SpecialistRouteSteps, RouteSteps
  <2>2. ASSUME NEW T \in SUBSET (1..n) PROVE Cardinality(T) <= n /\ Cardinality(T) \in Nat
    <3>1. IsFiniteSet(T) /\ Cardinality(T) <= Cardinality(1..n)
      BY <1>2, FS_Subset
    <3> QED BY <1>2, <3>1, FS_CardinalityType
  <2> HIDE DEF n
  <2> QED BY <2>1, <2>2
<1>4. Cardinality(SpecialistRouteSteps) = iteration_count
  BY DEF CapInv, IterationCap, BreakerTrips, Specialists
<1>5. Trip = "max_iterations" => iteration_count >= MaxAgentIterations
  BY DEF Trip, TripReason
<1>6. MaxAgentIterations \in Nat
  BY LimitsAssumption
<1> QED BY <1>1, <1>3, <1>4, <1>5, <1>6 DEF BreakerTrips

\* No other step adds one.
LEMMA EarnedPreserved ==
  TypeOK /\ TypeOK' /\ CapInv /\ EarnedInv /\ [Next]_vars => EarnedInv'
<1> SUFFICES ASSUME TypeOK, TypeOK', CapInv, EarnedInv, [Next]_vars,
                    NEW i \in DOMAIN trajectory', IsTrip(trajectory'[i]),
                    trajectory'[i].detail = "max_iterations"
             PROVE  trajectory'[i].step >= MaxAgentIterations
  BY DEF EarnedInv
<1>1. LogGrows
  BY LogStep
<1>2. DOMAIN trajectory = 1..Len(trajectory) /\ DOMAIN trajectory' = 1..Len(trajectory')
  BY LenProperties DEF TypeOK
<1>3. CASE i \in 1..Len(trajectory)
  BY <1>1, <1>2, <1>3 DEF LogGrows, EarnedInv
<1>4. CASE i \in (Len(trajectory) + 1)..Len(trajectory')
  <2>1. pc = "supervisor" /\ pc' = "synthesis" /\ i = Len(trajectory) + 1
    BY <1>1, <1>4 DEF LogGrows, NewEntryBy, IsTrip, Specialists
  <2>2. BreakerTrips
    BY <2>1 DEF Next, Progress, Terminated, Halted, AskForRoute, Route, SpecialistReturns,
                Synthesize, Persist, NodeRaises, Tick, vars, Specialists
  <2> DEFINE e == Entry(Len(trajectory), "circuit_breaker", "trip", Trip)
  <2>3. /\ trajectory' = Append(trajectory, e)
        /\ Trip = "max_iterations" => Len(trajectory) >= MaxAgentIterations
    BY <2>2, TripIsEarned
  <2>4. e.step = Len(trajectory) /\ e.detail = Trip
    BY DEF Entry
  <2> HIDE DEF e
  <2>5. trajectory'[i] = e
    BY <2>1, <2>3 DEF TypeOK
  <2> QED BY <2>3, <2>4, <2>5
<1>5. i \in 1..Len(trajectory) \/ i \in (Len(trajectory) + 1)..Len(trajectory')
  BY <1>1, <1>2 DEF LogGrows
<1> QED BY <1>3, <1>4, <1>5

\* A step that leaves the open stages for the answer writes the conclusion, and only it.
LEMMA ConclusionIsWritten ==
  ASSUME TypeOK, [Next]_vars, pc \in Open, pc' \in Answering
  PROVE  Len(trajectory') = Len(trajectory) + 1 /\ IsConclusion(trajectory'[Len(trajectory) + 1])
<1> DEFINE n == Len(trajectory)
<1>1. trajectory \in Seq(TrajectoryEntry) /\ n \in Nat
  BY DEF TypeOK
<1>2. CASE BreakerTrips
  <2> DEFINE e == Entry(n, "circuit_breaker", "trip", Trip)
  <2>1. trajectory' = Append(trajectory, e) /\ IsConclusion(e)
    BY <1>2 DEF BreakerTrips, IsConclusion, IsTrip, Entry
  <2> HIDE DEF e
  <2> QED BY <1>1, <2>1
<1>3. ASSUME NEW mentioned \in SUBSET RouteTargets, NEW usage \in Usage,
             Route(mentioned, usage)
      PROVE  Len(trajectory') = n + 1 /\ IsConclusion(trajectory'[n + 1])
  <2> DEFINE target == ParseRouting(mentioned)
             e == Entry(n, "supervisor", "route", target)
  <2>1. target = "synthesize"
    BY <1>3, ParseRoutingType DEF Route, NodeOf, Answering, RouteTargets, Specialists
  <2>2. trajectory' = Append(trajectory, e) /\ IsConclusion(e)
    BY <1>3, <2>1 DEF Route, IsConclusion, IsRoute, Entry
  <2> HIDE DEF e
  <2> QED BY <1>1, <2>2
<1>4. ~\E acts, usage, found : SpecialistReturns(acts, usage, found)
  BY DEF SpecialistReturns, Answering
<1>5. ~\E hits, missing, usage : Synthesize(hits, missing, usage)
  BY DEF Synthesize, Open, Specialists
<1>6. ~(AskForRoute \/ Persist \/ NodeRaises \/ Tick \/ UNCHANGED vars)
  BY DEF AskForRoute, Persist, NodeRaises, Tick, vars, Open, Answering, Specialists
<1> QED BY <1>2, <1>3, <1>4, <1>5, <1>6 DEF Next, Progress, Terminated

\* Once answering, only the sanitizer writes, and it neither concludes nor calls.
LEMMA ConcludedPreserved ==
  TypeOK /\ TypeOK' /\ ConcludedInv /\ [Next]_vars => ConcludedInv'
<1> SUFFICES ASSUME TypeOK, TypeOK', ConcludedInv, [Next]_vars PROVE ConcludedInv'
  OBVIOUS
<1> DEFINE n == Len(trajectory)
           m == Len(trajectory')
<1>1. /\ LogGrows
      /\ DOMAIN trajectory = 1..n /\ DOMAIN trajectory' = 1..m
      /\ n \in Nat /\ m \in Nat /\ n <= m
      /\ \A i \in 1..n : trajectory'[i] = trajectory[i]
      /\ \A i \in (n + 1)..m : NewEntryBy(i)
  BY LogStep, LenProperties DEF TypeOK, LogGrows
<1>2. \A i \in 1..m : i \in 1..n \/ i \in (n + 1)..m
  BY <1>1
<1>3. pc' \in Open => pc \in Open
  <2>1. pc \in Open \cup Concluding
    BY DEF TypeOK, Stages, Open, Concluding
  <2> QED BY <2>1, ConcludingStays DEF Open, Concluding, Specialists
<1>4. pc \in Open \/ pc \in Answering \/ pc' \notin Answering
  <2>1. pc = "raised" => pc' = "raised"
    BY DEF Next, Progress, BreakerTrips, AskForRoute, Route, SpecialistReturns, Synthesize,
       Persist, NodeRaises, Tick, Terminated, Halted, vars, Specialists
  <2> QED BY <2>1 DEF TypeOK, Stages, Open, Answering
<1>5. ASSUME pc' \in Open, NEW i \in 1..m PROVE ~IsConclusion(trajectory'[i])
  <2>1. CASE i \in 1..n
    BY <1>1, <1>3, <1>5, <2>1 DEF ConcludedInv
  <2>2. CASE i \in (n + 1)..m
    <3>1. NewEntryBy(i)
      BY <1>1, <2>2
    <3> QED BY <1>5, <3>1 DEF NewEntryBy, IsConclusion, IsTrip, IsRoute, NodeOf, Open, Specialists
  <2> QED BY <1>2, <1>5, <2>1, <2>2
<1>6. ASSUME pc \in Answering, pc' \in Answering
      PROVE  \E c : ConcludesAt(trajectory', c)
  <2>1. PICK c :
          /\ c \in 1..n /\ IsConclusion(trajectory[c])
          /\ \A i \in 1..n : IsConclusion(trajectory[i]) => i = c
          /\ \A i \in 1..n : i > c => trajectory[i].action \notin TurnActionNames
    BY <1>1, <1>6 DEF ConcludedInv, ConcludesAt
  <2>2. ASSUME NEW i \in (n + 1)..m
        PROVE  /\ ~IsConclusion(trajectory'[i])
               /\ trajectory'[i].action \notin TurnActionNames
    <3>1. NewEntryBy(i)
      BY <1>1
    <3> QED BY <1>6, <3>1 DEF NewEntryBy, IsConclusion, IsTrip, IsRoute, Answering, Specialists,
                              TurnActionNames
  <2>3. c \in 1..m /\ trajectory'[c] = trajectory[c]
    BY <1>1, <2>1
  <2>4. \A i \in 1..m : /\ IsConclusion(trajectory'[i]) => i = c
                        /\ i > c => trajectory'[i].action \notin TurnActionNames
    <3> SUFFICES ASSUME NEW i \in 1..m
                 PROVE  /\ IsConclusion(trajectory'[i]) => i = c
                        /\ i > c => trajectory'[i].action \notin TurnActionNames
      OBVIOUS
    <3>1. CASE i \in 1..n
      <4>1. trajectory'[i] = trajectory[i]
        BY <1>1, <3>1
      <4> QED BY <2>1, <3>1, <4>1
    <3>2. CASE i \in (n + 1)..m
      BY <2>2, <3>2
    <3> QED BY <1>2, <3>1, <3>2
  <2>5. ConcludesAt(trajectory', c)
    BY <1>1, <2>1, <2>3, <2>4 DEF ConcludesAt
  <2> QED BY <2>5
<1>7. ASSUME pc \in Open, pc' \in Answering
      PROVE  \E c : ConcludesAt(trajectory', c)
  <2>1. m = n + 1 /\ IsConclusion(trajectory'[n + 1])
    BY <1>7, ConclusionIsWritten
  <2>2. \A i \in 1..n : ~IsConclusion(trajectory'[i])
    BY <1>1, <1>7 DEF ConcludedInv
  <2>3. n + 1 \in 1..m /\ \A i \in 1..m : i \in 1..n \/ i = n + 1
    BY <1>1, <2>1
  <2>4. \A i \in 1..m : ~(i > n + 1)
    BY <1>1, <2>1
  <2>5. ConcludesAt(trajectory', n + 1)
    BY <1>1, <2>1, <2>2, <2>3, <2>4 DEF ConcludesAt
  <2> QED BY <2>5
<1>8. pc' \in Open => \A i \in DOMAIN trajectory' : ~IsConclusion(trajectory'[i])
  BY <1>1, <1>5
<1>9. pc' \in Answering => \E c : ConcludesAt(trajectory', c)
  BY <1>4, <1>6, <1>7
<1> QED BY <1>8, <1>9 DEF ConcludedInv, ConcludesAt, IsConclusion, IsTrip, IsRoute

\* A replay's state is that of a diagnosis, at every step of the command.
LEMMA ReplayPreserved ==
  ReplayInv /\ EarnedInv /\ ConcludedInv /\ [EvaluationNext]_evaluationVars
    => ReplayInv' /\ EarnedInv' /\ ConcludedInv'
<1> SUFFICES ASSUME ReplayInv, EarnedInv, ConcludedInv, [EvaluationNext]_evaluationVars
             PROVE  ReplayInv' /\ EarnedInv' /\ ConcludedInv'
  OBVIOUS
<1>1. CASE [Next]_vars
  <2>1. TypeOK /\ TypeOK' /\ store' = <<>>
    BY <1>1, TypePreserved, NoMemory DEF ReplayInv
  <2>2. StepsAreContiguous' /\ GuardrailInv' /\ OverrunInv' /\ CapInv'
    BY <1>1, <2>1, ContiguousPreserved, GuardrailPreserved, OverrunPreserved, CapPreserved
       DEF ReplayInv
  <2>3. ClosingInv' /\ RepeatInv' /\ EarnedInv' /\ ConcludedInv'
    BY <1>1, <2>1, ClosingPreserved, RepeatPreserved, EarnedPreserved, ConcludedPreserved
       DEF ReplayInv
  <2> QED BY <2>1, <2>2, <2>3 DEF ReplayInv
<1>2. CASE FreshState
  <2>1. Init'
    BY <1>2, EvaluationAssumption DEF FreshState, Init, ReplayInv
  <2> QED BY <2>1, InitInv, PTL
<1> QED BY <1>1, <1>2, ReplayStep

LEMMA ReplayInvariant == EvaluationSpec => [](ReplayInv /\ EarnedInv /\ ConcludedInv)
<1>1. EvaluationInit => Init
  BY DEF EvaluationInit
<1> QED BY <1>1, InitInv, ReplayPreserved, PTL DEF EvaluationSpec

\* Whatever the replays before it did, each keeps the bounds of a diagnosis.
THEOREM ReplaysAreBounded ==
  EvaluationSpec => [](/\ IterationCap /\ SuperstepBound /\ TripEndsRouting
                       /\ OneTurnPastBudget /\ NoFourthRepeat /\ StepsAreContiguous)
<1>1. ReplayInv => SuperstepBound
  BY ClosingBoundsSupersteps DEF ReplayInv
<1>2. ReplayInv => /\ IterationCap /\ TripEndsRouting /\ OneTurnPastBudget
                   /\ NoFourthRepeat /\ StepsAreContiguous
  BY DEF ReplayInv, CapInv, GuardrailInv, OverrunInv, OneTurnPastBudget, RepeatInv
<1> QED BY <1>1, <1>2, ReplayInvariant, PTL

-----------------------------------------------------------------------------
\* What is recorded.

\* What the metrics read of the log of a diagnosis that has ended.
LEMMA ScoredLogIsIndependent ==
  ASSUME ReplayInv, EarnedInv, ConcludedInv, pc = "end"
  PROVE  IndependentLog(ScoredLog(trajectory))
<1> DEFINE keep == {e \in ToSet(trajectory) :
                      e.action \in TurnActionNames \/ IsConclusion(e)}
           log == Matching(trajectory, keep)
<1>1. trajectory \in Seq(TrajectoryEntry) /\ DOMAIN trajectory = 1..Len(trajectory)
  BY LenProperties DEF ReplayInv, TypeOK
<1>2. log \in Seq(TrajectoryEntry)
      /\ \E g : KeepsPlaces(log, trajectory, keep, Len(trajectory), g)
  <2> HIDE DEF keep
  <2> QED BY <1>1, MatchingPlaces
<1> HIDE DEF log
<1>3. PICK g : /\ g \in [1..Len(log) -> 1..Len(trajectory)]
               /\ \A j, k \in 1..Len(log) : j < k => g[j] < g[k]
               /\ \A k \in 1..Len(log) : log[k] = trajectory[g[k]] /\ log[k] \in keep
               /\ \A i \in 1..Len(trajectory) :
                    trajectory[i] \in keep => \E k \in 1..Len(log) : g[k] = i
  <2> HIDE DEF keep
  <2> QED BY <1>2 DEF KeepsPlaces
<1>4. DOMAIN log = 1..Len(log) /\ Len(log) \in Nat
  BY <1>2, LenProperties
<1>5. ASSUME NEW i \in DOMAIN log, NEW j \in DOMAIN log, i < j
      PROVE  log[i].step < log[j].step
  <2>1. /\ g[i] \in DOMAIN trajectory /\ g[j] \in DOMAIN trajectory /\ g[i] < g[j]
        /\ log[i] = trajectory[g[i]] /\ log[j] = trajectory[g[j]]
    BY <1>1, <1>3, <1>4, <1>5
  <2>2. log[i].step = g[i] - 1 /\ log[j].step = g[j] - 1
    BY <2>1 DEF ReplayInv, StepsAreContiguous
  <2> QED BY <1>1, <2>1, <2>2
<1>6. ASSUME NEW i \in DOMAIN log, IsTrip(log[i]), log[i].detail = "max_iterations"
      PROVE  log[i].step >= MaxAgentIterations
  <2>1. g[i] \in DOMAIN trajectory /\ log[i] = trajectory[g[i]]
    BY <1>1, <1>3, <1>4
  <2> QED BY <1>6, <2>1 DEF EarnedInv
<1>7. PICK c \in 1..Len(trajectory) :
        /\ IsConclusion(trajectory[c])
        /\ \A i \in 1..Len(trajectory) :
             /\ IsConclusion(trajectory[i]) => i = c
             /\ i > c => trajectory[i].action \notin TurnActionNames
  BY <1>1 DEF ConcludedInv, ConcludesAt, Answering
<1>8. PICK last \in 1..Len(log) : g[last] = c
  <2>1. trajectory[c] \in keep
    BY <1>1, <1>7 DEF ToSet
  <2> QED BY <1>3, <2>1
<1>9. \A k \in 1..Len(log) : k <= last
  <2> SUFFICES ASSUME NEW k \in 1..Len(log), k > last PROVE FALSE
    BY <1>4
  <2>1. g[k] \in 1..Len(trajectory) /\ g[k] > c
    BY <1>3, <1>8
  <2>2. ~IsConclusion(trajectory[g[k]]) /\ trajectory[g[k]].action \notin TurnActionNames
    BY <1>7, <2>1
  <2> QED BY <1>3, <2>2
<1>10. last = Len(log) /\ log # <<>>
  <2>1. Len(log) \in 1..Len(log) /\ last >= Len(log)
    BY <1>4, <1>9
  <2>2. last = Len(log)
    <3>1. last \in 1..Len(log) /\ Len(log) \in Nat
      BY <1>4, <1>8
    <3> HIDE DEF log
    <3> QED BY <2>1, <3>1
  <2>3. log # <<>>
    <3>1. ASSUME log = <<>> PROVE Len(log) = 0
      BY <3>1
    <3>2. Len(log) >= 1
      BY <1>4, <2>1
    <3> QED BY <3>1, <3>2
  <2> QED BY <2>2, <2>3
<1>11. \A k \in 1..Len(log) : IsConclusion(log[k]) <=> k = Len(log)
  <2> SUFFICES ASSUME NEW k \in 1..Len(log) PROVE IsConclusion(log[k]) <=> k = last
    BY <1>10
  <2>1. g[k] \in 1..Len(trajectory) /\ log[k] = trajectory[g[k]]
    BY <1>3
  <2>2. IsConclusion(log[k]) <=> g[k] = c
    BY <1>7, <2>1
  <2>3. g[k] = c => k = last
    <3>1. k < last \/ k = last \/ last < k
      BY <1>4
    <3>2. /\ k < last => g[k] < g[last]
          /\ last < k => g[last] < g[k]
      BY <1>3
    <3> QED BY <1>1, <1>8, <2>1, <3>1, <3>2
  <2> QED BY <1>8, <2>2, <2>3
<1>12. IndependentLog(log)
  BY <1>4, <1>5, <1>6, <1>10, <1>11 DEF IndependentLog
<1> QED BY <1>12 DEF ScoredLog, log

\* The logs that are recorded, of the scenario under way and of the scored ones.
RecordedInv ==
  /\ DOMAIN runs = {evals} /\ DOMAIN results = {evals}
  /\ runs[evals] \in Seq(ToSet(runs[evals]))
  /\ results[evals] \in Seq(ToSet(results[evals]))
  /\ \A r \in ToSet(runs[evals]) : IndependentLog(r.trajectory)
  /\ \A i \in DOMAIN results[evals] :
       \A r \in ToSet(results[evals][i].runs) : IndependentLog(r.trajectory)

\* A replay that returns adds its own log, a scenario that is scored moves its own.
LEMMA RecordedPreserved ==
  ReplayInv /\ EarnedInv /\ ConcludedInv /\ RecordedInv /\ [EvaluationNext]_evaluationVars
    => RecordedInv'
<1> SUFFICES ASSUME ReplayInv, EarnedInv, ConcludedInv, RecordedInv,
                    [EvaluationNext]_evaluationVars
             PROVE  RecordedInv'
  OBVIOUS
<1> USE DEF RecordedInv
<1>1. ASSUME NEW verdict, ReplayReturns(verdict) PROVE RecordedInv'
  <2> DEFINE r == [scenario |-> Harness!Current(evals), trajectory |-> ScoredLog(trajectory),
                   diagnosis |-> verdict, tokens |-> tokens]
  <2>1. /\ runs' = [runs EXCEPT ![evals] = Append(@, r)]
        /\ results' = results
    BY <1>1 DEF ReplayReturns, Harness!RunReturns
  <2>2. IndependentLog(r.trajectory)
    BY <1>1, ScoredLogIsIndependent DEF ReplayReturns
  <2> HIDE DEF r
  <2>3. runs'[evals] = Append(runs[evals], r) /\ DOMAIN runs' = {evals}
    BY <2>1
  <2> DEFINE old == runs[evals]
             new == Append(old, r)
  <2>4. /\ new \in Seq(ToSet(new))
        /\ DOMAIN new = 1..(Len(old) + 1) /\ DOMAIN old = 1..Len(old) /\ Len(old) \in Nat
        /\ \A i \in DOMAIN old : new[i] = old[i]
        /\ new[Len(old) + 1] = r
    <3>1. old \in Seq(ToSet(old))
      OBVIOUS
    <3> HIDE DEF old
    <3> QED BY <3>1, AppendGrows, LenProperties
  <2>5. \A q \in ToSet(new) : q \in ToSet(old) \/ q = r
    <3> HIDE DEF old, new
    <3>1. \A i \in DOMAIN new : i \in DOMAIN old \/ i = Len(old) + 1
      BY <2>4
    <3> QED BY <2>4, <3>1 DEF ToSet
  <2>6. \A q \in ToSet(old) : IndependentLog(q.trajectory)
    OBVIOUS
  <2>7. runs'[evals] = new /\ results'[evals] = results[evals] /\ DOMAIN results' = {evals}
    BY <2>1, <2>3
  <2> HIDE DEF new, old
  <2> QED BY <2>1, <2>2, <2>3, <2>4, <2>5, <2>6, <2>7
<1>2. CASE Harness!Score(evals)
  <2> DEFINE s == [scenario |-> Harness!Current(evals), runs |-> runs[evals]]
             old == results[evals]
             new == Append(old, s)
  <2>1. /\ results' = [results EXCEPT ![evals] = Append(@, s)]
        /\ runs' = [runs EXCEPT ![evals] = <<>>]
    BY <1>2 DEF Harness!Score
  <2>2. s.runs = runs[evals]
    OBVIOUS
  <2> HIDE DEF s
  <2>3. /\ results'[evals] = new /\ DOMAIN results' = {evals}
        /\ runs'[evals] = <<>> /\ DOMAIN runs' = {evals}
    BY <2>1
  <2>4. /\ new \in Seq(ToSet(new))
        /\ DOMAIN new = 1..(Len(old) + 1) /\ DOMAIN old = 1..Len(old) /\ Len(old) \in Nat
        /\ \A i \in DOMAIN old : new[i] = old[i]
        /\ new[Len(old) + 1] = s
    <3>1. old \in Seq(ToSet(old))
      OBVIOUS
    <3> HIDE DEF old
    <3> QED BY <3>1, AppendGrows, LenProperties
  <2>5. \A i \in DOMAIN new : \A r \in ToSet(new[i].runs) : IndependentLog(r.trajectory)
    <3>1. \A i \in DOMAIN old : \A r \in ToSet(old[i].runs) : IndependentLog(r.trajectory)
      OBVIOUS
    <3>2. \A r \in ToSet(s.runs) : IndependentLog(r.trajectory)
      BY <2>2
    <3> HIDE DEF old, new
    <3>3. \A i \in DOMAIN new : i \in DOMAIN old \/ i = Len(old) + 1
      BY <2>4
    <3> QED BY <2>4, <3>1, <3>2, <3>3
  <2>6. <<>> \in Seq(ToSet(<<>>)) /\ ToSet(<<>>) = {}
    BY DEF ToSet
  <2> HIDE DEF new, old
  <2> QED BY <2>3, <2>4, <2>5, <2>6
<1>3. CASE UNCHANGED <<runs, results>>
  BY <1>3
<1>4. \/ \E verdict : ReplayReturns(verdict)
      \/ Harness!Score(evals)
      \/ UNCHANGED <<runs, results>>
  BY DEF EvaluationNext, evaluationVars, commandVars, ReplayProgress, GraphRuns, GraphWaits,
         ReplayRaises, CommandProgress, Harness!Bookkeeping, Harness!RunRaises,
         Harness!Begin, Harness!BeginFails, Harness!ScoreFails, Harness!Stamp, Harness!Open,
         Harness!Write, Harness!WriteFails
<1> QED BY <1>1, <1>2, <1>3, <1>4

\* No replay pays for the one before: the log recorded of one concludes once, at its end
\* and after all the calls that are scored, so that it cannot be one that goes on where
\* another ended; and a trip for the iterations has as many steps of that log before it.
THEOREM ReplaysDoNotMeet == EvaluationSpec => []ReplaysAreIndependent
<1>1. EvaluationInit => RecordedInv
  <2>1. EvaluationInit => runs = [c \in {evals} |-> <<>>] /\ results = [c \in {evals} |-> <<>>]
    BY DEF EvaluationInit, Harness!HarnessInit
  <2>2. <<>> \in Seq(ToSet(<<>>)) /\ ToSet(<<>>) = {} /\ DOMAIN <<>> = {}
    BY DEF ToSet
  <2> QED BY <2>1, <2>2 DEF RecordedInv
<1>2. RecordedInv => ReplaysAreIndependent
  BY DEF RecordedInv, ReplaysAreIndependent, Recorded
<1> QED BY <1>1, <1>2, RecordedPreserved, ReplayInvariant, PTL DEF EvaluationSpec

-----------------------------------------------------------------------------
\* The command is one of EvalHarness, and what holds of those holds of it.

Scored == INSTANCE EvalHarnessProofs WITH
  Commands   <- {evals},
  LastSecond <- 0,
  All        <- [c \in {evals} |-> All],
  Runs       <- [c \in {evals} |-> Runs],
  Outcomes   <- [s \in DOMAIN Gold |-> ReplayOutcomes]

\* Such a command meets what EvalHarness assumes of its parameters.
LEMMA ScoredAssumption ==
  /\ Directories \subseteq Seq([name : DOMAIN Gold, loads : BOOLEAN])
  /\ [c \in {evals} |-> All] \in [{evals} -> BOOLEAN]
  /\ [c \in {evals} |-> Runs] \in [{evals} -> Int]
  /\ \A scenario \in DOMAIN Gold :
       /\ Gold[scenario] \in Seq(Tools)
       /\ \A o \in [s \in DOMAIN Gold |-> ReplayOutcomes][scenario] :
            /\ o.trajectory \in Seq(Scored!TrajectoryEntry)
            /\ o.tokens \in Nat
  /\ 0 \in Nat
  /\ Scored!IsFiniteSet(Tools)
  /\ One \in Nat \ {0}
  /\ \A d \in 1..(2 * Scored!Cardinality(Tools)) : \E m \in 1..One : One = m * d
<1>1. Scored!TrajectoryEntry = TrajectoryEntry
  BY DEF Scored!TrajectoryEntry, TrajectoryEntry, Scored!Agents, Agents, Scored!TurnActionNames,
         TurnActionNames, Scored!EntryActions, EntryActions, Scored!Details, Details,
         Scored!Specialists, Specialists, Scored!Guardrails, Guardrails,
         Scored!RouteTargets, RouteTargets, Scored!TripReasons, TripReasons
<1>2. ASSUME NEW o \in ReplayOutcomes
      PROVE  o.trajectory \in Seq(Scored!TrajectoryEntry) /\ o.tokens \in Nat
  BY <1>1 DEF ReplayOutcomes
<1>3. Scored!IsFiniteSet(Tools)
  BY EvaluationAssumption DEF Scored!IsFiniteSet, IsFiniteSet
<1>4. Scored!Cardinality(Tools) = Cardinality(Tools)
  BY DEF Scored!Cardinality, Cardinality, Scored!IsFiniteSet, IsFiniteSet
<1> QED BY <1>2, <1>3, <1>4, EvaluationAssumption

\* What is scored of a diagnosis is one of the outcomes of a replay.
LEMMA ScoredOutcome ==
  ASSUME TypeOK, NEW verdict \in {"right", "wrong"}
  PROVE  [trajectory |-> ScoredLog(trajectory), diagnosis |-> verdict, tokens |-> tokens]
           \in ReplayOutcomes
<1>1. ScoredLog(trajectory) \in Seq(TrajectoryEntry)
  <2> DEFINE keep == {e \in ToSet(trajectory) :
                        e.action \in TurnActionNames \/ IsConclusion(e)}
  <2>1. ScoredLog(trajectory) = Matching(trajectory, keep)
    BY DEF ScoredLog
  <2> HIDE DEF keep
  <2> QED BY <2>1, MatchingPlaces DEF TypeOK
<1>2. tokens \in Nat
  BY DEF TypeOK
<1> QED BY <1>1, <1>2 DEF ReplayOutcomes

\* While it replays, the scenario it is at is one with a gold trajectory.
LEMMA ScoredScenario ==
  ASSUME Scored!TypeInv, Scored!Replaying(evals)
  PROVE  Scored!Current(evals) \in DOMAIN Gold
<1>1. directory \in Directories /\ directory # <<>>
  BY DEF Scored!TypeInv, Scored!HarnessTypeOK, Scored!Replaying
<1>2. Scored!Selected(evals) \in Seq(DOMAIN Gold)
  BY <1>1, ScoredAssumption, Scored!SelectedTyped DEF Scored!Scenarios
<1>3. Len(results[evals]) \in Nat /\ Len(results[evals]) < Len(Scored!Selected(evals))
  BY DEF Scored!TypeInv, Scored!HarnessTypeOK, Scored!Replaying, Scored!Remains
<1> QED BY <1>2, <1>3 DEF Scored!Current

\* A command starts as one of EvalHarness.
LEMMA ScoredInitially == EvaluationInit => Scored!HarnessInit
BY DEF EvaluationInit, Harness!HarnessInit, Scored!HarnessInit, Harness!Kinds, Scored!Kinds

\* Its bookkeeping is that of EvalHarness.
LEMMA ScoredBookkeeping ==
  ASSUME Harness!Bookkeeping(evals) PROVE Scored!Bookkeeping(evals)
<1>0. /\ Harness!Selected(evals) = Scored!Selected(evals)
      /\ Harness!Remains(evals) = Scored!Remains(evals)
      /\ Harness!Replaying(evals) = Scored!Replaying(evals)
      /\ Harness!Current(evals) = Scored!Current(evals)
  BY DEF Harness!Selected, Scored!Selected, Harness!Map, Scored!Map,
         Harness!Remains, Scored!Remains,
         Harness!Replaying, Scored!Replaying, Harness!Current, Scored!Current
<1>1. Harness!Begin(evals) => Scored!Begin(evals)
  BY DEF Harness!Begin, Scored!Begin
<1>2. Harness!BeginFails(evals) => Scored!BeginFails(evals)
  BY DEF Harness!BeginFails, Scored!BeginFails
<1>3. Harness!Score(evals) => Scored!Score(evals)
  BY <1>0 DEF Harness!Score, Scored!Score
<1>4. Harness!ScoreFails(evals) => Scored!ScoreFails(evals)
  BY <1>0 DEF Harness!ScoreFails, Scored!ScoreFails
<1>5. Harness!Stamp(evals) => Scored!Stamp(evals)
  BY <1>0 DEF Harness!Stamp, Scored!Stamp
<1>6. \A kind, before, after :
        Harness!Open(evals, kind, before, after) => Scored!Open(evals, kind, before, after)
  BY DEF Harness!Open, Scored!Open
<1>7. \A kind, before, after, rest :
        Harness!Write(evals, kind, before, after, rest)
          => Scored!Write(evals, kind, before, after, rest)
  BY DEF Harness!Write, Scored!Write
<1>8. Harness!WriteFails(evals) => Scored!WriteFails(evals)
  BY DEF Harness!WriteFails, Scored!WriteFails
<1> QED
  BY <1>1, <1>2, <1>3, <1>4, <1>5, <1>6, <1>7, <1>8 DEF Harness!Bookkeeping, Scored!Bookkeeping

\* Every step of the command is one of EvalHarness, or of a diagnosis and no step there.
LEMMA ScoredStep ==
  ASSUME TypeOK, Scored!TypeInv, [EvaluationNext]_evaluationVars
  PROVE  [Scored!HarnessNext]_(Scored!harnessVars)
<1>1. UNCHANGED commandVars => UNCHANGED Scored!harnessVars
  BY DEF Scored!harnessVars, commandVars
<1>2. ASSUME NEW verdict \in {"right", "wrong"}, ReplayReturns(verdict)
      PROVE  Scored!HarnessNext
  <2> DEFINE o == [trajectory |-> ScoredLog(trajectory), diagnosis |-> verdict,
                   tokens |-> tokens]
  <2>1. o \in ReplayOutcomes
    BY ScoredOutcome
  <2>2. Harness!RunReturns(evals, o)
    BY <1>2 DEF ReplayReturns
  <2> HIDE DEF o
  <2>3. Scored!RunReturns(evals, o)
    BY <2>2 DEF Harness!RunReturns, Scored!RunReturns, Harness!Replaying, Scored!Replaying,
       Harness!Remains, Scored!Remains, Harness!Selected, Scored!Selected, Harness!Map, Scored!Map,
       Harness!Current, Scored!Current
  <2>4. Scored!Replaying(evals)
    BY <2>3 DEF Scored!RunReturns
  <2>5. o \in [s \in DOMAIN Gold |-> ReplayOutcomes][Scored!Current(evals)]
    BY <2>1, <2>4, ScoredScenario
  <2> QED BY <2>3, <2>4, <2>5 DEF Scored!HarnessNext, Scored!Replay
<1>3. ASSUME ReplayRaises PROVE Scored!HarnessNext
  <2>1. Scored!RunRaises(evals)
    BY <1>3 DEF ReplayRaises, Harness!RunRaises, Scored!RunRaises, Harness!Replaying,
       Scored!Replaying, Harness!Remains, Scored!Remains, Harness!Selected, Scored!Selected,
       Harness!Map, Scored!Map
  <2> QED BY <2>1 DEF Scored!HarnessNext, Scored!Replay
<1>4. ASSUME CommandProgress PROVE Scored!HarnessNext
  <2>1. Scored!Bookkeeping(evals)
    BY <1>4, ScoredBookkeeping DEF CommandProgress
  <2> QED BY <2>1 DEF Scored!HarnessNext
<1>5. \/ \E verdict \in {"right", "wrong"} : ReplayReturns(verdict)
      \/ ReplayRaises
      \/ CommandProgress
      \/ UNCHANGED commandVars
  BY DEF EvaluationNext, evaluationVars, ReplayProgress, GraphRuns, GraphWaits
<1> QED BY <1>1, <1>2, <1>3, <1>4, <1>5

\* To the harness, a diagnosis run by the graph is a replay that returns one of its
\* outcomes or raises: every step of the command implements one of EvalHarness, or
\* changes nothing that EvalHarness has.
THEOREM EvaluationImplementsHarness == EvaluationSpec => Scored!HarnessSafety
<1>1. Scored!HarnessInit => Scored!TypeInv
  BY ScoredAssumption, Scored!TypeInitially
<1>2. Scored!TypeInv /\ [Scored!HarnessNext]_(Scored!harnessVars) => Scored!TypeInv'
  BY ScoredAssumption, Scored!TypePreserved
<1>3. ReplayInv => TypeOK
  BY DEF ReplayInv
<1> QED BY <1>1, <1>2, <1>3, ScoredInitially, ScoredStep, ReplayInvariant, PTL
        DEF EvaluationSpec, Scored!HarnessSafety

\* What is in the reports, and what the scores are, when the replays are diagnoses run
\* by the graph and not outcomes that someone chose.
THEOREM WholeReportsAreSound ==
  EvaluationSpec => [](/\ Scored!ReportsAreComplete /\ Scored!ReportsAreKept
                       /\ Scored!ScoresAreSound /\ Scored!F1IsHarmonic
                       /\ Scored!ReplayOrderIrrelevant)
<1>1. Scored!HarnessSafety => []Scored!ReportsAreComplete
  BY ScoredAssumption, Scored!ReportsComplete
<1>2. Scored!HarnessSafety => []Scored!ReportsAreKept
  BY ScoredAssumption, Scored!ReportsKept
<1>3. Scored!HarnessSafety => []Scored!ScoresAreSound
  BY ScoredAssumption, Scored!ScoresSound
<1>4. Scored!HarnessSafety => []Scored!F1IsHarmonic
  BY ScoredAssumption, Scored!F1Harmonic
<1>5. Scored!HarnessSafety => []Scored!ReplayOrderIrrelevant
  BY ScoredAssumption, Scored!OrderIsIrrelevant
<1> QED BY <1>1, <1>2, <1>3, <1>4, <1>5, EvaluationImplementsHarness, PTL
=============================================================================
