------------------------ MODULE IncidentGraphProofs ------------------------
(***************************************************************************)
(* Theorems about IncidentGraph, for every value of its constants.         *)
(***************************************************************************)
EXTENDS IncidentGraph, FiniteSetTheorems, SequenceTheorems, TLAPS

\* The vocabulary of the log is closed under the constructors of its entries.
LEMMA EntryType ==
  ASSUME NEW step \in Nat, NEW agent \in Agents, NEW action, NEW detail,
         \/ action \in TurnActionNames /\ detail \in Tools
         \/ action \in EntryActions \ TurnActionNames /\ detail \in Details
  PROVE  Entry(step, agent, action, detail) \in TrajectoryEntry
BY DEF Entry, TrajectoryEntry

\* What every entry has, whoever signed it.
LEMMA EntryFields ==
  ASSUME NEW e \in TrajectoryEntry
  PROVE  e.step \in Nat /\ e.agent \in Agents /\ e.action \in EntryActions
BY DEF TrajectoryEntry, EntryActions

\* The calls of a specialist, and what else may be logged.
LoggedAction ==
  LoggedCall \cup [action : EntryActions \ TurnActionNames, detail : Details]

\* A reply always parses to one of the four routes.
LEMMA ParseRoutingType ==
  ASSUME NEW mentioned PROVE ParseRouting(mentioned) \in RouteTargets
BY DEF ParseRouting, RouteTargets, Specialists

\* What the breaker says: a reason, or "none" and then no limit is reached.
LEMMA TripReasonMeans ==
  ASSUME NEW iterations \in Nat, NEW spent \in Nat, NEW time \in Nat, NEW log
  PROVE  LET reason == TripReason(iterations, spent, time, log) IN
         /\ reason \in TripReasons \cup {"none"}
         /\ reason = "none" => /\ iterations < MaxAgentIterations
                               /\ spent < MaxTotalTokens
                               /\ time < AgentTimeout
BY LimitsAssumption DEF TripReason, TripReasons

\* A function on 1..n is a sequence of length n.
LEMMA FunctionIsSeq ==
  ASSUME NEW S, NEW n \in Nat, NEW f \in [1..n -> S]
  PROVE  f \in Seq(S) /\ Len(f) = n
<1>1. f \in Seq(S)
  BY SeqDef
<1>2. DOMAIN f = 1..n /\ DOMAIN f = 1..Len(f) /\ Len(f) \in Nat
  BY <1>1, LenProperties
<1> QED BY <1>1, <1>2

\* The entries a node adds for a sequence of actions: as many, typed, signed by
\* the agent and numbered from the base step.
LEMMA CallEntriesType ==
  ASSUME NEW base \in Nat, NEW agent \in Agents, NEW acts \in Seq(LoggedAction)
  PROVE  LET new == CallEntries(base, agent, acts) IN
         /\ new \in Seq(TrajectoryEntry)
         /\ Len(new) = Len(acts)
         /\ \A i \in 1..Len(acts) :
               new[i] = Entry(base + i - 1, agent, acts[i].action, acts[i].detail)
<1> DEFINE n == Len(acts)
           new == CallEntries(base, agent, acts)
           EntryOf(i) == Entry(base + i - 1, agent, acts[i].action, acts[i].detail)
<1>1. n \in Nat /\ acts \in [1..n -> LoggedAction]
  OBVIOUS
<1>2. \A i \in 1..n : EntryOf(i) \in TrajectoryEntry
  <2> SUFFICES ASSUME NEW i \in 1..n PROVE EntryOf(i) \in TrajectoryEntry
    OBVIOUS
  <2>1. base + i - 1 \in Nat /\ acts[i] \in LoggedAction
    BY <1>1
  <2>2. \/ acts[i].action \in TurnActionNames /\ acts[i].detail \in Tools
        \/ acts[i].action \in EntryActions \ TurnActionNames /\ acts[i].detail \in Details
    BY <2>1 DEF LoggedAction, LoggedCall
  <2> QED BY <2>1, <2>2, EntryType
<1>3. new \in [1..n -> TrajectoryEntry]
  BY <1>2 DEF CallEntries
<1>4. new \in Seq(TrajectoryEntry) /\ Len(new) = n
  <2> HIDE DEF new
  <2> QED BY <1>1, <1>3, FunctionIsSeq
<1> QED BY <1>4 DEF CallEntries

-----------------------------------------------------------------------------

\* What each node adds to the log, whichever way it returns.
LEMMA TripEntryType ==
  ASSUME TypeOK, Trip # "none"
  PROVE  Entry(Len(trajectory), "circuit_breaker", "trip", Trip) \in TrajectoryEntry
<1>1. Len(trajectory) \in Nat /\ iteration_count \in Nat /\ tokens \in Nat /\ elapsed \in Nat
  BY GraphAssumption DEF TypeOK
<1>2. Trip \in TripReasons
  BY <1>1, TripReasonMeans DEF Trip
<1>3. "circuit_breaker" \in Agents /\ Trip \in Details
      /\ "trip" \in EntryActions \ TurnActionNames
  BY <1>2 DEF Agents, Guardrails, EntryActions, TurnActionNames, Details
<1> QED BY <1>1, <1>3, EntryType

\* A decision of the supervisor is a log entry whatever the reply.
LEMMA RouteEntryType ==
  ASSUME TypeOK, NEW target \in RouteTargets
  PROVE  Entry(Len(trajectory), "supervisor", "route", target) \in TrajectoryEntry
<1>1. Len(trajectory) \in Nat
  BY DEF TypeOK
<1>2. "supervisor" \in Agents /\ target \in Details
      /\ "route" \in EntryActions \ TurnActionNames
  BY DEF Agents, EntryActions, TurnActionNames, Details
<1> QED BY <1>1, <1>2, EntryType

\* A turn of a specialist adds as many well-formed entries as it took actions.
LEMMA SpecialistEntriesType ==
  ASSUME TypeOK, pc \in Specialists, NEW acts \in TurnActions
  PROVE  LET new == CallEntries(Len(trajectory), pc, acts) IN
         /\ acts \in Seq(LoggedCall)
         /\ new \in Seq(TrajectoryEntry)
         /\ Len(new) = Len(acts)
         /\ \A i \in 1..Len(acts) :
               new[i] = Entry(Len(trajectory) + i - 1, pc, acts[i].action, acts[i].detail)
<1>1. acts \in Seq(LoggedCall)
  BY GraphAssumption
<1>2. LoggedCall \subseteq LoggedAction /\ pc \in Agents
  BY DEF LoggedAction, Agents
<1>3. acts \in Seq(LoggedAction)
  BY <1>1, <1>2, SeqMonotonic
<1>4. Len(trajectory) \in Nat
  BY DEF TypeOK
<1> QED BY <1>1, <1>2, <1>3, <1>4, CallEntriesType

\* The two flags the sanitizer may raise, in the order it raises them.
Flags(hits, missing) ==
  (IF hits THEN <<Flag("sanitized")>> ELSE <<>>)
    \o (IF missing THEN <<Flag("incomplete_synthesis")>> ELSE <<>>)

SanitizerFlags == {Flag("sanitized"), Flag("incomplete_synthesis")}

\* The sanitizer adds at most two entries, both its own.
LEMMA SanitizerEntriesType ==
  ASSUME TypeOK, NEW hits \in BOOLEAN, NEW missing \in BOOLEAN
  PROVE  LET new == CallEntries(Len(trajectory), "sanitizer", Flags(hits, missing)) IN
         /\ Flags(hits, missing) \in Seq(SanitizerFlags)
         /\ new \in Seq(TrajectoryEntry)
         /\ Len(new) = Len(Flags(hits, missing))
         /\ \A i \in 1..Len(new) :
               new[i] = Entry(Len(trajectory) + i - 1, "sanitizer",
                              Flags(hits, missing)[i].action, Flags(hits, missing)[i].detail)
<1>1. SanitizerFlags \subseteq LoggedAction /\ "sanitizer" \in Agents
  BY DEF SanitizerFlags, LoggedAction, Flag, EntryActions, TurnActionNames, Details, Agents,
         Guardrails
<1>2. /\ (IF hits THEN <<Flag("sanitized")>> ELSE <<>>) \in Seq(SanitizerFlags)
      /\ (IF missing THEN <<Flag("incomplete_synthesis")>> ELSE <<>>) \in Seq(SanitizerFlags)
  <2>1. Flag("sanitized") \in SanitizerFlags /\ Flag("incomplete_synthesis") \in SanitizerFlags
    BY DEF SanitizerFlags
  <2> HIDE DEF SanitizerFlags, Flag
  <2> QED BY <2>1
<1>3. /\ Flags(hits, missing) \in Seq(SanitizerFlags)
      /\ Flags(hits, missing) \in Seq(LoggedAction)
  BY <1>1, <1>2, SeqMonotonic DEF Flags
<1>4. Len(trajectory) \in Nat
  BY DEF TypeOK
<1> QED BY <1>1, <1>3, <1>4, CallEntriesType

\* The prompt quotes two past diagnoses at most.
LEMMA PriorContextType == ASSUME TypeOK PROVE PriorContext \in 0..PriorLimit
<1>1. ASSUME NEW n \in Nat PROVE (IF n < 2 THEN n ELSE 2) \in 0..2
  OBVIOUS
<1>2. Len(store) \in Nat
  BY LenProperties DEF TypeOK
<1>3. CASE WithStore /\ trajectory = <<>>
  <2>1. PriorContext = IF Len(store) < PriorLimit THEN Len(store) ELSE PriorLimit
    BY <1>3 DEF PriorContext
  <2> QED BY <1>1, <1>2, <2>1 DEF PriorLimit
<1>4. CASE ~(WithStore /\ trajectory = <<>>)
  <2>1. PriorContext = 0
    BY <1>4 DEF PriorContext
  <2> QED BY <2>1 DEF PriorLimit
<1> QED BY <1>3, <1>4

\* The type invariant is inductive.
LEMMA TypeInitially == Init => TypeOK
<1> SUFFICES ASSUME Init PROVE TypeOK
  OBVIOUS
<1>1. store \in Seq(IncidentRecord)
  <2>1. CASE WithStore
    BY <2>1, GraphAssumption DEF Init
  <2>2. CASE ~WithStore
    BY <2>2, EmptySeq DEF Init
  <2> QED BY <2>1, <2>2
<1>2. NoPrompt \in Prompts
  BY DEF NoPrompt, Prompts, PriorLimit
<1> QED BY <1>1, <1>2, GraphAssumption DEF Init, TypeOK, Stages

\* Each node returns values of the types GraphState declares.
LEMMA TypePreserved == TypeOK /\ [Next]_vars => TypeOK'
<1> SUFFICES ASSUME TypeOK, [Next]_vars PROVE TypeOK'
  OBVIOUS
<1> USE DEF TypeOK
<1>0. NoPrompt \in Prompts
  BY DEF NoPrompt, Prompts, PriorLimit
<1>1. CASE BreakerTrips
  <2>1. trajectory' \in Seq(TrajectoryEntry)
    BY <1>1, TripEntryType DEF BreakerTrips
  <2>2. next_agent' \in RouteTargets /\ pc' \in Stages
    BY <1>1 DEF BreakerTrips, NodeOf, RouteTargets, Stages
  <2> QED BY <1>1, <2>1, <2>2 DEF BreakerTrips
<1>2. CASE AskForRoute
  <2>1. PriorContext \in 0..PriorLimit
    BY PriorContextType
  <2>2. AgentsConsulted(trajectory) \subseteq Agents
    <3> SUFFICES ASSUME NEW i \in DOMAIN trajectory
                 PROVE  trajectory[i].agent \in Agents
      BY DEF AgentsConsulted
    <3>1. trajectory[i] \in TrajectoryEntry
      BY LenProperties, ElementOfSeq
    <3> QED BY <3>1, EntryFields
  <2>3. prompt' \in Prompts
    BY <1>2, <2>1, <2>2 DEF AskForRoute, Prompts
  <2> QED BY <1>2, <2>3 DEF AskForRoute, Stages
<1>3. ASSUME NEW mentioned \in SUBSET RouteTargets, NEW usage \in Usage,
             Route(mentioned, usage)
      PROVE  TypeOK'
  <2>1. next_agent' \in RouteTargets /\ pc' = NodeOf(next_agent')
    BY <1>3, ParseRoutingType DEF Route
  <2>2. pc' \in Stages
    BY <2>1 DEF NodeOf, RouteTargets, Stages
  <2>3. trajectory' \in Seq(TrajectoryEntry)
    BY <1>3, ParseRoutingType, RouteEntryType DEF Route
  <2>4. tokens' \in Nat /\ overruns' \in Nat
    BY <1>3, GraphAssumption DEF Route
  <2> QED BY <1>0, <1>3, <2>1, <2>2, <2>3, <2>4 DEF Route
<1>4. ASSUME NEW acts \in TurnActions, NEW usage \in TurnUsage, NEW reports \in BOOLEAN,
             SpecialistReturns(acts, usage, reports)
      PROVE  TypeOK'
  <2>1. trajectory' \in Seq(TrajectoryEntry)
    BY <1>4, SpecialistEntriesType, ConcatProperties DEF SpecialistReturns
  <2>2. findings' \in Seq(Specialists) /\ tokens' \in Nat /\ iteration_count' \in Nat
    BY <1>4, GraphAssumption DEF SpecialistReturns
  <2> QED BY <1>4, <2>1, <2>2 DEF SpecialistReturns, Stages
<1>5. ASSUME NEW hits \in BOOLEAN, NEW missing \in BOOLEAN, NEW usage \in Usage,
             Synthesize(hits, missing, usage)
      PROVE  TypeOK'
  <2>1. trajectory' = trajectory \o
            CallEntries(Len(trajectory), "sanitizer", Flags(hits, missing))
    BY <1>5 DEF Synthesize, Flags
  <2>2. trajectory' \in Seq(TrajectoryEntry)
    BY <2>1, SanitizerEntriesType, ConcatProperties
  <2>3. diagnosis' \in Diagnoses /\ tokens' \in Nat
    BY <1>5, GraphAssumption DEF Synthesize, Diagnoses
  <2> QED BY <1>5, <2>2, <2>3 DEF Synthesize, Stages
<1>6. CASE Persist
  <2>1. diagnosis # "none" =>
          [diagnosis |-> diagnosis, findings |-> findings] \in IncidentRecord
    BY DEF IncidentRecord
  <2>2. store' \in Seq(IncidentRecord)
    BY <1>6, <2>1 DEF Persist
  <2> QED BY <1>6, <2>2 DEF Persist, Stages
<1>7. CASE NodeRaises
  BY <1>0, <1>7 DEF NodeRaises, Stages
<1>8. CASE Tick
  BY <1>8, GraphAssumption DEF Tick
<1>9. CASE UNCHANGED vars
  BY <1>9 DEF vars
<1> QED BY <1>1, <1>2, <1>3, <1>4, <1>5, <1>6, <1>7, <1>8, <1>9
        DEF Next, Progress, Terminated

\* Every value the graph's state takes is of the type GraphState gives it.
THEOREM TypeCorrect == Spec => []TypeOK
<1>1. Init => TypeOK
  BY TypeInitially
<1>2. TypeOK /\ [Next]_vars => TypeOK'
  BY TypePreserved
<1> QED BY <1>1, <1>2, PTL DEF Spec

-----------------------------------------------------------------------------

\* How a step may extend the log: it leaves what is there, and every new entry is
\* numbered with its place and signed by the node that ran.
NewEntryBy(i) ==
  LET e == trajectory'[i] IN
  /\ e.step = i - 1
  /\ \/ /\ pc = "supervisor" /\ pc' = "synthesis"
        /\ e.agent = "circuit_breaker" /\ e.action = "trip"
        /\ Len(trajectory') = Len(trajectory) + 1
     \/ /\ pc = "routing" /\ pc' = NodeOf(e.detail)
        /\ e.agent = "supervisor" /\ e.action = "route" /\ e.detail \in RouteTargets
        /\ Len(trajectory') = Len(trajectory) + 1
     \/ /\ pc \in Specialists /\ pc' = "supervisor"
        /\ e.agent = pc /\ e.action \in TurnActionNames
     \/ /\ pc = "synthesis" /\ pc' = "persist"
        /\ e.agent = "sanitizer" /\ e.action \in {"sanitized", "incomplete_synthesis"}

LogGrows ==
  /\ Len(trajectory) \in Nat /\ Len(trajectory') \in Nat
  /\ Len(trajectory) <= Len(trajectory')
  /\ \A i \in 1..Len(trajectory) : trajectory'[i] = trajectory[i]
  /\ \A i \in (Len(trajectory) + 1)..Len(trajectory') : NewEntryBy(i)

\* Appending one entry that NewEntryBy allows, or none, makes the log grow.
LEMMA LogUnchanged == ASSUME TypeOK, trajectory' = trajectory PROVE LogGrows
<1>1. Len(trajectory) \in Nat
  BY DEF TypeOK
<1> QED BY <1>1 DEF LogGrows

\* What concatenation does to a log, place by place.
LEMMA Concatenated ==
  ASSUME NEW log \in Seq(TrajectoryEntry), NEW new \in Seq(TrajectoryEntry)
  PROVE  /\ log \o new \in Seq(TrajectoryEntry)
         /\ Len(log) \in Nat /\ Len(new) \in Nat
         /\ Len(log \o new) = Len(log) + Len(new)
         /\ \A i \in 1..(Len(log) + Len(new)) :
              (log \o new)[i] = IF i <= Len(log) THEN log[i] ELSE new[i - Len(log)]
BY ConcatProperties, LenProperties

\* Every step of the graph extends the log in one of the ways of NewEntryBy.
LEMMA LogStep == TypeOK /\ [Next]_vars => LogGrows
<1> SUFFICES ASSUME TypeOK, [Next]_vars PROVE LogGrows
  OBVIOUS
<1> DEFINE n == Len(trajectory)
<1>0. trajectory \in Seq(TrajectoryEntry) /\ n \in Nat
  BY DEF TypeOK
<1>1. CASE BreakerTrips
  <2> DEFINE e == Entry(n, "circuit_breaker", "trip", Trip)
  <2>1. trajectory' = Append(trajectory, e) /\ e \in TrajectoryEntry
    BY <1>1, TripEntryType DEF BreakerTrips
  <2> HIDE DEF e
  <2>2. /\ Len(trajectory') = n + 1
        /\ trajectory'[n + 1] = e
        /\ \A i \in 1..n : trajectory'[i] = trajectory[i]
    BY <1>0, <2>1
  <2>3. pc = "supervisor" /\ pc' = "synthesis"
    BY <1>1 DEF BreakerTrips, NodeOf
  <2>4. e.step = n /\ e.agent = "circuit_breaker" /\ e.action = "trip"
    BY DEF e, Entry
  <2>5. NewEntryBy(n + 1)
    BY <1>0, <2>2, <2>3, <2>4 DEF NewEntryBy
  <2> QED BY <1>0, <2>2, <2>5 DEF LogGrows
<1>2. ASSUME NEW mentioned \in SUBSET RouteTargets, NEW usage \in Usage,
             Route(mentioned, usage)
      PROVE  LogGrows
  <2> DEFINE target == ParseRouting(mentioned)
             e == Entry(n, "supervisor", "route", target)
  <2>1. target \in RouteTargets
    BY ParseRoutingType
  <2>2. trajectory' = Append(trajectory, e) /\ e \in TrajectoryEntry
    BY <1>2, <2>1, RouteEntryType DEF Route
  <2>3. pc = "routing" /\ pc' = NodeOf(target)
    BY <1>2 DEF Route
  <2>4. e.step = n /\ e.agent = "supervisor" /\ e.action = "route" /\ e.detail = target
    BY DEF Entry
  <2> HIDE DEF e, target
  <2>5. /\ Len(trajectory') = n + 1
        /\ trajectory'[n + 1] = e
        /\ \A i \in 1..n : trajectory'[i] = trajectory[i]
    BY <1>0, <2>2
  <2>6. NewEntryBy(n + 1)
    BY <1>0, <2>1, <2>3, <2>4, <2>5 DEF NewEntryBy
  <2> QED BY <1>0, <2>5, <2>6 DEF LogGrows
<1>3. ASSUME NEW acts \in TurnActions, NEW usage \in TurnUsage, NEW reports \in BOOLEAN,
             SpecialistReturns(acts, usage, reports)
      PROVE  LogGrows
  <2> DEFINE new == CallEntries(n, pc, acts)
  <2>1. pc \in Specialists /\ pc' = "supervisor" /\ trajectory' = trajectory \o new
    BY <1>3 DEF SpecialistReturns
  <2>2. /\ acts \in Seq(LoggedCall)
        /\ new \in Seq(TrajectoryEntry)
        /\ Len(new) = Len(acts)
        /\ \A i \in 1..Len(new) :
              new[i] = Entry(n + i - 1, pc, acts[i].action, acts[i].detail)
    BY <2>1, SpecialistEntriesType
  <2> HIDE DEF new
  <2>3. /\ Len(trajectory') = n + Len(new)
        /\ Len(new) \in Nat
        /\ \A i \in 1..(n + Len(new)) :
              trajectory'[i] = IF i <= n THEN trajectory[i] ELSE new[i - n]
    BY <1>0, <2>1, <2>2, Concatenated
  <2>4. ASSUME NEW i \in (n + 1)..Len(trajectory') PROVE NewEntryBy(i)
    <3>1. i - n \in 1..Len(new) /\ trajectory'[i] = new[i - n]
      BY <1>0, <2>3
    <3>2. new[i - n] = Entry(n + (i - n) - 1, pc, acts[i - n].action, acts[i - n].detail)
      BY <2>2, <3>1
    <3>3. acts[i - n] \in LoggedCall /\ n + (i - n) - 1 = i - 1
      BY <1>0, <2>2, <3>1, ElementOfSeq
    <3>4. /\ trajectory'[i].step = i - 1
          /\ trajectory'[i].agent = pc
          /\ trajectory'[i].action \in TurnActionNames
      BY <3>1, <3>2, <3>3 DEF Entry, LoggedCall
    <3> QED BY <2>1, <3>4 DEF NewEntryBy
  <2> QED BY <1>0, <2>3, <2>4 DEF LogGrows
<1>4. ASSUME NEW hits \in BOOLEAN, NEW missing \in BOOLEAN, NEW usage \in Usage,
             Synthesize(hits, missing, usage)
      PROVE  LogGrows
  <2> DEFINE acts == Flags(hits, missing)
             new == CallEntries(n, "sanitizer", acts)
  <2>1. pc = "synthesis" /\ pc' = "persist" /\ trajectory' = trajectory \o new
    BY <1>4 DEF Synthesize, Flags
  <2>2. /\ new \in Seq(TrajectoryEntry)
        /\ \A i \in 1..Len(new) :
              new[i] = Entry(n + i - 1, "sanitizer", acts[i].action, acts[i].detail)
        /\ acts \in Seq(SanitizerFlags) /\ Len(new) = Len(acts)
    BY SanitizerEntriesType
  <2> HIDE DEF new, acts
  <2>3. /\ Len(trajectory') = n + Len(new)
        /\ Len(new) \in Nat
        /\ \A i \in 1..(n + Len(new)) :
              trajectory'[i] = IF i <= n THEN trajectory[i] ELSE new[i - n]
    BY <1>0, <2>1, <2>2, Concatenated
  <2>4. ASSUME NEW i \in (n + 1)..Len(trajectory') PROVE NewEntryBy(i)
    <3>1. i - n \in 1..Len(new) /\ trajectory'[i] = new[i - n]
      BY <1>0, <2>3
    <3>2. new[i - n] = Entry(i - 1, "sanitizer", acts[i - n].action, acts[i - n].detail)
      BY <1>0, <2>2, <3>1
    <3>3. acts[i - n] \in SanitizerFlags
      BY <1>0, <2>2, <3>1, ElementOfSeq
    <3>4. acts[i - n].action \in {"sanitized", "incomplete_synthesis"}
      BY <3>3 DEF SanitizerFlags, Flag
    <3> QED BY <2>1, <3>1, <3>2, <3>4 DEF NewEntryBy, Entry
  <2> QED BY <1>0, <2>3, <2>4 DEF LogGrows
<1>5. CASE AskForRoute \/ Persist \/ NodeRaises \/ Tick \/ UNCHANGED vars
  <2>1. trajectory' = trajectory
    BY <1>5 DEF AskForRoute, Persist, NodeRaises, Tick, vars
  <2> QED BY <2>1, LogUnchanged
<1> QED BY <1>1, <1>2, <1>3, <1>4, <1>5 DEF Next, Progress, Terminated

\* A step numbers what it adds from the length of the log it was given.
LEMMA ContiguousPreserved ==
  TypeOK /\ TypeOK' /\ StepsAreContiguous /\ [Next]_vars => StepsAreContiguous'
<1> SUFFICES ASSUME TypeOK, TypeOK', StepsAreContiguous, [Next]_vars,
                    NEW i \in DOMAIN trajectory'
             PROVE  trajectory'[i].step = i - 1
  BY DEF StepsAreContiguous
<1>1. LogGrows
  BY LogStep
<1>2. DOMAIN trajectory = 1..Len(trajectory) /\ DOMAIN trajectory' = 1..Len(trajectory')
  BY LenProperties DEF TypeOK
<1>3. CASE i \in 1..Len(trajectory)
  BY <1>1, <1>2, <1>3 DEF LogGrows, StepsAreContiguous
<1>4. CASE i \in (Len(trajectory) + 1)..Len(trajectory')
  BY <1>1, <1>4 DEF LogGrows, NewEntryBy
<1>5. i \in 1..Len(trajectory) \/ i \in (Len(trajectory) + 1)..Len(trajectory')
  BY <1>1, <1>2 DEF LogGrows
<1> QED BY <1>3, <1>4, <1>5

\* The log is numbered without gap or repetition, across nodes and turns.
THEOREM LogContiguous == Spec => []StepsAreContiguous
<1>1. Init => StepsAreContiguous
  BY DEF Init, StepsAreContiguous
<1> QED BY <1>1, ContiguousPreserved, TypeCorrect, PTL DEF Spec

-----------------------------------------------------------------------------

\* The stages from which the graph goes forward only.
Concluding == {"synthesis", "persist", "end", "raised"}

\* A guardrail's entry is in the log only when the graph is concluding, and what
\* follows a trip is the sanitizer's.
GuardrailInv ==
  /\ TripEndsRouting
  /\ \A i \in DOMAIN trajectory :
        trajectory[i].agent \in Guardrails => pc \in Concluding

\* Nothing leads back from the concluding stages to the supervisor.
LEMMA ConcludingStays ==
  ASSUME [Next]_vars, pc \in Concluding PROVE pc' \in Concluding
<1> USE DEF Concluding
<1>1. ASSUME NEW mentioned, NEW usage, Route(mentioned, usage) PROVE FALSE
  BY <1>1 DEF Route
<1>2. ASSUME NEW acts, NEW usage, NEW reports, SpecialistReturns(acts, usage, reports)
      PROVE  FALSE
  BY <1>2 DEF SpecialistReturns, Specialists
<1>3. ASSUME NEW hits, NEW missing, NEW usage, Synthesize(hits, missing, usage)
      PROVE  pc' \in Concluding
  BY <1>3 DEF Synthesize
<1>4. CASE BreakerTrips \/ AskForRoute
  BY <1>4 DEF BreakerTrips, AskForRoute
<1>5. CASE Persist \/ NodeRaises
  BY <1>5 DEF Persist, NodeRaises
<1>6. CASE Tick \/ UNCHANGED vars
  BY <1>6 DEF Tick, vars
<1> QED BY <1>1, <1>2, <1>3, <1>4, <1>5, <1>6 DEF Next, Progress, Terminated

\* A step keeps guardrails out of the log until the graph concludes.
LEMMA GuardrailPreserved ==
  TypeOK /\ TypeOK' /\ GuardrailInv /\ [Next]_vars => GuardrailInv'
<1> SUFFICES ASSUME TypeOK, TypeOK', GuardrailInv, [Next]_vars PROVE GuardrailInv'
  OBVIOUS
<1> DEFINE n == Len(trajectory)
           m == Len(trajectory')
<1>1. LogGrows
  BY LogStep
<1>2. DOMAIN trajectory = 1..n /\ DOMAIN trajectory' = 1..m /\ n \in Nat /\ m \in Nat
  BY LenProperties DEF TypeOK
<1>3. \A i \in DOMAIN trajectory' : i \in 1..n \/ i \in (n + 1)..m
  BY <1>2
<1>4. ASSUME NEW i \in DOMAIN trajectory', trajectory'[i].agent \in Guardrails
      PROVE  pc' \in Concluding
  <2>1. CASE i \in 1..n
    <3>1. pc \in Concluding
      BY <1>1, <1>2, <1>4, <2>1 DEF LogGrows, GuardrailInv
    <3> QED BY <3>1, ConcludingStays
  <2>2. CASE i \in (n + 1)..m
    <3>1. NewEntryBy(i)
      BY <1>1, <2>2 DEF LogGrows
    <3> QED BY <1>4, <3>1 DEF NewEntryBy, Guardrails, Specialists, Concluding
  <2> QED BY <1>3, <2>1, <2>2
<1>5. ASSUME NEW i \in DOMAIN trajectory', IsTrip(trajectory'[i]),
             NEW j \in DOMAIN trajectory', j > i
      PROVE  trajectory'[j].agent = "sanitizer"
  <2>1. CASE i \in 1..n /\ j \in 1..n
    BY <1>1, <1>2, <1>5, <2>1 DEF LogGrows, GuardrailInv, TripEndsRouting
  <2>2. CASE i \in 1..n /\ j \in (n + 1)..m
    <3>1. pc \in Concluding
      BY <1>1, <1>2, <1>5, <2>2 DEF LogGrows, GuardrailInv, IsTrip, Guardrails
    <3>2. NewEntryBy(j)
      BY <1>1, <2>2 DEF LogGrows
    <3> QED BY <3>1, <3>2 DEF NewEntryBy, Concluding, Specialists
  <2>3. CASE i \in (n + 1)..m
    <3>1. NewEntryBy(i)
      BY <1>1, <2>3 DEF LogGrows
    <3>2. m = n + 1
      BY <1>5, <3>1 DEF NewEntryBy, IsTrip, Specialists
    <3> QED BY <1>2, <1>5, <2>3, <3>2
  <2> QED BY <1>2, <1>3, <1>5, <2>1, <2>2, <2>3
<1> QED BY <1>4, <1>5 DEF GuardrailInv, TripEndsRouting

\* A trip is the end of the investigation: no route, no specialist, no second
\* trip comes after it, whatever the specialists and the model do.
THEOREM TripIsFinal == Spec => []TripEndsRouting
<1>1. Init => GuardrailInv
  BY DEF Init, GuardrailInv, TripEndsRouting
<1>2. GuardrailInv => TripEndsRouting
  BY DEF GuardrailInv
<1> QED BY <1>1, <1>2, GuardrailPreserved, TypeCorrect, PTL DEF Spec

-----------------------------------------------------------------------------

\* A turn that started past a limit leaves the graph past it, so the breaker
\* trips before the next decision.
OverrunInv ==
  /\ overruns <= 1
  /\ pc = "routing" => overruns = 0
  /\ overruns = 1 => pc \in Concluding \/ OverLimit(tokens)

\* The breaker lets a decision be asked for only below the limits.
LEMMA NoTripMeansUnder == ASSUME TypeOK, Trip = "none" PROVE ~OverLimit(tokens)
<1>1. iteration_count \in Nat /\ tokens \in Nat /\ elapsed \in Nat
  BY GraphAssumption DEF TypeOK
<1>2. tokens < MaxTotalTokens /\ elapsed < AgentTimeout
  BY <1>1, TripReasonMeans DEF Trip
<1> QED BY <1>1, <1>2, LimitsAssumption DEF OverLimit

\* A step that starts a turn past a limit is the first such step.
LEMMA OverrunPreserved == TypeOK /\ OverrunInv /\ [Next]_vars => OverrunInv'
<1> SUFFICES ASSUME TypeOK, OverrunInv, [Next]_vars PROVE OverrunInv'
  OBVIOUS
<1>0. /\ overruns \in Nat /\ tokens \in Nat /\ elapsed \in Nat
      /\ MaxTotalTokens \in Nat /\ AgentTimeout \in Nat
      /\ \A u \in Usage \cup TurnUsage : u \in Nat
  BY GraphAssumption, LimitsAssumption DEF TypeOK
<1> USE DEF OverrunInv, OverLimit, Concluding
<1>1. CASE BreakerTrips
  BY <1>1 DEF BreakerTrips, NodeOf
<1>2. CASE AskForRoute
  <2>1. ~OverLimit(tokens)
    BY <1>2, NoTripMeansUnder DEF AskForRoute
  <2> QED BY <1>0, <1>2, <2>1 DEF AskForRoute
<1>3. ASSUME NEW mentioned \in SUBSET RouteTargets, NEW usage \in Usage,
             Route(mentioned, usage)
      PROVE  OverrunInv'
  <2>1. overruns = 0 /\ pc' # "routing"
    BY <1>3, ParseRoutingType DEF Route, NodeOf, RouteTargets, Specialists
  <2>2. tokens' = tokens + usage /\ elapsed' = elapsed
    BY <1>3 DEF Route
  <2>3. CASE overruns' = 0
    BY <2>1, <2>3
  <2>4. CASE overruns' # 0
    <3>1. overruns' = 1 /\ OverLimit(tokens + usage)
      BY <1>3, <2>1, <2>4 DEF Route
    <3> QED BY <2>1, <2>2, <3>1
  <2> QED BY <2>3, <2>4
<1>4. ASSUME NEW acts, NEW usage \in TurnUsage, NEW reports,
             SpecialistReturns(acts, usage, reports)
      PROVE  OverrunInv'
  BY <1>0, <1>4 DEF SpecialistReturns, Specialists
<1>5. ASSUME NEW hits, NEW missing, NEW usage, Synthesize(hits, missing, usage)
      PROVE  OverrunInv'
  BY <1>0, <1>5 DEF Synthesize
<1>6. CASE Persist \/ NodeRaises
  BY <1>0, <1>6 DEF Persist, NodeRaises
<1>7. CASE Tick
  BY <1>0, <1>7 DEF Tick
<1>8. CASE UNCHANGED vars
  BY <1>8 DEF vars
<1> QED BY <1>1, <1>2, <1>3, <1>4, <1>5, <1>6, <1>7, <1>8
        DEF Next, Progress, Terminated

\* Whatever a decision, a turn or the clock adds, at most one specialist turn is
\* started past the token budget or the timeout.
THEOREM OvershootIsOneTurn == Spec => []OneTurnPastBudget
<1>1. Init => OverrunInv
  BY DEF Init, OverrunInv
<1>2. OverrunInv => OneTurnPastBudget
  BY DEF OverrunInv, OneTurnPastBudget
<1> QED BY <1>1, <1>2, OverrunPreserved, TypeCorrect, PTL DEF Spec

-----------------------------------------------------------------------------

\* How a step changes the set of decisions to run a specialist: only the
\* supervisor's own entry can add one, and then exactly one.
LEMMA RoutesGrow ==
  ASSUME TypeOK, TypeOK', [Next]_vars
  PROVE  LET n == Len(trajectory) IN
         /\ IsFiniteSet(SpecialistRouteSteps) /\ n + 1 \notin SpecialistRouteSteps
         /\ \A i \in SpecialistRouteSteps : trajectory'[i] = trajectory[i]
         /\ \/ /\ pc = "routing" /\ pc' \in Specialists
               /\ SpecialistRouteSteps' = SpecialistRouteSteps \cup {n + 1}
               /\ trajectory'[n + 1].detail = pc'
            \/ /\ ~(pc = "routing" /\ pc' \in Specialists)
               /\ SpecialistRouteSteps' = SpecialistRouteSteps
<1> DEFINE n == Len(trajectory)
           m == Len(trajectory')
<1>1. LogGrows
  BY LogStep
<1>2. DOMAIN trajectory = 1..n /\ DOMAIN trajectory' = 1..m /\ n \in Nat /\ m \in Nat
  BY LenProperties DEF TypeOK
<1>3. IsFiniteSet(SpecialistRouteSteps) /\ n + 1 \notin SpecialistRouteSteps
  <2>1. SpecialistRouteSteps \in SUBSET (1..n)
    BY <1>2 DEF SpecialistRouteSteps
  <2>2. IsFiniteSet(1..n)
    BY <1>2, FS_Interval
  <2>3. n + 1 \notin SpecialistRouteSteps
    BY <1>2, <2>1
  <2> QED BY <2>1, <2>2, <2>3, FS_Subset
<1>4. \A i \in 1..n : i \in SpecialistRouteSteps' <=> i \in SpecialistRouteSteps
  BY <1>1, <1>2 DEF LogGrows, SpecialistRouteSteps
<1>5. \A i \in SpecialistRouteSteps : trajectory'[i] = trajectory[i]
  BY <1>1, <1>2 DEF LogGrows, SpecialistRouteSteps
<1>6. ASSUME NEW i \in (n + 1)..m
      PROVE  i \in SpecialistRouteSteps' <=> (pc = "routing" /\ pc' \in Specialists)
  <2>1. NewEntryBy(i) /\ i \in DOMAIN trajectory'
    BY <1>1, <1>2 DEF LogGrows
  <2>2. "synthesis" \notin Specialists /\ "supervisor" \notin Specialists
        /\ "routing" \notin Specialists /\ "synthesize" \notin Specialists
    BY DEF Specialists
  <2>3. CASE pc = "routing"
    <3>1. /\ IsRoute(trajectory'[i])
          /\ trajectory'[i].detail \in RouteTargets
          /\ pc' = NodeOf(trajectory'[i].detail)
      BY <2>1, <2>2, <2>3 DEF NewEntryBy, IsRoute
    <3>2. pc' \in Specialists <=> trajectory'[i].detail \in Specialists
      BY <2>2, <3>1 DEF NodeOf, RouteTargets
    <3> QED BY <2>1, <2>3, <3>1, <3>2 DEF SpecialistRouteSteps
  <2>4. CASE pc # "routing"
    <3>1. ~IsRoute(trajectory'[i])
      BY <2>1, <2>4 DEF NewEntryBy, IsRoute, Specialists
    <3> QED BY <2>4, <3>1 DEF SpecialistRouteSteps
  <2> QED BY <2>3, <2>4
<1>7. SpecialistRouteSteps' \subseteq 1..m
  BY <1>2 DEF SpecialistRouteSteps
<1>8. CASE pc = "routing" /\ pc' \in Specialists
  <2>1. PICK mentioned \in SUBSET RouteTargets, usage \in Usage : Route(mentioned, usage)
    BY <1>8 DEF Next, Progress, Terminated, Halted, BreakerTrips, AskForRoute,
                SpecialistReturns, Synthesize, Persist, NodeRaises, Tick, vars, Specialists
  <2>2. LET e == Entry(n, "supervisor", "route", ParseRouting(mentioned)) IN
        m = n + 1 /\ trajectory'[n + 1] = e
    <3>1. trajectory' = Append(trajectory, Entry(n, "supervisor", "route", ParseRouting(mentioned)))
      BY <2>1 DEF Route
    <3> QED BY <3>1 DEF TypeOK
  <2>3. trajectory'[n + 1].detail = ParseRouting(mentioned)
    BY <2>2 DEF Entry
  <2>4. pc' = ParseRouting(mentioned)
    BY <1>8, <2>1 DEF Route, NodeOf, Specialists
  <2>5. SpecialistRouteSteps' = SpecialistRouteSteps \cup {n + 1}
    BY <1>2, <1>4, <1>6, <1>7, <1>8, <2>2 DEF SpecialistRouteSteps
  <2> QED BY <1>3, <1>5, <1>8, <2>3, <2>4, <2>5
<1>9. CASE ~(pc = "routing" /\ pc' \in Specialists)
  <2>1. SpecialistRouteSteps \subseteq 1..n
    BY <1>2 DEF SpecialistRouteSteps
  <2>2. \A i \in 1..m : i \in 1..n \/ i \in (n + 1)..m
    BY <1>2
  <2>3. n <= m
    BY <1>1 DEF LogGrows
  <2>4. \A i : i \in SpecialistRouteSteps' <=> i \in SpecialistRouteSteps
    BY <1>4, <1>6, <1>7, <1>9, <2>1, <2>2
  <2> QED BY <1>3, <1>5, <1>9, <2>4
<1> QED BY <1>8, <1>9

\* The count the breaker reads is the number of turns run, and a decision is
\* only being made while one more is allowed.
CapInv ==
  /\ IterationCap
  /\ pc = "routing" => iteration_count < MaxAgentIterations

\* The breaker lets a decision be asked for only when a turn is left.
LEMMA NoTripMeansTurnLeft ==
  ASSUME TypeOK, Trip = "none" PROVE iteration_count < MaxAgentIterations
<1>1. iteration_count \in Nat /\ tokens \in Nat /\ elapsed \in Nat
  BY GraphAssumption DEF TypeOK
<1> QED BY <1>1, TripReasonMeans DEF Trip

\* How a step moves pc and the count.
LEMMA CountStep ==
  ASSUME TypeOK, [Next]_vars
  PROVE  \/ pc \in Specialists /\ pc' = "supervisor" /\ iteration_count' = iteration_count + 1
         \/ pc = "routing" /\ pc' \in Specialists /\ iteration_count' = iteration_count
         \/ /\ ~(pc = "routing" /\ pc' \in Specialists)
            /\ iteration_count' = iteration_count
            /\ pc' = pc \/ pc' = "raised" \/ (pc \notin Specialists /\ pc' \notin Specialists)
            /\ pc = "raised" => pc' = "raised"
            /\ pc' = "routing" => iteration_count < MaxAgentIterations \/ pc = "routing"
<1>1. CASE BreakerTrips
  BY <1>1 DEF BreakerTrips, NodeOf, Specialists
<1>2. CASE AskForRoute
  BY <1>2, NoTripMeansTurnLeft DEF AskForRoute, Specialists
<1>3. ASSUME NEW mentioned \in SUBSET RouteTargets, NEW usage \in Usage,
             Route(mentioned, usage)
      PROVE  /\ pc = "routing" /\ iteration_count' = iteration_count
             /\ pc' \in Specialists \/ pc' = "synthesis"
  BY <1>3, ParseRoutingType DEF Route, NodeOf, RouteTargets
<1>4. ASSUME NEW acts, NEW usage, NEW reports, SpecialistReturns(acts, usage, reports)
      PROVE  pc \in Specialists /\ pc' = "supervisor" /\ iteration_count' = iteration_count + 1
  BY <1>4 DEF SpecialistReturns
<1>5. ASSUME NEW hits, NEW missing, NEW usage, Synthesize(hits, missing, usage)
      PROVE  pc = "synthesis" /\ pc' = "persist" /\ iteration_count' = iteration_count
  BY <1>5 DEF Synthesize
<1>6. CASE Persist
  BY <1>6 DEF Persist, Specialists
<1>7. CASE NodeRaises
  BY <1>7 DEF NodeRaises, Specialists
<1>8. CASE Tick \/ UNCHANGED vars
  BY <1>8 DEF Tick, vars, Specialists
<1> QED BY <1>1, <1>2, <1>3, <1>4, <1>5, <1>6, <1>7, <1>8
        DEF Next, Progress, Terminated, Specialists

\* A decision adds one position to the log's decisions, a return one to the count.
LEMMA CapPreserved == TypeOK /\ TypeOK' /\ CapInv /\ [Next]_vars => CapInv'
<1> SUFFICES ASSUME TypeOK, TypeOK', CapInv, [Next]_vars PROVE CapInv'
  OBVIOUS
<1> DEFINE routed == Cardinality(SpecialistRouteSteps)
<1>1. /\ routed \in Nat /\ iteration_count \in Nat /\ MaxAgentIterations \in Nat
  BY RoutesGrow, FS_CardinalityType, LimitsAssumption DEF TypeOK
<1>2. CASE pc = "routing" /\ pc' \in Specialists
  <2>1. routed' = routed + 1
    BY <1>2, RoutesGrow, FS_AddElement
  <2>2. iteration_count' = iteration_count
    BY <1>2, CountStep DEF Specialists
  <2>3. routed = iteration_count /\ iteration_count < MaxAgentIterations
    BY <1>2 DEF CapInv, IterationCap, Specialists
  <2>4. pc' # "raised" /\ pc' # "routing"
    BY <1>2 DEF Specialists
  <2> QED BY <1>1, <1>2, <2>1, <2>2, <2>3, <2>4 DEF CapInv, IterationCap
<1>3. CASE ~(pc = "routing" /\ pc' \in Specialists)
  <2>1. SpecialistRouteSteps' = SpecialistRouteSteps /\ routed' = routed
    BY <1>3, RoutesGrow
  <2>2. CASE pc \in Specialists /\ pc' = "supervisor"
            /\ iteration_count' = iteration_count + 1
    BY <1>1, <2>1, <2>2 DEF CapInv, IterationCap, Specialists
  <2>3. CASE /\ iteration_count' = iteration_count
             /\ pc' = pc \/ pc' = "raised" \/ (pc \notin Specialists /\ pc' \notin Specialists)
             /\ pc = "raised" => pc' = "raised"
             /\ pc' = "routing" => iteration_count < MaxAgentIterations \/ pc = "routing"
    BY <1>1, <2>1, <2>3 DEF CapInv, IterationCap, Specialists
  <2> QED BY <1>3, <2>2, <2>3, CountStep
<1> QED BY <1>2, <1>3

\* No decision, no turn.
LEMMA CapInitially == Init => CapInv
<1> SUFFICES ASSUME Init PROVE CapInv
  OBVIOUS
<1>1. SpecialistRouteSteps = {}
  BY DEF Init, SpecialistRouteSteps
<1>2. Cardinality(SpecialistRouteSteps) = 0
  BY <1>1, FS_EmptySet
<1> QED BY <1>2, LimitsAssumption DEF Init, CapInv, IterationCap, Specialists

\* MAX_AGENT_ITERATIONS bounds the specialist turns that are started, and the
\* counter it is compared with is their number.
THEOREM TurnsAreCapped == Spec => []IterationCap
<1>1. CapInv => IterationCap
  BY DEF CapInv
<1> QED BY <1>1, CapInitially, CapPreserved, TypeCorrect, PTL DEF Spec

-----------------------------------------------------------------------------

\* The executions of the supervisor that did not send a specialist to work.
ClosingSteps == SupervisorSteps \ SpecialistRouteSteps

\* There is one such execution at most, and the graph concludes from then on.
ClosingInv ==
  /\ ClosingSteps # {} => pc \in Concluding
  /\ \A i, j \in ClosingSteps : i = j

\* A trip or a decision to synthesize is made outside the concluding stages,
\* enters them, and is the only entry of its step.
LEMMA ClosingPreserved ==
  TypeOK /\ TypeOK' /\ ClosingInv /\ [Next]_vars => ClosingInv'
<1> SUFFICES ASSUME TypeOK, TypeOK', ClosingInv, [Next]_vars PROVE ClosingInv'
  OBVIOUS
<1> DEFINE n == Len(trajectory)
           m == Len(trajectory')
<1>1. LogGrows
  BY LogStep
<1>2. DOMAIN trajectory = 1..n /\ DOMAIN trajectory' = 1..m /\ n \in Nat /\ m \in Nat
  BY LenProperties DEF TypeOK
<1>3. \A i \in ClosingSteps' : i \in 1..n \/ i \in (n + 1)..m
  BY <1>2 DEF ClosingSteps, SupervisorSteps
<1>4. \A i \in 1..n : i \in ClosingSteps' => i \in ClosingSteps
  BY <1>1, <1>2 DEF LogGrows, ClosingSteps, SupervisorSteps, SpecialistRouteSteps
<1>5. ASSUME NEW i \in (n + 1)..m, i \in ClosingSteps'
      PROVE  pc \notin Concluding /\ pc' \in Concluding /\ i = n + 1 /\ m = n + 1
  <2>1. NewEntryBy(i) /\ i \in DOMAIN trajectory'
    BY <1>1, <1>2, <1>5 DEF LogGrows
  <2>2. IsRoute(trajectory'[i]) \/ IsTrip(trajectory'[i])
    BY <1>5 DEF ClosingSteps, SupervisorSteps
  <2>3. CASE IsTrip(trajectory'[i])
    <3>1. pc = "supervisor" /\ pc' = "synthesis" /\ m = n + 1
      BY <2>1, <2>3 DEF NewEntryBy, IsTrip, Specialists
    <3> QED BY <1>2, <3>1 DEF Concluding
  <2>4. CASE IsRoute(trajectory'[i])
    <3>1. trajectory'[i].detail \notin Specialists
      BY <1>5, <2>1, <2>4 DEF ClosingSteps, SpecialistRouteSteps
    <3>2. /\ pc = "routing" /\ pc' = NodeOf(trajectory'[i].detail) /\ m = n + 1
          /\ trajectory'[i].detail \in RouteTargets
      BY <2>1, <2>4 DEF NewEntryBy, IsRoute, Specialists
    <3>3. pc' = "synthesis"
      BY <3>1, <3>2 DEF RouteTargets, NodeOf
    <3> QED BY <1>2, <3>2, <3>3 DEF Concluding
  <2> QED BY <2>2, <2>3, <2>4
<1>6. ClosingSteps' # {} => pc' \in Concluding
  BY <1>3, <1>4, <1>5, ConcludingStays DEF ClosingInv
<1>7. ASSUME NEW i \in ClosingSteps', NEW j \in ClosingSteps' PROVE i = j
  <2>1. CASE i \in 1..n /\ j \in 1..n
    BY <1>4, <2>1 DEF ClosingInv
  <2>2. CASE i \in (n + 1)..m /\ j \in (n + 1)..m
    BY <1>5, <2>2
  <2>3. CASE i \in 1..n /\ j \in (n + 1)..m
    BY <1>4, <1>5, <2>3 DEF ClosingInv
  <2>4. CASE i \in (n + 1)..m /\ j \in 1..n
    BY <1>4, <1>5, <2>4 DEF ClosingInv
  <2> QED BY <1>3, <2>1, <2>2, <2>3, <2>4
<1> QED BY <1>6, <1>7 DEF ClosingInv

\* Each other execution of the supervisor is a turn or the one that concludes.
LEMMA ClosingBoundsSupersteps == ASSUME TypeOK, CapInv, ClosingInv PROVE SuperstepBound
<1> DEFINE routed == Cardinality(SpecialistRouteSteps)
           closing == Cardinality(ClosingSteps)
<1>1. DOMAIN trajectory = 1..Len(trajectory) /\ Len(trajectory) \in Nat
  BY LenProperties DEF TypeOK
<1>2. IsFiniteSet(DOMAIN trajectory)
  BY <1>1, FS_Interval
<1>3. IsFiniteSet(SpecialistRouteSteps) /\ IsFiniteSet(ClosingSteps)
  BY <1>2, FS_Subset DEF SpecialistRouteSteps, ClosingSteps, SupervisorSteps
<1>4. routed \in Nat /\ closing \in Nat
  BY <1>3, FS_CardinalityType
<1>5. closing <= 1
  <2>1. CASE ClosingSteps = {}
    BY <2>1, FS_EmptySet
  <2>2. CASE ClosingSteps # {}
    <3>1. PICK i : ClosingSteps = {i}
      BY <2>2 DEF ClosingInv
    <3> QED BY <3>1, FS_Singleton
  <2> QED BY <2>1, <2>2
<1>6. Cardinality(SupervisorSteps) = closing + routed
  <2>1. SupervisorSteps = ClosingSteps \cup SpecialistRouteSteps
    BY DEF ClosingSteps, SupervisorSteps, SpecialistRouteSteps
  <2>2. ClosingSteps \cap SpecialistRouteSteps = {}
    BY DEF ClosingSteps
  <2> QED BY <1>3, <1>4, <2>1, <2>2, FS_Union, FS_EmptySet
<1>7. routed <= MaxAgentIterations
  BY DEF CapInv, IterationCap
<1> QED BY <1>4, <1>5, <1>6, <1>7, LimitsAssumption DEF SuperstepBound

\* A diagnosis takes at most 2 * MAX_AGENT_ITERATIONS + 3 node executions: with a
\* LangGraph limit at or above that, the breaker always gets to trip first.
THEOREM SuperstepsAreBounded == Spec => []SuperstepBound
<1>1. Init => ClosingInv
  BY DEF Init, ClosingInv, ClosingSteps, SupervisorSteps
<1> QED BY <1>1, ClosingBoundsSupersteps, ClosingPreserved, CapInitially, CapPreserved,
           TypeCorrect, PTL DEF Spec

-----------------------------------------------------------------------------

\* Every specialist that signed an entry, and the one running, was routed to.
RoutedTo == {trajectory[i].detail : i \in SpecialistRouteSteps}

SignedInv ==
  /\ ConsultedWereRouted
  /\ pc \in Specialists => pc \in RoutedTo
  /\ \A i \in DOMAIN trajectory :
        trajectory[i].agent \in Specialists => trajectory[i].agent \in RoutedTo

\* A specialist signs entries only in a turn the supervisor routed to.
LEMMA SignedPreserved ==
  TypeOK /\ TypeOK' /\ GuardrailInv /\ SignedInv /\ [Next]_vars => SignedInv'
<1> SUFFICES ASSUME TypeOK, TypeOK', GuardrailInv, SignedInv, [Next]_vars
             PROVE  SignedInv'
  OBVIOUS
<1> DEFINE n == Len(trajectory)
           m == Len(trajectory')
<1>1. LogGrows
  BY LogStep
<1>2. DOMAIN trajectory = 1..n /\ DOMAIN trajectory' = 1..m /\ n \in Nat /\ m \in Nat
  BY LenProperties DEF TypeOK
<1>3. RoutedTo \subseteq RoutedTo'
  <2> SUFFICES ASSUME NEW i \in SpecialistRouteSteps
               PROVE  trajectory[i].detail \in RoutedTo'
    BY DEF RoutedTo
  <2>1. i \in SpecialistRouteSteps' /\ trajectory'[i] = trajectory[i]
    BY RoutesGrow
  <2> QED BY <2>1 DEF RoutedTo
<1>4. ASSUME NEW i \in DOMAIN trajectory', trajectory'[i].agent \in Specialists
      PROVE  trajectory'[i].agent \in RoutedTo'
  <2>1. CASE i \in 1..n
    BY <1>1, <1>2, <1>3, <1>4, <2>1 DEF LogGrows, SignedInv
  <2>2. CASE i \in (n + 1)..m
    <3>1. NewEntryBy(i)
      BY <1>1, <2>2 DEF LogGrows
    <3>2. pc \in Specialists /\ trajectory'[i].agent = pc
      BY <1>4, <3>1 DEF NewEntryBy, Specialists
    <3> QED BY <1>3, <3>2 DEF SignedInv
  <2> QED BY <1>2, <2>1, <2>2
<1>5. ASSUME pc' \in Specialists PROVE pc' \in RoutedTo'
  <2>1. CASE pc = "routing"
    <3>1. /\ n + 1 \in SpecialistRouteSteps'
          /\ trajectory'[n + 1].detail = pc'
      BY <1>5, <2>1, RoutesGrow
    <3> QED BY <3>1 DEF RoutedTo
  <2>2. CASE pc # "routing"
    <3>1. pc' = pc
      BY <1>5, <2>2, CountStep DEF Specialists
    <3> QED BY <1>3, <1>5, <3>1 DEF SignedInv
  <2> QED BY <2>1, <2>2
<1>6. prompt'.consulted \subseteq RoutedTo'
  <2>1. CASE AskForRoute
    <3>1. prompt'.consulted = AgentsConsulted(trajectory) /\ pc = "supervisor"
      BY <2>1 DEF AskForRoute
    <3>2. ASSUME NEW i \in DOMAIN trajectory, trajectory[i].agent # "supervisor"
          PROVE  trajectory[i].agent \in RoutedTo
      <4>1. trajectory[i].agent \in Agents
        <5>1. trajectory[i] \in TrajectoryEntry
          BY <1>2, ElementOfSeq DEF TypeOK
        <5> QED BY <5>1, EntryFields
      <4>2. trajectory[i].agent \notin Guardrails
        BY <3>1 DEF GuardrailInv, Concluding
      <4> QED BY <3>2, <4>1, <4>2 DEF Agents, SignedInv
    <3> QED BY <1>3, <3>1, <3>2 DEF AgentsConsulted
  <2>2. CASE prompt' = prompt \/ prompt' = NoPrompt
    <3>1. prompt.consulted \subseteq RoutedTo
      BY DEF SignedInv, ConsultedWereRouted, RoutedTo
    <3> QED BY <1>3, <2>2, <3>1 DEF NoPrompt
  <2>3. AskForRoute \/ prompt' = prompt \/ prompt' = NoPrompt
    BY DEF Next, Progress, Terminated, BreakerTrips, Route, SpecialistReturns,
           Synthesize, Persist, NodeRaises, Tick, vars
  <2> QED BY <2>1, <2>2, <2>3
<1> QED BY <1>4, <1>5, <1>6 DEF SignedInv, ConsultedWereRouted, RoutedTo

\* The prompt never calls consulted an agent the supervisor did not route to; in
\* particular no guardrail's name, which the log also holds, is offered to it.
THEOREM PromptIsHonest == Spec => []ConsultedWereRouted
<1>1. Init => GuardrailInv /\ SignedInv
  BY DEF Init, GuardrailInv, TripEndsRouting, SignedInv, ConsultedWereRouted, NoPrompt,
         Specialists
<1>2. SignedInv => ConsultedWereRouted
  BY DEF SignedInv
<1> QED BY <1>1, <1>2, SignedPreserved, GuardrailPreserved, TypeCorrect, PTL DEF Spec

-----------------------------------------------------------------------------

\* From synthesis on there is an answer, and what is saved is that answer.
AnswerInv ==
  /\ EndsWithSavedAnswer
  /\ pc = "persist" => diagnosis \in Diagnoses
  /\ pc \in {"supervisor", "routing", "synthesis"} \cup Specialists => diagnosis = "none"

\* The answer comes with synthesis and is saved on the way to END.
LEMMA AnswerPreserved == TypeOK /\ AnswerInv /\ [Next]_vars => AnswerInv'
<1> SUFFICES ASSUME TypeOK, AnswerInv, [Next]_vars PROVE AnswerInv'
  OBVIOUS
<1> USE DEF AnswerInv, EndsWithSavedAnswer
<1>1. CASE BreakerTrips
  BY <1>1 DEF BreakerTrips, NodeOf, Specialists
<1>2. CASE AskForRoute
  BY <1>2 DEF AskForRoute, Specialists
<1>3. ASSUME NEW mentioned, NEW usage, Route(mentioned, usage) PROVE AnswerInv'
  <2>1. pc = "routing" /\ diagnosis' = diagnosis
        /\ pc' \in {"synthesis"} \cup Specialists
    BY <1>3, ParseRoutingType DEF Route, NodeOf, RouteTargets
  <2> QED BY <2>1 DEF Specialists
<1>4. ASSUME NEW acts, NEW usage, NEW reports, SpecialistReturns(acts, usage, reports)
      PROVE  AnswerInv'
  BY <1>4 DEF SpecialistReturns, Specialists
<1>5. ASSUME NEW hits, NEW missing, NEW usage, Synthesize(hits, missing, usage)
      PROVE  AnswerInv'
  BY <1>5 DEF Synthesize, Specialists, Diagnoses
<1>6. CASE Persist
  <2>1. pc' = "end" /\ diagnosis' = diagnosis /\ findings' = findings
        /\ diagnosis \in Diagnoses /\ diagnosis # "none"
    BY <1>6 DEF Persist, Diagnoses
  <2>2. ASSUME WithStore
        PROVE  store' # <<>> /\ Last(store') = [diagnosis |-> diagnosis, findings |-> findings]
    <3>1. store' = Append(store, [diagnosis |-> diagnosis, findings |-> findings])
      BY <1>6, <2>1, <2>2 DEF Persist
    <3>2. store \in Seq(IncidentRecord)
      BY DEF TypeOK
    <3> QED BY <3>1, <3>2 DEF Last
  <2> QED BY <2>1, <2>2 DEF Specialists
<1>7. CASE NodeRaises
  BY <1>7 DEF NodeRaises, Specialists
<1>8. CASE Tick
  BY <1>8 DEF Tick, Halted
<1>9. CASE UNCHANGED vars
  BY <1>9 DEF vars
<1> QED BY <1>1, <1>2, <1>3, <1>4, <1>5, <1>6, <1>7, <1>8, <1>9
        DEF Next, Progress, Terminated

\* A diagnosis that reaches END has an answer, and with a store that answer and
\* its findings are the newest record.
THEOREM AnswerIsSaved == Spec => []EndsWithSavedAnswer
<1>1. Init => AnswerInv
  BY DEF Init, AnswerInv, EndsWithSavedAnswer, Specialists
<1>2. AnswerInv => EndsWithSavedAnswer
  BY DEF AnswerInv
<1> QED BY <1>1, <1>2, AnswerPreserved, TypeCorrect, PTL DEF Spec

-----------------------------------------------------------------------------

\* Each step of the graph is a step of the lifecycle, or none.
LEMMA LifecycleStep ==
  TypeOK /\ CapInv /\ AnswerInv /\ [Next]_vars => [Lifecycle!Next]_Lifecycle!vars
<1> SUFFICES ASSUME TypeOK, CapInv, AnswerInv, [Next]_vars
             PROVE  [Lifecycle!Next]_Lifecycle!vars
  OBVIOUS
<1> USE DEF Lifecycle!vars, Status
<1>1. CASE BreakerTrips
  BY <1>1 DEF BreakerTrips, NodeOf
<1>2. CASE AskForRoute
  BY <1>2 DEF AskForRoute
<1>3. ASSUME NEW mentioned, NEW usage, Route(mentioned, usage)
      PROVE  UNCHANGED Lifecycle!vars
  <2>1. pc' \in {"synthesis"} \cup Specialists
    BY <1>3, ParseRoutingType DEF Route, NodeOf, RouteTargets
  <2> QED BY <1>3, <2>1 DEF Route, Specialists
<1>4. ASSUME NEW acts, NEW usage, NEW reports, SpecialistReturns(acts, usage, reports)
      PROVE  Lifecycle!Investigate
  <2>1. iteration_count < MaxAgentIterations
    <3>1. Cardinality(SpecialistRouteSteps) = iteration_count + 1
          /\ Cardinality(SpecialistRouteSteps) <= MaxAgentIterations
      BY <1>4 DEF SpecialistReturns, CapInv, IterationCap
    <3> QED BY <3>1, LimitsAssumption DEF TypeOK
  <2> QED BY <1>4, <2>1 DEF SpecialistReturns, Specialists, Lifecycle!Investigate
<1>5. ASSUME NEW hits, NEW missing, NEW usage, Synthesize(hits, missing, usage)
      PROVE  Lifecycle!Conclude
  BY <1>5 DEF Synthesize, Lifecycle!Conclude, Lifecycle!Answers
<1>6. CASE Persist
  <2>1. pc = "persist" /\ pc' = "end" /\ diagnosis # "none"
        /\ iteration_count' = iteration_count /\ diagnosis' = diagnosis
    BY <1>6 DEF Persist, AnswerInv, Diagnoses
  <2>2. Len(store') = IF WithStore THEN Len(store) + 1 ELSE Len(store)
    <3>1. CASE WithStore
      BY <1>6, <2>1, <3>1 DEF Persist, TypeOK
    <3>2. CASE ~WithStore
      BY <1>6, <3>2 DEF Persist
    <3> QED BY <3>1, <3>2
  <2> QED BY <2>1, <2>2 DEF Lifecycle!Next, Lifecycle!Close
<1>7. CASE NodeRaises
  <2>1. pc \notin {"end", "raised"}
    BY <1>7 DEF NodeRaises, Specialists
  <2> QED BY <1>7, <2>1 DEF NodeRaises, Lifecycle!Next, Lifecycle!Abort
<1>8. CASE Tick
  BY <1>8 DEF Tick
<1>9. CASE UNCHANGED vars
  BY <1>9 DEF vars
<1> QED BY <1>1, <1>2, <1>3, <1>4, <1>5, <1>6, <1>7, <1>8, <1>9
        DEF Next, Progress, Terminated, Lifecycle!Next

\* Whoever starts a diagnosis may rely on DiagnosisLifecycle alone: bounded
\* turns, one answer, at most one record and none when a node raised.
THEOREM GraphImplementsLifecycle == Spec => ImplementsLifecycle
<1>1. Init => Lifecycle!Init
  <2> SUFFICES ASSUME Init PROVE Lifecycle!Init
    OBVIOUS
  <2>1. Len(store) \in Nat
    BY TypeInitially, LenProperties DEF TypeOK
  <2> QED BY <2>1 DEF Init, Lifecycle!Init, Status
<1>2. Init => CapInv /\ AnswerInv /\ TypeOK
  BY CapInitially, TypeInitially DEF Init, AnswerInv, EndsWithSavedAnswer, Specialists
<1> QED BY <1>1, <1>2, TypePreserved, CapPreserved, AnswerPreserved, LifecycleStep, PTL
        DEF Spec, ImplementsLifecycle, Lifecycle!Spec
-----------------------------------------------------------------------------
\* Tokens past the budget.

\* Completions and turns do not cost arbitrarily much.
HasMax(S) == \E x \in S : \A y \in S : x >= y

\* What may have been spent in each stage: a decision is only asked for below the
\* budget, and each stage adds what its own completion or turn costs.
SpentInv ==
  /\ pc = "routing" => tokens <= MaxTotalTokens
  /\ pc \in Specialists => tokens <= MaxTotalTokens + Max(Usage)
  /\ pc \in {"supervisor", "synthesis"} =>
       tokens <= MaxTotalTokens + Max(Usage) + Max(TurnUsage)
  /\ OvershootBounded

\* The largest of a set that has one.
LEMMA MaxIsLargest ==
  ASSUME NEW S \in SUBSET Nat, HasMax(S)
  PROVE  Max(S) \in Nat /\ \A y \in S : y <= Max(S)
<1>1. \E x : x \in S /\ \A y \in S : x >= y
  BY DEF HasMax
<1>2. Max(S) \in S /\ \A y \in S : Max(S) >= y
  BY <1>1 DEF Max
<1> QED BY <1>2

\* Every stage leaves its successor what it may have spent.
LEMMA SpentPreserved ==
  ASSUME HasMax(Usage), HasMax(TurnUsage), TypeOK, SpentInv, [Next]_vars
  PROVE  SpentInv'
<1> DEFINE u == Max(Usage)
           w == Max(TurnUsage)
<1>1. /\ u \in Nat /\ w \in Nat /\ tokens \in Nat /\ MaxTotalTokens \in Nat
      /\ \A y \in Usage : y \in Nat /\ y <= u
      /\ \A y \in TurnUsage : y \in Nat /\ y <= w
  BY MaxIsLargest, GraphAssumption, LimitsAssumption DEF TypeOK
<1>2. SpentInv <=> /\ pc = "routing" => tokens <= MaxTotalTokens
                   /\ pc \in Specialists => tokens <= MaxTotalTokens + u
                   /\ pc \in {"supervisor", "synthesis"} => tokens <= MaxTotalTokens + u + w
                   /\ tokens <= MaxTotalTokens + u + w + u
  BY DEF SpentInv, OvershootBounded
<1>3. SpentInv' <=> /\ pc' = "routing" => tokens' <= MaxTotalTokens
                    /\ pc' \in Specialists => tokens' <= MaxTotalTokens + u
                    /\ pc' \in {"supervisor", "synthesis"} => tokens' <= MaxTotalTokens + u + w
                    /\ tokens' <= MaxTotalTokens + u + w + u
  BY DEF SpentInv, OvershootBounded
<1> HIDE DEF u, w
<1>4. CASE BreakerTrips
  BY <1>1, <1>2, <1>3, <1>4 DEF BreakerTrips, NodeOf, Specialists
<1>5. CASE AskForRoute
  <2>1. tokens < MaxTotalTokens
    <3>1. ~OverLimit(tokens)
      BY <1>5, NoTripMeansUnder DEF AskForRoute
    <3> QED BY <1>1, <3>1 DEF OverLimit
  <2> QED BY <1>1, <1>3, <1>5, <2>1 DEF AskForRoute, Specialists
<1>6. ASSUME NEW mentioned \in SUBSET RouteTargets, NEW usage \in Usage,
             Route(mentioned, usage)
      PROVE  SpentInv'
  <2>1. /\ pc = "routing" /\ tokens' = tokens + usage
        /\ pc' \in Specialists \/ pc' = "synthesis"
    BY <1>6, ParseRoutingType DEF Route, NodeOf, RouteTargets
  <2>2. pc' # "routing" /\ pc' # "supervisor"
    BY <2>1 DEF Specialists
  <2> QED BY <1>1, <1>2, <1>3, <2>1, <2>2
<1>7. ASSUME NEW acts \in TurnActions, NEW usage \in TurnUsage, NEW reports \in BOOLEAN,
             SpecialistReturns(acts, usage, reports)
      PROVE  SpentInv'
  <2>1. pc \in Specialists /\ pc' = "supervisor" /\ tokens' = tokens + usage
    BY <1>7 DEF SpecialistReturns
  <2> QED BY <1>1, <1>2, <1>3, <2>1 DEF Specialists
<1>8. ASSUME NEW hits \in BOOLEAN, NEW missing \in BOOLEAN, NEW usage \in Usage,
             Synthesize(hits, missing, usage)
      PROVE  SpentInv'
  <2>1. pc = "synthesis" /\ pc' = "persist" /\ tokens' = tokens + usage
    BY <1>8 DEF Synthesize
  <2> QED BY <1>1, <1>2, <1>3, <2>1 DEF Specialists
<1>9. CASE Persist \/ NodeRaises
  <2>1. pc' \in {"end", "raised"} /\ tokens' = tokens
    BY <1>9 DEF Persist, NodeRaises
  <2> QED BY <1>2, <1>3, <2>1 DEF Specialists
<1>10. CASE Tick \/ UNCHANGED vars
  BY <1>2, <1>3, <1>10 DEF Tick, vars
<1> QED BY <1>4, <1>5, <1>6, <1>7, <1>8, <1>9, <1>10 DEF Next, Progress, Terminated

\* Whatever crosses the token budget, at most one decision, one turn and one
\* synthesis are billed after it, whatever completions cost as long as they are bounded.
THEOREM OvershootIsBounded ==
  ASSUME HasMax(Usage), HasMax(TurnUsage)
  PROVE  Spec => []OvershootBounded
<1>1. Init => SpentInv
  <2>1. Max(Usage) \in Nat /\ Max(TurnUsage) \in Nat /\ MaxTotalTokens \in Nat
    BY MaxIsLargest, GraphAssumption, LimitsAssumption
  <2> QED BY <2>1 DEF Init, SpentInv, OvershootBounded, Specialists
<1>2. SpentInv => OvershootBounded
  BY DEF SpentInv
<1>3. TypeOK /\ SpentInv /\ [Next]_vars => SpentInv'
  BY SpentPreserved
<1> QED BY <1>1, <1>2, <1>3, TypeCorrect, PTL DEF Spec

-----------------------------------------------------------------------------
\* Findings and the decisions they come from.

\* The decisions up to one of them.
Upto(p) == {q \in SpecialistRouteSteps : q <= p}

\* The specialist that runs is the one the last decision names.
FindingInv ==
  /\ FindingsFollowTurns
  /\ pc \in Specialists =>
       \E p \in SpecialistRouteSteps :
         trajectory[p].detail = pc /\ \A q \in SpecialistRouteSteps : q <= p

\* A decision stays where it is, with those before it.
LEMMA DecisionStays ==
  ASSUME TypeOK, TypeOK', [Next]_vars, NEW p \in SpecialistRouteSteps
  PROVE  /\ p \in SpecialistRouteSteps' /\ trajectory'[p] = trajectory[p]
         /\ Cardinality(Upto(p)) \in Nat /\ Cardinality(Upto(p))' \in Nat
         /\ Cardinality(Upto(p)) <= Cardinality(Upto(p))'
<1>1. /\ IsFiniteSet(SpecialistRouteSteps) /\ IsFiniteSet(SpecialistRouteSteps')
      /\ SpecialistRouteSteps \subseteq SpecialistRouteSteps'
      /\ trajectory'[p] = trajectory[p]
  BY RoutesGrow, FS_AddElement
<1>2. Upto(p) \subseteq SpecialistRouteSteps /\ Upto(p)' \subseteq SpecialistRouteSteps'
  BY DEF Upto
<1>3. Upto(p) \subseteq Upto(p)'
  BY <1>1 DEF Upto
<1>4. IsFiniteSet(Upto(p)')
  BY <1>1, <1>2, FS_Subset
<1>5. /\ IsFiniteSet(Upto(p)) /\ Cardinality(Upto(p)) <= Cardinality(Upto(p)')
  BY <1>3, <1>4, FS_Subset
<1>6. Cardinality(Upto(p)) \in Nat /\ Cardinality(Upto(p)') \in Nat
  BY <1>4, <1>5, FS_CardinalityType
<1> QED BY <1>1, <1>5, <1>6

\* A finding that is there keeps the decision it came from.
LEMMA FindingStays ==
  ASSUME TypeOK, TypeOK', FindingInv, [Next]_vars, NEW i \in DOMAIN findings
  PROVE  \E p \in SpecialistRouteSteps' :
           trajectory'[p].detail = findings[i] /\ Cardinality(Upto(p))' >= i
<1>1. PICK p \in SpecialistRouteSteps :
        trajectory[p].detail = findings[i] /\ Cardinality(Upto(p)) >= i
  BY DEF FindingInv, FindingsFollowTurns, Upto
<1>2. /\ p \in SpecialistRouteSteps' /\ trajectory'[p] = trajectory[p]
      /\ Cardinality(Upto(p)) \in Nat /\ Cardinality(Upto(p))' \in Nat
      /\ Cardinality(Upto(p)) <= Cardinality(Upto(p))'
  BY DecisionStays
<1>3. i \in Int
  BY LenProperties DEF TypeOK
<1>4. Cardinality(Upto(p))' >= i
  BY <1>1, <1>2, <1>3
<1> QED BY <1>1, <1>2, <1>4

\* A finding is new only when the specialist that the last decision named returns.
LEMMA FindingStep ==
  ASSUME TypeOK, [Next]_vars
  PROVE  \/ findings' = findings /\ iteration_count' >= iteration_count
         \/ /\ pc \in Specialists /\ pc' = "supervisor"
            /\ findings' = Append(findings, pc) /\ iteration_count' = iteration_count + 1
<1>1. iteration_count \in Nat
  BY DEF TypeOK
<1>2. ASSUME NEW acts, NEW usage, NEW reports \in BOOLEAN,
             SpecialistReturns(acts, usage, reports)
      PROVE  /\ pc \in Specialists /\ pc' = "supervisor" /\ iteration_count' = iteration_count + 1
             /\ findings' = findings \/ findings' = Append(findings, pc)
  BY <1>2 DEF SpecialistReturns
<1>3. ASSUME NEW mentioned, NEW usage, Route(mentioned, usage)
      PROVE  UNCHANGED <<findings, iteration_count>>
  BY <1>3 DEF Route
<1>4. ASSUME NEW hits, NEW missing, NEW usage, Synthesize(hits, missing, usage)
      PROVE  UNCHANGED <<findings, iteration_count>>
  BY <1>4 DEF Synthesize
<1>5. CASE BreakerTrips \/ AskForRoute \/ Persist \/ NodeRaises \/ Tick \/ UNCHANGED vars
  BY <1>1, <1>5 DEF BreakerTrips, AskForRoute, Persist, NodeRaises, Tick, vars
<1> QED BY <1>1, <1>2, <1>3, <1>4, <1>5 DEF Next, Progress, Terminated

\* Every step keeps what the findings rest on.
LEMMA FindingPreserved ==
  TypeOK /\ TypeOK' /\ CapInv /\ FindingInv /\ [Next]_vars => FindingInv'
<1> SUFFICES ASSUME TypeOK, TypeOK', CapInv, FindingInv, [Next]_vars PROVE FindingInv'
  OBVIOUS
<1>0. /\ findings \in Seq(Specialists) /\ Len(findings) \in Nat
      /\ DOMAIN findings = 1..Len(findings)
      /\ iteration_count \in Nat /\ iteration_count' \in Nat
      /\ Len(findings) <= iteration_count
      /\ Len(trajectory) \in Nat /\ DOMAIN trajectory = 1..Len(trajectory)
  BY LenProperties DEF TypeOK, FindingInv, FindingsFollowTurns
<1>1. pc' \in Specialists =>
        \E p \in SpecialistRouteSteps' :
          trajectory'[p].detail = pc' /\ \A q \in SpecialistRouteSteps' : q <= p
  <2>1. CASE pc = "routing" /\ pc' \in Specialists
    <3> DEFINE n == Len(trajectory)
    <3>1. /\ SpecialistRouteSteps' = SpecialistRouteSteps \cup {n + 1}
          /\ trajectory'[n + 1].detail = pc'
      BY <2>1, RoutesGrow
    <3>2. \A q \in SpecialistRouteSteps : q \in 1..n
      BY <1>0 DEF SpecialistRouteSteps
    <3>3. \A q \in SpecialistRouteSteps' : q <= n + 1
      BY <1>0, <3>1, <3>2
    <3> QED BY <3>1, <3>3
  <2>2. CASE pc' \in Specialists /\ pc # "routing"
    <3>1. pc' = pc
      BY <2>2, CountStep DEF Specialists
    <3>2. /\ SpecialistRouteSteps' = SpecialistRouteSteps
          /\ \A i \in SpecialistRouteSteps : trajectory'[i] = trajectory[i]
      BY <2>2, RoutesGrow
    <3>3. PICK p \in SpecialistRouteSteps :
            trajectory[p].detail = pc /\ \A q \in SpecialistRouteSteps : q <= p
      BY <2>2, <3>1 DEF FindingInv
    <3> QED BY <3>1, <3>2, <3>3
  <2> QED BY <2>1, <2>2
<1>2. CASE findings' = findings /\ iteration_count' >= iteration_count
  <2>1. Len(findings') <= iteration_count'
    BY <1>0, <1>2
  <2>2. \A i \in DOMAIN findings' : \E p \in SpecialistRouteSteps' :
          trajectory'[p].detail = findings'[i] /\ Cardinality(Upto(p))' >= i
    BY <1>2, FindingStays
  <2> QED BY <1>1, <2>1, <2>2 DEF FindingInv, FindingsFollowTurns, Upto
<1>3. CASE /\ pc \in Specialists /\ pc' = "supervisor"
           /\ findings' = Append(findings, pc) /\ iteration_count' = iteration_count + 1
  <2>1. /\ Len(findings') = Len(findings) + 1 /\ findings'[Len(findings) + 1] = pc
        /\ \A i \in 1..Len(findings) : findings'[i] = findings[i]
        /\ DOMAIN findings' = 1..(Len(findings) + 1)
    BY <1>0, <1>3
  <2>2. PICK p \in SpecialistRouteSteps :
          trajectory[p].detail = pc /\ \A q \in SpecialistRouteSteps : q <= p
    BY <1>3 DEF FindingInv
  <2>3. Cardinality(Upto(p)) = iteration_count + 1
    <3>1. Upto(p) = SpecialistRouteSteps
      BY <2>2 DEF Upto
    <3> QED BY <1>3, <3>1 DEF CapInv, IterationCap
  <2>4. /\ p \in SpecialistRouteSteps' /\ trajectory'[p].detail = pc
        /\ Cardinality(Upto(p))' >= Len(findings) + 1
    <3>1. /\ p \in SpecialistRouteSteps' /\ trajectory'[p] = trajectory[p]
          /\ Cardinality(Upto(p)) \in Nat /\ Cardinality(Upto(p))' \in Nat
          /\ Cardinality(Upto(p)) <= Cardinality(Upto(p))'
      BY DecisionStays
    <3> QED BY <1>0, <2>2, <2>3, <3>1
  <2>5. ASSUME NEW i \in DOMAIN findings'
        PROVE  \E r \in SpecialistRouteSteps' :
                 trajectory'[r].detail = findings'[i] /\ Cardinality(Upto(r))' >= i
    <3>1. CASE i = Len(findings) + 1
      BY <2>1, <2>4, <3>1
    <3>2. CASE i \in DOMAIN findings
      BY <1>0, <2>1, <3>2, FindingStays
    <3> QED BY <1>0, <2>1, <3>1, <3>2
  <2>6. Len(findings') <= iteration_count'
    BY <1>0, <1>3, <2>1
  <2> QED BY <1>1, <2>5, <2>6 DEF FindingInv, FindingsFollowTurns, Upto
<1> QED BY <1>2, <1>3, FindingStep

\* A turn reports one finding at most, and the i-th finding comes from the i-th
\* decision to run a specialist or a later one.
THEOREM FindingsAreEarned == Spec => []FindingsFollowTurns
<1>1. Init => FindingInv
  BY EmptySeq DEF Init, FindingInv, FindingsFollowTurns, Specialists
<1>2. FindingInv => FindingsFollowTurns
  BY DEF FindingInv
<1> QED BY <1>1, <1>2, FindingPreserved, CapInitially, CapPreserved, TypeCorrect, PTL DEF Spec

-----------------------------------------------------------------------------

\* A decision is only being made while the last ones differ.
RepeatInv ==
  /\ NoFourthRepeat
  /\ pc = "routing" => ~RepeatedRoute(trajectory)

\* How a step changes the places of the decisions: only the supervisor's own entry
\* can be a new one.
LEMMA DecisionsGrow ==
  ASSUME TypeOK, TypeOK', [Next]_vars
  PROVE  LET n == Len(trajectory)
             old == RouteSteps(trajectory)
             new == RouteSteps(trajectory')
         IN  /\ n \in Nat /\ old \subseteq 1..n
             /\ \A i \in old : trajectory'[i] = trajectory[i]
             /\ new = old \/ (pc = "routing" /\ new = old \cup {n + 1})
<1> DEFINE n == Len(trajectory)
           m == Len(trajectory')
           old == RouteSteps(trajectory)
           new == RouteSteps(trajectory')
<1>1. LogGrows
  BY LogStep
<1>2. DOMAIN trajectory = 1..n /\ DOMAIN trajectory' = 1..m /\ n \in Nat /\ m \in Nat
  BY LenProperties DEF TypeOK
<1>3. old \subseteq 1..n /\ new \subseteq 1..m
  BY <1>2 DEF RouteSteps
<1>4. \A i \in 1..n : trajectory'[i] = trajectory[i] /\ (i \in new <=> i \in old)
  BY <1>1, <1>2 DEF LogGrows, RouteSteps
<1>5. ASSUME NEW i \in new, i \notin 1..n
      PROVE  pc = "routing" /\ i = n + 1
  <2>1. NewEntryBy(i) /\ i > n /\ i <= m
    BY <1>1, <1>2, <1>3, <1>5 DEF LogGrows
  <2>2. IsRoute(trajectory'[i])
    BY <1>5 DEF RouteSteps
  <2>3. pc = "routing" /\ m = n + 1
    BY <2>1, <2>2 DEF NewEntryBy, IsRoute, Specialists
  <2> QED BY <1>2, <1>3, <2>1, <2>3
<1> HIDE DEF old, new, n, m
<1>6. new = old \/ (pc = "routing" /\ new = old \cup {n + 1})
  BY <1>3, <1>4, <1>5
<1> QED BY <1>2, <1>3, <1>4, <1>6 DEF old, new, n, m

\* The decision that would be a fourth in a row is not asked for.
LEMMA RepeatPreserved ==
  TypeOK /\ TypeOK' /\ RepeatInv /\ [Next]_vars => RepeatInv'
<1> SUFFICES ASSUME TypeOK, TypeOK', RepeatInv, [Next]_vars PROVE RepeatInv'
  OBVIOUS
<1> DEFINE n == Len(trajectory)
           old == RouteSteps(trajectory)
           new == RouteSteps(trajectory')
           Before(R, i) == {j \in R : j < i}
           Between(R, j, i) == {k \in R : j < k /\ k < i}
<1>1. /\ n \in Nat /\ old \subseteq 1..n
      /\ \A i \in old : trajectory'[i] = trajectory[i]
      /\ new = old \/ (pc = "routing" /\ new = old \cup {n + 1})
  BY DecisionsGrow
<1>2. ASSUME NEW i \in new, Cardinality(Before(new, i)) >= RepeatedRouteWindow
      PROVE  \E j \in new : /\ j < i
                            /\ Cardinality(Between(new, j, i)) < RepeatedRouteWindow
                            /\ trajectory'[j].detail # trajectory'[i].detail
  <2>1. CASE i \in old
    <3> HIDE DEF old, new
    <3>1. i \in 1..n
      BY <1>1, <2>1
    <3>2. Before(new, i) = Before(old, i)
      BY <1>1, <3>1
    <3>3. PICK j \in old : /\ j < i
                           /\ Cardinality(Between(old, j, i)) < RepeatedRouteWindow
                           /\ trajectory[j].detail # trajectory[i].detail
      BY <1>2, <2>1, <3>2 DEF RepeatInv, NoFourthRepeat, old
    <3>4. Between(new, j, i) = Between(old, j, i)
      BY <1>1, <3>1, <3>3
    <3> QED BY <1>1, <2>1, <3>3, <3>4
  <2>2. CASE i \notin old
    <3>1. pc = "routing" /\ i = n + 1 /\ new = old \cup {n + 1}
      BY <1>1, <2>2
    <3> HIDE DEF old, new
    <3>2. (\A j \in old : j < i) /\ ~(i < i)
      BY <1>1, <3>1
    <3>0. Cardinality(old) >= RepeatedRouteWindow
      <4>1. Before(new, i) = old
        BY <3>1, <3>2
      <4> QED BY <1>2, <4>1
    <3>3. PICK a \in LastRoutes(trajectory, RepeatedRouteWindow),
               b \in LastRoutes(trajectory, RepeatedRouteWindow) :
            trajectory[a].detail # trajectory[b].detail
      BY <3>0, <3>1 DEF RepeatInv, RepeatedRoute, old
    <3>4. PICK j \in LastRoutes(trajectory, RepeatedRouteWindow) :
            trajectory[j].detail # trajectory'[i].detail
      BY <3>3
    <3>5. j \in old /\ Cardinality({k \in old : k > j}) < RepeatedRouteWindow
      BY <3>4 DEF LastRoutes, old
    <3>6. Between(new, j, i) = {k \in old : k > j}
      BY <3>1, <3>2
    <3>7. j < i /\ j \in new /\ Cardinality(Between(new, j, i)) < RepeatedRouteWindow
      BY <3>1, <3>2, <3>5, <3>6
    <3>8. trajectory'[j].detail # trajectory'[i].detail
      BY <1>1, <3>4, <3>5
    <3> QED BY <3>7, <3>8
  <2> QED BY <2>1, <2>2
<1>3. NoFourthRepeat'
  BY <1>2 DEF NoFourthRepeat
<1>4. ASSUME pc' = "routing" PROVE ~RepeatedRoute(trajectory')
  <2>1. AskForRoute \/ (pc = "routing" /\ trajectory' = trajectory)
    BY <1>4 DEF Next, Progress, Terminated, Halted, BreakerTrips, Route, SpecialistReturns,
                Synthesize, Persist, NodeRaises, Tick, vars, Specialists, NodeOf, ParseRouting
  <2>2. CASE AskForRoute
    BY <2>2 DEF AskForRoute, Trip, TripReason
  <2> QED BY <2>1, <2>2 DEF RepeatInv
<1> QED BY <1>3, <1>4 DEF RepeatInv

\* The breaker reads the last three decisions before each one, so no four in a row
\* name the same target, however long the diagnosis.
THEOREM NoRouteRepeatsLong == Spec => []NoFourthRepeat
<1>1. Init => RepeatInv
  BY DEF Init, RepeatInv, NoFourthRepeat, RouteSteps
<1>2. RepeatInv => NoFourthRepeat
  BY DEF RepeatInv
<1>3. TypeOK /\ TypeOK' /\ RepeatInv /\ [Next]_vars => RepeatInv'
  BY RepeatPreserved
<1> QED BY <1>1, <1>2, <1>3, TypeCorrect, PTL DEF Spec

-----------------------------------------------------------------------------

\* A count is read as a number of turns left, and one under way has its own left.
LEMMA TurnsLeft ==
  ASSUME TypeOK, CapInv
  PROVE  /\ iteration_count \in Nat /\ MaxAgentIterations \in Nat
         /\ pc \in Specialists \cup {"routing"} => iteration_count < MaxAgentIterations
         /\ pc # "raised" => iteration_count <= MaxAgentIterations
<1> DEFINE routed == Cardinality(SpecialistRouteSteps)
<1>1. routed \in Nat /\ iteration_count \in Nat /\ MaxAgentIterations \in Nat
  <2>1. Len(trajectory) \in Nat /\ DOMAIN trajectory = 1..Len(trajectory)
    BY DEF TypeOK
  <2>2. IsFiniteSet(SpecialistRouteSteps)
    <3>1. SpecialistRouteSteps \in SUBSET (1..Len(trajectory))
      BY <2>1 DEF SpecialistRouteSteps
    <3>2. IsFiniteSet(1..Len(trajectory))
      BY <2>1, FS_Interval
    <3> QED BY <3>1, <3>2, FS_Subset
  <2> QED BY <2>2, FS_CardinalityType, LimitsAssumption DEF TypeOK
<1>2. /\ routed <= MaxAgentIterations
      /\ pc \in Specialists => routed = iteration_count + 1
      /\ pc \notin Specialists \cup {"raised"} => routed = iteration_count
      /\ pc = "routing" => iteration_count < MaxAgentIterations
  BY DEF CapInv, IterationCap
<1> HIDE DEF routed
<1> QED BY <1>1, <1>2

\* Every step but the clock's leaves fewer to make.
LEMMA StepAdvances ==
  ASSUME TypeOK, CapInv, Next, ~Tick
  PROVE  (0 <= StepsLeft' /\ StepsLeft' < StepsLeft) \/ UNCHANGED vars
<1> DEFINE left == MaxAgentIterations - iteration_count
<1>0. /\ left \in Int
      /\ pc \in Specialists \cup {"routing"} => left >= 1
      /\ pc # "raised" => left >= 0
  BY TurnsLeft
<1>1. CASE BreakerTrips
  <2>1. pc = "supervisor" /\ pc' = "synthesis"
    BY <1>1 DEF BreakerTrips, NodeOf
  <2>2. StepsLeft = 3 * left + 3 /\ StepsLeft' = 2
    BY <2>1 DEF StepsLeft, Specialists, Halted
  <2> QED BY <1>0, <2>1, <2>2
<1>2. CASE AskForRoute
  <2>1. pc = "supervisor" /\ pc' = "routing" /\ iteration_count' = iteration_count
    BY <1>2 DEF AskForRoute
  <2>2. StepsLeft = 3 * left + 3 /\ StepsLeft' = 3 * left + 2
    BY <2>1 DEF StepsLeft, Specialists, Halted
  <2> QED BY <1>0, <2>1, <2>2
<1>3. ASSUME NEW mentioned, NEW usage, Route(mentioned, usage)
      PROVE  0 <= StepsLeft' /\ StepsLeft' < StepsLeft
  <2>1. /\ pc = "routing" /\ pc' \in {"synthesis"} \cup Specialists
        /\ iteration_count' = iteration_count
    BY <1>3, ParseRoutingType DEF Route, NodeOf, RouteTargets
  <2>2. /\ StepsLeft = 3 * left + 2
        /\ StepsLeft' = IF pc' = "synthesis" THEN 2 ELSE 3 * left + 1
    BY <2>1 DEF StepsLeft, Specialists, Halted
  <2> QED BY <1>0, <2>1, <2>2
<1>4. ASSUME NEW acts, NEW usage, NEW reports, SpecialistReturns(acts, usage, reports)
      PROVE  0 <= StepsLeft' /\ StepsLeft' < StepsLeft
  <2>1. pc \in Specialists /\ pc' = "supervisor" /\ iteration_count' = iteration_count + 1
    BY <1>4 DEF SpecialistReturns
  <2>2. StepsLeft = 3 * left + 1 /\ StepsLeft' = 3 * (left - 1) + 3
    <3>1. MaxAgentIterations - iteration_count' = left - 1
      BY <2>1, TurnsLeft
    <3> QED BY <2>1, <3>1 DEF StepsLeft, Specialists, Halted
  <2> QED BY <1>0, <2>1, <2>2
<1>5. ASSUME NEW hits, NEW missing, NEW usage, Synthesize(hits, missing, usage)
      PROVE  0 <= StepsLeft' /\ StepsLeft' < StepsLeft
  <2>1. pc = "synthesis" /\ pc' = "persist"
    BY <1>5 DEF Synthesize
  <2>2. StepsLeft = 2 /\ StepsLeft' = 1
    BY <2>1 DEF StepsLeft, Specialists, Halted
  <2> QED BY <2>2
<1>6. CASE Persist
  <2>1. pc = "persist" /\ pc' = "end"
    BY <1>6 DEF Persist
  <2>2. StepsLeft = 1 /\ StepsLeft' = 0
    BY <2>1 DEF StepsLeft, Specialists, Halted
  <2> QED BY <2>2
<1>7. CASE NodeRaises
  <2>1. /\ pc \in {"supervisor", "routing", "synthesis", "persist"} \cup Specialists
        /\ pc' = "raised"
    BY <1>7 DEF NodeRaises
  <2>2. StepsLeft >= 1
    BY <1>0, <2>1 DEF StepsLeft, Specialists, Halted
  <2>3. StepsLeft' = 0
    BY <2>1 DEF StepsLeft, Specialists, Halted
  <2> QED BY <1>0, <2>1, <2>2, <2>3 DEF StepsLeft, Specialists, Halted
<1> QED BY <1>1, <1>2, <1>3, <1>4, <1>5, <1>6, <1>7 DEF Next, Progress, Terminated

\* Every step but the clock's brings the end of a diagnosis nearer: it takes three steps
\* for each turn and three more at most, whatever the model answers.
THEOREM DiagnosisAdvances == Spec => EveryStepAdvances
<1> DEFINE others == <<pc, trajectory, findings, tokens, iteration_count, next_agent,
                       diagnosis, store, prompt, overruns>>
<1>1. TypeOK /\ CapInv /\ [Next]_vars => [0 <= StepsLeft' /\ StepsLeft' < StepsLeft]_others
  <2> SUFFICES ASSUME TypeOK, CapInv, [Next]_vars, ~UNCHANGED others
               PROVE  0 <= StepsLeft' /\ StepsLeft' < StepsLeft
    OBVIOUS
  <2>1. Next /\ ~Tick /\ ~UNCHANGED vars
    BY DEF vars, Tick
  <2> QED BY <2>1, StepAdvances
<1> QED BY <1>1, CapInitially, TypeInitially, TypePreserved, CapPreserved, PTL
        DEF Spec, EveryStepAdvances
=============================================================================
