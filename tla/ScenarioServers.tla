-------------------------- MODULE ScenarioServers --------------------------
(***************************************************************************)
(* The scenario files and the three mock servers that answer from them.    *)
(* The command line loads the file it is asked for; each specialist turn   *)
(* then starts a server of its own, which loads the file that bears the    *)
(* incident's name, while the files may be edited.                         *)
(***************************************************************************)
EXTENDS Roles, Loops, SequencesExt

CONSTANTS
  Stems,       \* names of files in scenarios/, without .json
  Scenarios,   \* the scenarios a file may hold
  InitialFiles,\* what the files hold at first
  EditedFiles, \* what an edit may leave in a file
  MaxEdits,    \* bound on the edits
  MaxCalls,    \* bound on the tool calls of a diagnosis
  Names, Namespaces, Severities, Metrics,   \* arguments the model may give
  TailLines    \* arguments of get_pod_logs, zero and less included

\* Scenario, as far as the servers read it.
IsScenario(s) ==
  /\ \A field \in {"pods", "events", "alerts", "runbooks"} : s[field] \in Seq(ToSet(s[field]))
  /\ \A name \in DOMAIN s.logs : s.logs[name] \in Seq(ToSet(s.logs[name]))

\* What a file holds: nothing that can be loaded, or a scenario.
Contents == {<<>>} \cup {<<s>> : s \in Scenarios}

ASSUME ServersAssumption ==
  /\ \A s \in Scenarios : IsScenario(s)
  /\ InitialFiles \subseteq [Stems -> Contents]
  /\ EditedFiles \subseteq Contents
  /\ TailLines \subseteq Int
  /\ MaxEdits \in Nat
  /\ MaxCalls \in Nat

VARIABLES
  files,     \* scenarios/
  edits,     \* how often they were edited
  stage,     \* "idle", "diagnosing", "ended" or "failed"
  asked,     \* diagnose --scenario
  incident,  \* <<GraphState.scenario>>
  begun,     \* edits when the incident was loaded
  agent,     \* whose server is connected
  server,    \* [scenario, version]: what it has loaded, and after how many edits
  told       \* history: the answers, [version, tool, args, answer]

vars == <<files, edits, stage, asked, incident, begun, agent, server, told>>

Unset == "unset"     \* an optional argument that is not given
NoServer == [scenario |-> <<>>, version |-> 0]

-----------------------------------------------------------------------------
\* The tools.  A lookup answers what it finds, <<x>>, or an error, <<>>.

FirstOf(s) == IF s = <<>> THEN <<>> ELSE <<s[1]>>

\* list_pods, describe_pod: the first of the name.
Pods(s, namespace) ==
  Matching(s.pods, {p \in ToSet(s.pods) : namespace \in {Unset, p.namespace}})
Named(specs, name) == Matching(specs, {x \in ToSet(specs) : x.name = name})
Pod(s, name) == FirstOf(Named(s.pods, name))

\* Mutant: lines[:n].
FirstLines(lines, n) == SubSeq(lines, 1, IF n < Len(lines) THEN n ELSE Len(lines))

\* lines[-n:]: all of them for zero, all but the first -n for less.
LastLines(lines, n) ==
  LET first == IF n <= 0 THEN 1 - n ELSE IF n < Len(lines) THEN Len(lines) - n + 1 ELSE 1
  IN  SubSeq(lines, first, Len(lines))

\* get_pod_logs: a pod that has none, or that does not exist, has an empty log.
PodLogs(s, name, n) ==
  LastLines(IF name \in DOMAIN s.logs THEN s.logs[name] ELSE <<>>, n)

\* get_events
Events(s, namespace, object) ==
  Matching(s.events, {e \in ToSet(s.events) : /\ namespace \in {Unset, e.namespace}
                                              /\ object \in {Unset, e.name}})

\* query_range, whatever the range
Samples(s, metric) == IF metric \in DOMAIN s.metrics THEN s.metrics[metric] ELSE <<>>

\* get_alerts, get_targets
Alerts(s, severity) ==
  Matching(s.alerts, {a \in ToSet(s.alerts) : severity \in {Unset, a.severity}})
Targets(s) ==
  [i \in DOMAIN s.pods |->
     [pod |-> s.pods[i].name, namespace |-> s.pods[i].namespace,
      up  |-> s.pods[i].status = "Running"]]

\* get_runbook, list_runbooks, list_runbook_steps
Runbook(s, trigger) ==
  FirstOf(Matching(s.runbooks, {r \in ToSet(s.runbooks) : r.trigger = trigger}))
Runbooks(s) ==
  [i \in DOMAIN s.runbooks |->
     [name |-> s.runbooks[i].name, trigger |-> s.runbooks[i].trigger]]
RunbookSteps(s, name) ==
  LET found == FirstOf(Named(s.runbooks, name))
  IN  [i \in DOMAIN found |-> found[i].steps]

-----------------------------------------------------------------------------

Init ==
  /\ files \in InitialFiles
  /\ edits = 0
  /\ stage = "idle"
  /\ asked = "none"
  /\ incident = <<>>
  /\ begun = 0
  /\ agent = "none"
  /\ server = NoServer
  /\ told = <<>>

\* _run_diagnose loads scenarios/<name>.json.
Diagnose(stem) ==
  /\ stage = "idle"
  /\ files[stem] # <<>>
  /\ stage' = "diagnosing"
  /\ asked' = stem
  /\ incident' = files[stem]
  /\ begun' = edits
  /\ UNCHANGED <<files, edits, agent, server, told>>

\* No such file, or it does not parse: the command exits.
DiagnoseFails(stem) ==
  /\ stage = "idle"
  /\ files[stem] = <<>>
  /\ stage' = "failed"
  /\ asked' = stem
  /\ UNCHANGED <<files, edits, incident, begun, agent, server, told>>

\* Mutant: the server takes whichever file comes first.
ScenarioPathFirst == CHOOSE stem \in Stems : files[stem] # <<>>

\* _scenario_path: by the incident's name, not by the file it came from.
ScenarioPath == incident[1].name

ScenarioReadable == ScenarioPath \in Stems /\ files[ScenarioPath] # <<>>

\* A turn begins: its server resolves the path and loads the file.
Connect(specialist) ==
  /\ stage = "diagnosing"
  /\ agent = "none"
  /\ ScenarioReadable
  /\ agent' = specialist
  /\ server' = [scenario |-> files[ScenarioPath], version |-> edits]
  /\ UNCHANGED <<files, edits, stage, asked, incident, begun, told>>

\* The server raises, the session with it, and the diagnosis fails.
ConnectFails ==
  /\ stage = "diagnosing"
  /\ agent = "none"
  /\ ~ScenarioReadable
  /\ stage' = "failed"
  /\ UNCHANGED <<files, edits, asked, incident, begun, agent, server, told>>

\* Mutant: the server outlives its turn.
DisconnectKeepsServer ==
  /\ agent # "none"
  /\ agent' = "none"
  /\ UNCHANGED <<files, edits, stage, asked, incident, begun, server, told>>

\* The turn ends, and its server.
Disconnect ==
  /\ agent # "none"
  /\ agent' = "none"
  /\ server' = NoServer
  /\ UNCHANGED <<files, edits, stage, asked, incident, begun, told>>

Ends ==
  /\ stage = "diagnosing"
  /\ agent = "none"
  /\ stage' = "ended"
  /\ UNCHANGED <<files, edits, asked, incident, begun, agent, server, told>>

\* Mutant: the server reads its file at every call.
ServedRead == IF ScenarioReadable THEN files[ScenarioPath][1] ELSE server.scenario[1]

\* What a server answers from: the scenario it was built with.
Served == server.scenario[1]

\* A call of the connected server is answered.
Reply(specialist, tool, args, answer) ==
  /\ agent = specialist
  /\ Len(told) < MaxCalls
  /\ told' = Append(told, [version |-> server.version, tool |-> tool,
                           args |-> args, answer |-> answer])
  /\ UNCHANGED <<files, edits, stage, asked, incident, begun, agent, server>>

K8sCall ==
  /\ agent = "log_analyst"
  /\ \/ \E namespace \in Namespaces \cup {Unset} :
          Reply(agent, "list_pods", <<namespace>>, Pods(Served, namespace))
     \/ \E name \in Names : Reply(agent, "describe_pod", <<name>>, Pod(Served, name))
     \/ \E name \in Names, n \in TailLines :
          Reply(agent, "get_pod_logs", <<name, n>>, PodLogs(Served, name, n))
     \/ \E namespace \in Namespaces \cup {Unset}, object \in Names \cup {Unset} :
          Reply(agent, "get_events", <<namespace, object>>,
                Events(Served, namespace, object))

PrometheusCall ==
  /\ agent = "metrics_analyst"
  /\ \/ \E metric \in Metrics :
          Reply(agent, "query_range", <<metric>>, Samples(Served, metric))
     \/ \E severity \in Severities \cup {Unset} :
          Reply(agent, "get_alerts", <<severity>>, Alerts(Served, severity))
     \/ Reply(agent, "get_targets", <<>>, Targets(Served))

RunbookCall ==
  /\ agent = "runbook_executor"
  /\ \/ \E trigger \in Names :
          Reply(agent, "get_runbook", <<trigger>>, Runbook(Served, trigger))
     \/ Reply(agent, "list_runbooks", <<>>, Runbooks(Served))
     \/ \E name \in Names :
          Reply(agent, "list_runbook_steps", <<name>>, RunbookSteps(Served, name))

\* Somebody changes, adds or removes a file.
Edit(stem, content) ==
  /\ edits < MaxEdits
  /\ files' = [files EXCEPT ![stem] = content]
  /\ edits' = edits + 1
  /\ UNCHANGED <<stage, asked, incident, begun, agent, server, told>>

Next ==
  \/ \E stem \in Stems : Diagnose(stem) \/ DiagnoseFails(stem)
  \/ \E specialist \in Specialists : Connect(specialist)
  \/ ConnectFails
  \/ K8sCall
  \/ PrometheusCall
  \/ RunbookCall
  \/ Disconnect
  \/ Ends
  \/ \E stem \in Stems, content \in EditedFiles : Edit(stem, content)
  \/ stage \in {"ended", "failed"} /\ UNCHANGED vars

Spec == Init /\ [][Next]_vars

-----------------------------------------------------------------------------
\* Properties.

TypeOK ==
  /\ stage \in {"idle", "diagnosing", "ended", "failed"}
  /\ asked \in Stems \cup {"none"}
  /\ files \in [Stems -> Contents]
  /\ incident \in Contents
  /\ edits \in 0..MaxEdits
  /\ begun \in 0..edits
  /\ agent \in Specialists \cup {"none"}
  /\ agent = "none" <=> server = NoServer
  /\ server.scenario \in Contents
  /\ server.version \in 0..edits
  /\ Len(told) <= MaxCalls

\* Every turn is served the incident under diagnosis: unless a file was edited since,
\* or the incident bears another name than its file, its server has the same data
\* as the supervisor's prompt and the metrics, and never fails to start.
ServedAsDiagnosed ==
  incident # <<>> /\ asked = incident[1].name /\ edits = begun =>
    /\ stage # "failed"
    /\ agent # "none" => server.scenario = incident

Pairs(first, second) ==
  {p \in (DOMAIN told) \X (DOMAIN told) :
     /\ told[p[1]].tool = first
     /\ told[p[2]].tool = second
     /\ told[p[1]].version = told[p[2]].version}

\* The answers a diagnosis collects, from whichever server and in whatever turn, are
\* about one incident as long as no file is edited: a listed pod is described, by
\* the first pod of its name; the targets are the pods, up when they run; what is
\* filtered is in the whole; runbooks are found exactly when they are listed.
AnswersAgree ==
  /\ \A p \in Pairs("list_pods", "describe_pod") :
       LET listed == told[p[1]]
           named  == Named(listed.answer, told[p[2]].args[1])
       IN  /\ named # <<>> => told[p[2]].answer # <<>>
           /\ listed.args = <<Unset>> => told[p[2]].answer = FirstOf(named)
  /\ \A p \in Pairs("list_pods", "get_targets") :
       told[p[1]].args = <<Unset>> =>
         told[p[2]].answer =
           [i \in DOMAIN told[p[1]].answer |->
              LET q == told[p[1]].answer[i]
              IN  [pod |-> q.name, namespace |-> q.namespace, up |-> q.status = "Running"]]
  /\ \A p \in Pairs("get_events", "get_events") :
       told[p[1]].args = <<Unset, Unset>> =>
         ToSet(told[p[2]].answer) \subseteq ToSet(told[p[1]].answer)
  /\ \A p \in Pairs("list_runbooks", "get_runbook") :
       told[p[2]].answer # <<>> <=>
         \E i \in DOMAIN told[p[1]].answer : told[p[1]].answer[i].trigger = told[p[2]].args[1]
  /\ \A p \in Pairs("list_runbooks", "list_runbook_steps") :
       told[p[2]].answer # <<>> <=>
         \E i \in DOMAIN told[p[1]].answer : told[p[1]].answer[i].name = told[p[2]].args[1]

\* Asking for fewer log lines yields the end of what asking for more yields, and no
\* more than were asked for; asking for none yields them all.
TailsNest ==
  \A p \in Pairs("get_pod_logs", "get_pod_logs") :
    LET a == told[p[1]]
        b == told[p[2]]
    IN  a.args[1] = b.args[1] =>
          /\ a.args[2] \in 1..b.args[2] =>
               Len(a.answer) <= a.args[2] /\ IsSuffix(a.answer, b.answer)
          /\ b.args[2] = 0 => IsSuffix(a.answer, b.answer)
=============================================================================
