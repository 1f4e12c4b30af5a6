----------------------- MODULE ScenarioServersProofs -----------------------
(***************************************************************************)
(* Theorems about ScenarioServers, for any files, edits and arguments.     *)
(***************************************************************************)
EXTENDS ScenarioServers, LoopsProofs, TLAPS

\* Until an edit, the incident is what its file holds.
ServedInv ==
  /\ edits \in Nat /\ begun \in Nat /\ begun <= edits
  /\ stage = "idle" => incident = <<>> /\ agent = "none"
  /\ incident # <<>> => asked \in Stems
  /\ incident # <<>> /\ edits = begun => files[asked] = incident
  /\ ServedAsDiagnosed

\* An edit counts, and a server starts from the file as it then is.
LEMMA ServedPreserved == ServedInv /\ [Next]_vars => ServedInv'
<1> SUFFICES ASSUME ServedInv, [Next]_vars PROVE ServedInv'
  OBVIOUS
<1> USE DEF ServedInv, ServedAsDiagnosed
<1>1. ASSUME NEW stem \in Stems, Diagnose(stem) PROVE ServedInv'
  BY <1>1 DEF Diagnose
<1>2. ASSUME NEW stem \in Stems, DiagnoseFails(stem) PROVE ServedInv'
  BY <1>2 DEF DiagnoseFails
<1>3. ASSUME NEW specialist \in Specialists, Connect(specialist) PROVE ServedInv'
  <2>1. /\ server'.scenario = files[incident[1].name]
        /\ stage = "diagnosing"
        /\ UNCHANGED <<files, edits, stage, asked, incident, begun>>
    BY <1>3 DEF Connect, ScenarioPath
  <2> QED BY <2>1
<1>4. CASE ConnectFails
  <2>1. incident # <<>> /\ edits = begun => asked # incident[1].name
    BY <1>4 DEF ConnectFails, ScenarioReadable, ScenarioPath
  <2>2. UNCHANGED <<files, edits, asked, incident, begun, agent, server>> /\ stage' = "failed"
    BY <1>4 DEF ConnectFails
  <2> QED BY <2>1, <2>2
<1>5. CASE UNCHANGED <<files, edits, stage, asked, incident, begun, agent, server>>
  BY <1>5
<1>6. CASE K8sCall \/ PrometheusCall \/ RunbookCall \/ UNCHANGED vars
  BY <1>5, <1>6 DEF K8sCall, PrometheusCall, RunbookCall, Reply, vars
<1>7. CASE Disconnect
  BY <1>7 DEF Disconnect
<1>8. CASE Ends
  BY <1>8 DEF Ends
<1>9. ASSUME NEW stem \in Stems, NEW content \in EditedFiles, Edit(stem, content)
      PROVE  ServedInv'
  <2>1. edits' = edits + 1 /\ UNCHANGED <<stage, asked, incident, begun, agent, server>>
    BY <1>9 DEF Edit
  <2>2. edits' # begun' /\ edits' \in Nat /\ begun' <= edits'
    BY <2>1
  <2> QED BY <2>1, <2>2
<1> QED BY <1>1, <1>2, <1>3, <1>4, <1>6, <1>7, <1>8, <1>9 DEF Next

\* Unless a file was edited since, or the incident bears another name than its
\* file, every turn is served the incident under diagnosis and its server starts.
THEOREM TurnsAreServed == Spec => []ServedAsDiagnosed
<1>1. Init => ServedInv
  BY DEF Init, ServedInv, ServedAsDiagnosed
<1>2. ServedInv => ServedAsDiagnosed
  BY DEF ServedInv
<1> QED BY <1>1, <1>2, ServedPreserved, PTL DEF Spec

-----------------------------------------------------------------------------
\* Type correctness.

TypeInv ==
  /\ TypeOK
  /\ edits \in Nat
  /\ stage = "idle" => incident = <<>> /\ agent = "none"
  /\ stage = "diagnosing" => incident # <<>>
  /\ agent # "none" => stage = "diagnosing"
  /\ told \in Seq(ToSet(told))

\* A call adds one answer and changes nothing else.
LEMMA CallReplies ==
  ASSUME K8sCall \/ PrometheusCall \/ RunbookCall
  PROVE  /\ \E tool, args, answer :
              told' = Append(told, [version |-> server.version, tool |-> tool,
                                    args |-> args, answer |-> answer])
         /\ agent # "none" /\ Len(told) < MaxCalls
         /\ UNCHANGED <<files, edits, stage, asked, incident, begun, agent, server>>
<1>1. \E tool, args, answer : Reply(agent, tool, args, answer)
  BY DEF K8sCall, PrometheusCall, RunbookCall
<1>2. agent # "none"
  BY DEF K8sCall, PrometheusCall, RunbookCall
<1> QED BY <1>1, <1>2 DEF Reply

LEMMA TypePreserved == TypeInv /\ [Next]_vars => TypeInv'
<1> SUFFICES ASSUME TypeInv, [Next]_vars PROVE TypeInv'
  OBVIOUS
<1> USE ServersAssumption DEF TypeInv, TypeOK
<1>0. NoServer \in [scenario : {<<>>}, version : {0}] /\ <<>> \in Contents
  BY DEF NoServer, Contents
<1>1. ASSUME NEW stem \in Stems, Diagnose(stem) PROVE TypeInv'
  <2>1. /\ stage = "idle" /\ stage' = "diagnosing" /\ asked' = stem /\ begun' = edits
        /\ incident' = files[stem] /\ files[stem] # <<>>
        /\ UNCHANGED <<files, edits, agent, server, told>>
    BY <1>1 DEF Diagnose
  <2>2. incident' \in Contents
    BY <2>1
  <2> QED BY <2>1, <2>2
<1>2. ASSUME NEW stem \in Stems, DiagnoseFails(stem) PROVE TypeInv'
  BY <1>2 DEF DiagnoseFails
<1>3. ASSUME NEW specialist \in Specialists, Connect(specialist) PROVE TypeInv'
  <2>1. /\ stage = "diagnosing" /\ agent' = specialist
        /\ server' = [scenario |-> files[ScenarioPath], version |-> edits]
        /\ UNCHANGED <<files, edits, stage, asked, incident, begun, told>>
        /\ ScenarioPath \in Stems /\ files[ScenarioPath] # <<>>
    BY <1>3 DEF Connect, ScenarioReadable
  <2>2. files[ScenarioPath] \in Contents
    BY <2>1
  <2>3. agent' # "none" /\ agent' \in Specialists
    BY <2>1 DEF Specialists
  <2>4. server' # NoServer /\ server'.scenario \in Contents /\ server'.version = edits
    BY <2>1, <2>2 DEF NoServer
  <2> QED BY <2>1, <2>3, <2>4
<1>4. CASE ConnectFails
  BY <1>4 DEF ConnectFails
<1>5. CASE K8sCall \/ PrometheusCall \/ RunbookCall
  <2>1. PICK tool, args, answer :
          told' = Append(told, [version |-> server.version, tool |-> tool,
                                args |-> args, answer |-> answer])
    BY <1>5, CallReplies
  <2>2. /\ Len(told) < MaxCalls
        /\ UNCHANGED <<files, edits, stage, asked, incident, begun, agent, server>>
    BY <1>5, CallReplies
  <2> DEFINE r == [version |-> server.version, tool |-> tool, args |-> args, answer |-> answer]
  <2> HIDE DEF r
  <2>3. told' = Append(told, r)
    BY <2>1 DEF r
  <2>4. told' \in Seq(ToSet(told')) /\ Len(told') = Len(told) + 1
    BY <2>3, AppendGrows
  <2> QED BY <2>2, <2>4
<1>6. CASE Disconnect
  <2>1. server' = NoServer /\ agent' = "none"
        /\ UNCHANGED <<files, edits, stage, asked, incident, begun, told>>
    BY <1>6 DEF Disconnect
  <2> QED BY <1>0, <2>1 DEF NoServer
<1>7. CASE Ends
  BY <1>7 DEF Ends
<1>8. ASSUME NEW stem \in Stems, NEW content \in EditedFiles, Edit(stem, content)
      PROVE  TypeInv'
  <2>1. /\ edits < MaxEdits /\ edits' = edits + 1
        /\ files' = [files EXCEPT ![stem] = content]
        /\ UNCHANGED <<stage, asked, incident, begun, agent, server, told>>
    BY <1>8 DEF Edit
  <2>2. files' \in [Stems -> Contents]
    BY <2>1
  <2> QED BY <2>1, <2>2
<1>9. CASE UNCHANGED vars
  BY <1>9 DEF vars
<1> QED BY <1>1, <1>2, <1>3, <1>4, <1>5, <1>6, <1>7, <1>8, <1>9 DEF Next

LEMMA TypeInvariant == Spec => []TypeInv
<1>1. Init => TypeInv
  <2> SUFFICES ASSUME Init PROVE TypeInv
    OBVIOUS
  <2>1. files \in [Stems -> Contents]
    BY ServersAssumption DEF Init
  <2>2. told = <<>> /\ told \in Seq(ToSet(told))
    BY DEF Init
  <2> QED BY <2>1, <2>2, ServersAssumption DEF Init, TypeInv, TypeOK, NoServer, Contents
<1> QED BY <1>1, TypePreserved, PTL DEF Spec

\* A server is connected exactly during a turn, and has loaded a scenario that some
\* edit left in a file.
THEOREM ServersAreTyped == Spec => []TypeOK
<1>1. TypeInv => TypeOK
  BY DEF TypeInv
<1> QED BY <1>1, TypeInvariant, PTL

-----------------------------------------------------------------------------
\* The versions of the file the servers read.

\* An answer is what its tool finds in a scenario.
AnsweredFrom(r, s) ==
  /\ r.tool = "list_pods" => r.answer = Pods(s, r.args[1])
  /\ r.tool = "describe_pod" => r.answer = Pod(s, r.args[1])
  /\ r.tool = "get_pod_logs" =>
       r.args[2] \in TailLines /\ r.answer = PodLogs(s, r.args[1], r.args[2])
  /\ r.tool = "get_events" => r.answer = Events(s, r.args[1], r.args[2])
  /\ r.tool = "get_targets" => r.answer = Targets(s)
  /\ r.tool = "get_runbook" => r.answer = Runbook(s, r.args[1])
  /\ r.tool = "list_runbooks" => r.answer = Runbooks(s)
  /\ r.tool = "list_runbook_steps" => r.answer = RunbookSteps(s, r.args[1])

\* h: what the file that bears the incident's name held after each edit.
IsHistory(h) ==
  /\ h \in [0..edits -> Contents]
  /\ incident # <<>> /\ ScenarioPath \in Stems => h[edits] = files[ScenarioPath]
  /\ agent # "none" => server.scenario = h[server.version]
  /\ \A i \in DOMAIN told :
       /\ told[i].version \in 0..edits
       /\ h[told[i].version] # <<>>
       /\ AnsweredFrom(told[i], h[told[i].version][1])

\* Every answer was taken from the version of the file its server had loaded.
AnswersInv ==
  /\ TypeInv
  /\ agent # "none" => server.scenario # <<>>
  /\ stage = "idle" => told = <<>>
  /\ \E h : IsHistory(h)

\* What the connected server replies it takes from the scenario it has loaded.
LEMMA CallAnswers ==
  ASSUME K8sCall \/ PrometheusCall \/ RunbookCall
  PROVE  \E tool, args, answer :
           LET r == [version |-> server.version, tool |-> tool, args |-> args, answer |-> answer]
           IN  told' = Append(told, r) /\ AnsweredFrom(r, Served)
<1> DEFINE R(tool, args, answer) ==
             [version |-> server.version, tool |-> tool, args |-> args, answer |-> answer]
           Good(tool, args, answer) ==
             /\ told' = Append(told, R(tool, args, answer))
             /\ AnsweredFrom(R(tool, args, answer), Served)
<1>1. ASSUME NEW tool, NEW args, NEW answer, Reply(agent, tool, args, answer),
             AnsweredFrom(R(tool, args, answer), Served)
      PROVE  \E t, a, b : Good(t, a, b)
  <2>1. Good(tool, args, answer)
    BY <1>1 DEF Reply
  <2> HIDE DEF Good
  <2> QED BY <2>1
<1> SUFFICES \E tool, args, answer : Good(tool, args, answer)
  OBVIOUS
<1> HIDE DEF Good
<1>2. CASE K8sCall
  <2>1. CASE \E namespace \in Namespaces \cup {Unset} :
               Reply(agent, "list_pods", <<namespace>>, Pods(Served, namespace))
    <3>1. PICK namespace \in Namespaces \cup {Unset} :
            Reply(agent, "list_pods", <<namespace>>, Pods(Served, namespace))
      BY <2>1
    <3>2. AnsweredFrom(R("list_pods", <<namespace>>, Pods(Served, namespace)), Served)
      BY DEF AnsweredFrom
    <3> HIDE DEF R
    <3> QED BY <1>1, <3>1, <3>2
  <2>2. CASE \E name \in Names : Reply(agent, "describe_pod", <<name>>, Pod(Served, name))
    <3>1. PICK name \in Names :
            Reply(agent, "describe_pod", <<name>>, Pod(Served, name))
      BY <2>2
    <3>2. AnsweredFrom(R("describe_pod", <<name>>, Pod(Served, name)), Served)
      BY DEF AnsweredFrom
    <3> HIDE DEF R
    <3> QED BY <1>1, <3>1, <3>2
  <2>3. CASE \E name \in Names, n \in TailLines :
               Reply(agent, "get_pod_logs", <<name, n>>, PodLogs(Served, name, n))
    <3>1. PICK name \in Names, n \in TailLines :
            Reply(agent, "get_pod_logs", <<name, n>>, PodLogs(Served, name, n))
      BY <2>3
    <3>2. AnsweredFrom(R("get_pod_logs", <<name, n>>, PodLogs(Served, name, n)), Served)
      BY DEF AnsweredFrom
    <3> HIDE DEF R
    <3> QED BY <1>1, <3>1, <3>2
  <2>4. CASE \E namespace \in Namespaces \cup {Unset}, object \in Names \cup {Unset} :
               Reply(agent, "get_events", <<namespace, object>>,
                     Events(Served, namespace, object))
    <3>1. PICK namespace \in Namespaces \cup {Unset}, object \in Names \cup {Unset} :
            Reply(agent, "get_events", <<namespace, object>>, Events(Served, namespace, object))
      BY <2>4
    <3>2. AnsweredFrom(R("get_events", <<namespace, object>>, Events(Served, namespace, object)), Served)
      BY DEF AnsweredFrom
    <3> HIDE DEF R
    <3> QED BY <1>1, <3>1, <3>2
  <2> QED BY <1>2, <2>1, <2>2, <2>3, <2>4 DEF K8sCall
<1>3. CASE PrometheusCall
  <2>1. CASE \E metric \in Metrics :
               Reply(agent, "query_range", <<metric>>, Samples(Served, metric))
    <3>1. PICK metric \in Metrics :
            Reply(agent, "query_range", <<metric>>, Samples(Served, metric))
      BY <2>1
    <3>2. AnsweredFrom(R("query_range", <<metric>>, Samples(Served, metric)), Served)
      BY DEF AnsweredFrom
    <3> HIDE DEF R
    <3> QED BY <1>1, <3>1, <3>2
  <2>2. CASE \E severity \in Severities \cup {Unset} :
               Reply(agent, "get_alerts", <<severity>>, Alerts(Served, severity))
    <3>1. PICK severity \in Severities \cup {Unset} :
            Reply(agent, "get_alerts", <<severity>>, Alerts(Served, severity))
      BY <2>2
    <3>2. AnsweredFrom(R("get_alerts", <<severity>>, Alerts(Served, severity)), Served)
      BY DEF AnsweredFrom
    <3> HIDE DEF R
    <3> QED BY <1>1, <3>1, <3>2
  <2>3. CASE Reply(agent, "get_targets", <<>>, Targets(Served))
    <3>2. AnsweredFrom(R("get_targets", <<>>, Targets(Served)), Served)
      BY DEF AnsweredFrom
    <3> HIDE DEF R
    <3> QED BY <1>1, <2>3, <3>2
  <2> QED BY <1>3, <2>1, <2>2, <2>3 DEF PrometheusCall
<1>4. CASE RunbookCall
  <2>1. CASE \E trigger \in Names :
               Reply(agent, "get_runbook", <<trigger>>, Runbook(Served, trigger))
    <3>1. PICK trigger \in Names :
            Reply(agent, "get_runbook", <<trigger>>, Runbook(Served, trigger))
      BY <2>1
    <3>2. AnsweredFrom(R("get_runbook", <<trigger>>, Runbook(Served, trigger)), Served)
      BY DEF AnsweredFrom
    <3> HIDE DEF R
    <3> QED BY <1>1, <3>1, <3>2
  <2>2. CASE Reply(agent, "list_runbooks", <<>>, Runbooks(Served))
    <3>2. AnsweredFrom(R("list_runbooks", <<>>, Runbooks(Served)), Served)
      BY DEF AnsweredFrom
    <3> HIDE DEF R
    <3> QED BY <1>1, <2>2, <3>2
  <2>3. CASE \E name \in Names :
               Reply(agent, "list_runbook_steps", <<name>>, RunbookSteps(Served, name))
    <3>1. PICK name \in Names :
            Reply(agent, "list_runbook_steps", <<name>>, RunbookSteps(Served, name))
      BY <2>3
    <3>2. AnsweredFrom(R("list_runbook_steps", <<name>>, RunbookSteps(Served, name)), Served)
      BY DEF AnsweredFrom
    <3> HIDE DEF R
    <3> QED BY <1>1, <3>1, <3>2
  <2> QED BY <1>4, <2>1, <2>2, <2>3 DEF RunbookCall
<1> QED BY <1>2, <1>3, <1>4

\* A history stays one when neither an answer nor an edit is added.
LEMMA HistoryStays ==
  ASSUME NEW h, IsHistory(h), UNCHANGED <<files, edits, incident, told>>,
         agent' # "none" => server'.scenario = h[server'.version]
  PROVE  IsHistory(h)'
BY DEF IsHistory, ScenarioPath, AnsweredFrom

LEMMA AnswersPreserved == AnswersInv /\ [Next]_vars => AnswersInv'
<1> SUFFICES ASSUME AnswersInv, [Next]_vars PROVE AnswersInv'
  OBVIOUS
<1>0. PICK h : IsHistory(h)
  BY DEF AnswersInv
<1>t. TypeInv /\ TypeInv' /\ edits \in Nat /\ told \in Seq(ToSet(told))
  BY TypePreserved DEF AnswersInv, TypeInv
<1>a. /\ agent # "none" => server.scenario # <<>>
      /\ stage = "idle" => told = <<>> /\ agent = "none"
      /\ stage = "diagnosing" => incident # <<>>
      /\ files \in [Stems -> Contents] /\ <<>> \in Contents
  BY DEF AnswersInv, TypeInv, TypeOK, Contents
<1>1. ASSUME NEW stem \in Stems, Diagnose(stem) PROVE AnswersInv'
  <2>1. /\ stage = "idle" /\ stage' = "diagnosing" /\ incident' # <<>>
        /\ UNCHANGED <<files, edits, agent, server, told>>
    BY <1>1 DEF Diagnose
  <2>2. told' = <<>> /\ agent' = "none" /\ DOMAIN told' = {}
    BY <1>a, <2>1
  <2>3. \E g : /\ g \in [0..edits -> Contents]
               /\ ScenarioPath' \in Stems => g[edits] = files[ScenarioPath']
    <3> DEFINE content == IF ScenarioPath' \in Stems THEN files[ScenarioPath'] ELSE <<>>
               g == [v \in 0..edits |-> content]
    <3>1. content \in Contents
      BY <1>a
    <3>2. g \in [0..edits -> Contents] /\ g[edits] = content
      <4> HIDE DEF content
      <4> QED BY <1>t, <3>1
    <3> HIDE DEF g
    <3> QED BY <3>2
  <2>g. PICK g : /\ g \in [0..edits -> Contents]
                 /\ ScenarioPath' \in Stems => g[edits] = files[ScenarioPath']
    BY <2>3
  <2>4. IsHistory(g)'
    BY <2>1, <2>2, <2>g DEF IsHistory
  <2> QED BY <1>t, <2>1, <2>2, <2>4 DEF AnswersInv
<1>2. ASSUME NEW stem \in Stems, DiagnoseFails(stem) PROVE AnswersInv'
  <2>1. stage' # "idle" /\ UNCHANGED <<files, edits, incident, agent, server, told>>
    BY <1>2 DEF DiagnoseFails
  <2>2. IsHistory(h)'
    BY <1>0, <2>1, HistoryStays DEF IsHistory
  <2> QED BY <1>t, <1>a, <2>1, <2>2 DEF AnswersInv
<1>3. ASSUME NEW specialist \in Specialists, Connect(specialist) PROVE AnswersInv'
  <2>1. /\ stage = "diagnosing" /\ agent' = specialist
        /\ server' = [scenario |-> files[ScenarioPath], version |-> edits]
        /\ UNCHANGED <<files, edits, stage, incident, told>>
        /\ ScenarioPath \in Stems /\ files[ScenarioPath] # <<>>
    BY <1>3 DEF Connect, ScenarioReadable
  <2>2. server'.scenario = h[server'.version] /\ server'.scenario # <<>>
    BY <1>0, <1>a, <2>1 DEF IsHistory
  <2>3. IsHistory(h)'
    BY <1>0, <2>1, <2>2, HistoryStays
  <2> QED BY <1>t, <2>1, <2>2, <2>3 DEF AnswersInv
<1>4. CASE ConnectFails
  <2>1. stage' # "idle" /\ UNCHANGED <<files, edits, incident, agent, server, told>>
    BY <1>4 DEF ConnectFails
  <2>2. IsHistory(h)'
    BY <1>0, <2>1, HistoryStays DEF IsHistory
  <2> QED BY <1>t, <1>a, <2>1, <2>2 DEF AnswersInv
<1>5. CASE K8sCall \/ PrometheusCall \/ RunbookCall
  <2>1. PICK r : /\ told' = Append(told, r)
                 /\ r.version = server.version
                 /\ AnsweredFrom(r, Served)
    BY <1>5, CallAnswers
  <2>2. /\ agent # "none" /\ stage # "idle"
        /\ UNCHANGED <<files, edits, stage, incident, agent, server>>
    BY <1>5, <1>a, CallReplies
  <2>3. server.version \in 0..edits /\ server.scenario = h[server.version]
    BY <1>0, <1>t, <2>2 DEF IsHistory, TypeInv, TypeOK
  <2>4. /\ DOMAIN told' = 1..(Len(told) + 1)
        /\ \A i \in DOMAIN told : told'[i] = told[i]
        /\ told'[Len(told) + 1] = r
    BY <1>t, <2>1, AppendGrows
  <2>5. \A i \in DOMAIN told' : i \in DOMAIN told \/ i = Len(told) + 1
    BY <1>t, <2>4
  <2>6. \A i \in DOMAIN told' :
          /\ told'[i].version \in 0..edits
          /\ h[told'[i].version] # <<>>
          /\ AnsweredFrom(told'[i], h[told'[i].version][1])
    <3> SUFFICES ASSUME NEW i \in DOMAIN told'
                 PROVE  /\ told'[i].version \in 0..edits
                        /\ h[told'[i].version] # <<>>
                        /\ AnsweredFrom(told'[i], h[told'[i].version][1])
      OBVIOUS
    <3>1. CASE i \in DOMAIN told
      BY <1>0, <2>4, <3>1 DEF IsHistory
    <3>2. CASE i = Len(told) + 1
      BY <1>a, <2>1, <2>2, <2>3, <2>4, <3>2 DEF Served
    <3> QED BY <2>5, <3>1, <3>2
  <2>7. IsHistory(h)'
    BY <1>0, <2>2, <2>6 DEF IsHistory, ScenarioPath, AnsweredFrom
  <2> QED BY <1>t, <1>a, <2>2, <2>7 DEF AnswersInv
<1>6. CASE Disconnect
  <2>1. agent' = "none" /\ agent # "none" /\ UNCHANGED <<files, edits, stage, incident, told>>
    BY <1>6 DEF Disconnect
  <2>2. IsHistory(h)'
    BY <1>0, <2>1, HistoryStays
  <2> QED BY <1>t, <1>a, <2>1, <2>2 DEF AnswersInv
<1>7. CASE Ends
  <2>1. stage' # "idle" /\ UNCHANGED <<files, edits, incident, agent, server, told>>
    BY <1>7 DEF Ends
  <2>2. IsHistory(h)'
    BY <1>0, <2>1, HistoryStays DEF IsHistory
  <2> QED BY <1>t, <1>a, <2>1, <2>2 DEF AnswersInv
<1>8. ASSUME NEW stem \in Stems, NEW content \in EditedFiles, Edit(stem, content)
      PROVE  AnswersInv'
  <2>1. /\ edits' = edits + 1
        /\ UNCHANGED <<stage, asked, incident, begun, agent, server, told>>
    BY <1>8 DEF Edit
  <2>2. h \in [0..edits -> Contents]
    BY <1>0 DEF IsHistory
  <2>3. \E g : /\ g \in [0..(edits + 1) -> Contents]
               /\ \A v \in 0..edits : g[v] = h[v]
               /\ ScenarioPath \in Stems => g[edits + 1] = files'[ScenarioPath]
    <3> DEFINE now == IF ScenarioPath \in Stems THEN files'[ScenarioPath] ELSE <<>>
               g == [v \in 0..(edits + 1) |-> IF v <= edits THEN h[v] ELSE now]
    <3>1. now \in Contents
      BY <1>t, <1>a DEF TypeInv, TypeOK
    <3>2. /\ g \in [0..(edits + 1) -> Contents]
          /\ \A v \in 0..edits : g[v] = h[v]
          /\ g[edits + 1] = now
      <4> HIDE DEF now
      <4> QED BY <1>t, <2>2, <3>1
    <3> HIDE DEF g
    <3> QED BY <3>2
  <2>g. PICK g : /\ g \in [0..(edits + 1) -> Contents]
                 /\ \A v \in 0..edits : g[v] = h[v]
                 /\ ScenarioPath \in Stems => g[edits + 1] = files'[ScenarioPath]
    BY <2>3
  <2>4. agent' # "none" => server'.scenario = g[server'.version]
    BY <1>0, <1>t, <2>1, <2>g DEF IsHistory, TypeInv, TypeOK
  <2>5. \A i \in DOMAIN told' :
          /\ told'[i].version \in 0..edits'
          /\ g[told'[i].version] # <<>>
          /\ AnsweredFrom(told'[i], g[told'[i].version][1])
    BY <1>0, <1>t, <2>1, <2>g DEF IsHistory
  <2>p. ScenarioPath' = ScenarioPath
    BY <2>1 DEF ScenarioPath
  <2>6. IsHistory(g)'
    BY <2>1, <2>4, <2>5, <2>g, <2>p DEF IsHistory
  <2> QED BY <1>t, <1>a, <2>1, <2>6 DEF AnswersInv
<1>9. CASE UNCHANGED vars
  <2>1. UNCHANGED <<stage, files, edits, incident, agent, server, told>>
    BY <1>9 DEF vars
  <2>2. IsHistory(h)'
    BY <1>0, <2>1, HistoryStays DEF IsHistory
  <2> QED BY <1>t, <1>a, <2>1, <2>2 DEF AnswersInv
<1> QED BY <1>1, <1>2, <1>3, <1>4, <1>5, <1>6, <1>7, <1>8, <1>9 DEF Next

LEMMA AnswersInvariant == Spec => []AnswersInv
<1>1. Init /\ TypeInv => AnswersInv
  <2> SUFFICES ASSUME Init, TypeInv PROVE AnswersInv
    OBVIOUS
  <2> DEFINE g == [v \in 0..0 |-> <<>>]
  <2>1. IsHistory(g)
    BY DEF Init, IsHistory, Contents
  <2> HIDE DEF g
  <2> QED BY <2>1 DEF Init, AnswersInv
<1> QED BY <1>1, TypeInvariant, AnswersPreserved, PTL DEF Spec

-----------------------------------------------------------------------------
\* Logs.

\* A list that ends another, place by place, is a suffix of it.
LEMMA EndIsSuffix ==
  ASSUME NEW S, NEW a \in Seq(S), NEW b \in Seq(S), Len(a) <= Len(b),
         \A i \in 1..Len(a) : a[i] = b[Len(b) - Len(a) + i]
  PROVE  IsSuffix(a, b)
<1> DEFINE m == Len(a)
           n == Len(b)
           ra == Reverse(a)
           rb == Reverse(b)
<1>1. /\ m \in Nat /\ n \in Nat /\ m <= n
      /\ \A i \in 1..m : a[i] = b[n - m + i] /\ a[i] \in S
      /\ \A i \in 1..n : b[i] \in S
  OBVIOUS
<1>2. ra = [i \in 1..m |-> a[(m - i) + 1]] /\ rb = [i \in 1..n |-> b[(n - i) + 1]]
  BY DEF Reverse
<1> HIDE DEF m, n, ra, rb
<1>3. \A i \in 1..m : (m - i) + 1 \in 1..m
  BY <1>1
<1>4. \A i \in 1..n : (n - i) + 1 \in 1..n
  BY <1>1
<1>5. ra \in Seq(S) /\ Len(ra) = m /\ \A i \in 1..m : ra[i] = a[(m - i) + 1]
  BY <1>1, <1>2, <1>3
<1>6. rb \in Seq(S) /\ Len(rb) = n /\ \A i \in 1..n : rb[i] = b[(n - i) + 1]
  BY <1>1, <1>2, <1>4
<1>7. \A i \in 1..m : ra[i] = rb[i] /\ ra[i] \in S /\ rb[i] \in S
  <2> SUFFICES ASSUME NEW i \in 1..m PROVE ra[i] = rb[i] /\ ra[i] \in S /\ rb[i] \in S
    OBVIOUS
  <2>1. i \in 1..n /\ (n - m) + ((m - i) + 1) = (n - i) + 1 /\ (m - i) + 1 \in 1..m
    BY <1>1
  <2>2. a[(m - i) + 1] = b[(n - m) + ((m - i) + 1)] /\ a[(m - i) + 1] \in S
    BY <1>1, <2>1
  <2> QED BY <1>5, <1>6, <2>1, <2>2
<1>8. SubSeq(ra, 1, m) = SubSeq(rb, 1, m)
  <2> DEFINE u == SubSeq(ra, 1, m)
             v == SubSeq(rb, 1, m)
  <2>1. /\ u \in Seq(S) /\ Len(u) = (IF 1 <= m THEN m - 1 + 1 ELSE 0)
        /\ \A i \in 1..(m - 1 + 1) : u[i] = ra[1 + i - 1]
    BY <1>1, <1>7, SubSeqProperties
  <2>2. /\ v \in Seq(S) /\ Len(v) = (IF 1 <= m THEN m - 1 + 1 ELSE 0)
        /\ \A i \in 1..(m - 1 + 1) : v[i] = rb[1 + i - 1]
    BY <1>1, <1>7, SubSeqProperties
  <2>3. Len(u) = m /\ Len(v) = m
    BY <1>1, <2>1, <2>2
  <2>4. \A i \in 1..m : u[i] = v[i]
    BY <1>1, <1>7, <2>1, <2>2
  <2> HIDE DEF u, v
  <2> QED BY <1>1, <2>1, <2>2, <2>3, <2>4 DEF u, v
<1> QED BY <1>1, <1>5, <1>6, <1>8 DEF IsSuffix, IsPrefix, ra, rb

\* Where the slice of a negative index starts.
FirstLine(lines, n) ==
  IF n <= 0 THEN 1 - n ELSE IF n < Len(lines) THEN Len(lines) - n + 1 ELSE 1

\* The later a slice to the end starts, the shorter it is, and it ends the others.
LEMMA LaterSlice ==
  ASSUME NEW S, NEW lines \in Seq(S), NEW m \in Int, NEW n \in Int, 1 <= n, n <= m
  PROVE  /\ Len(SubSeq(lines, m, Len(lines))) =
              IF m <= Len(lines) THEN Len(lines) - m + 1 ELSE 0
         /\ IsSuffix(SubSeq(lines, m, Len(lines)), SubSeq(lines, n, Len(lines)))
<1> DEFINE L == Len(lines)
           a == SubSeq(lines, m, L)
           b == SubSeq(lines, n, L)
<1>1. L \in Nat /\ \A i \in 1..L : lines[i] \in S
  OBVIOUS
<1>2. /\ a \in Seq(S) /\ Len(a) = (IF m <= L THEN L - m + 1 ELSE 0)
      /\ \A i \in 1..(L - m + 1) : a[i] = lines[m + i - 1]
  <2>1. \A i \in m..L : lines[i] \in S
    BY <1>1
  <2> HIDE DEF L
  <2> QED BY <1>1, <2>1, SubSeqProperties
<1>3. /\ b \in Seq(S) /\ Len(b) = (IF n <= L THEN L - n + 1 ELSE 0)
      /\ \A i \in 1..(L - n + 1) : b[i] = lines[n + i - 1]
  <2>1. \A i \in n..L : lines[i] \in S
    BY <1>1
  <2> HIDE DEF L
  <2> QED BY <1>1, <2>1, SubSeqProperties
<1> HIDE DEF L, a, b
<1>4. Len(a) <= Len(b)
  BY <1>1, <1>2, <1>3
<1>5. ASSUME NEW i \in 1..Len(a) PROVE a[i] = b[Len(b) - Len(a) + i]
  <2>1. m <= L /\ n <= L /\ Len(a) = L - m + 1 /\ Len(b) = L - n + 1
    BY <1>1, <1>2, <1>3
  <2>2. Len(b) - Len(a) + i = m - n + i /\ m - n + i \in 1..(L - n + 1)
        /\ n + (m - n + i) - 1 = m + i - 1 /\ i \in 1..(L - m + 1)
    BY <1>1, <2>1
  <2> QED BY <1>2, <1>3, <2>2
<1>6. IsSuffix(a, b)
  BY <1>2, <1>3, <1>4, <1>5, EndIsSuffix
<1> QED BY <1>2, <1>6 DEF a, b, L

\* A tail of fewer lines is the end of a tail of more, and zero asks for all.
LEMMA LogsNest ==
  ASSUME NEW S, NEW lines \in Seq(S), NEW m \in Int, NEW n \in Int
  PROVE  /\ m \in 1..n => /\ Len(LastLines(lines, m)) <= m
                          /\ IsSuffix(LastLines(lines, m), LastLines(lines, n))
         /\ n = 0 => IsSuffix(LastLines(lines, m), LastLines(lines, n))
<1> DEFINE L == Len(lines)
           f(k) == FirstLine(lines, k)
<1>0. L \in Nat
  OBVIOUS
<1>1. \A k \in Int : f(k) \in Int /\ 1 <= f(k) /\ (k = 0 => f(k) = 1)
  BY <1>0 DEF FirstLine
<1>2. m \in 1..n => f(n) <= f(m) /\ L - f(m) + 1 <= m
  BY <1>0 DEF FirstLine
<1>3. \A k \in Int : LastLines(lines, k) = SubSeq(lines, f(k), L)
  BY DEF LastLines, FirstLine
<1> HIDE DEF f, L
<1>4. CASE m \in 1..n
  <2>1. /\ Len(SubSeq(lines, f(m), L)) = IF f(m) <= L THEN L - f(m) + 1 ELSE 0
        /\ IsSuffix(SubSeq(lines, f(m), L), SubSeq(lines, f(n), L))
    <3>1. f(m) \in Int /\ f(n) \in Int /\ 1 <= f(n) /\ f(n) <= f(m)
      BY <1>1, <1>2, <1>4
    <3> QED BY <3>1, LaterSlice DEF L
  <2>2. Len(SubSeq(lines, f(m), L)) <= m
    BY <1>0, <1>1, <1>2, <1>4, <2>1
  <2>3. n # 0
    BY <1>4
  <2> QED BY <1>3, <2>1, <2>2, <2>3
<1>5. CASE n = 0
  <2>1. f(m) \in Int /\ f(n) \in Int /\ 1 <= f(n) /\ f(n) <= f(m)
    BY <1>1, <1>5
  <2>2. IsSuffix(SubSeq(lines, f(m), L), SubSeq(lines, f(n), L))
    BY <2>1, LaterSlice DEF L
  <2>3. m \notin 1..n
    BY <1>5
  <2> QED BY <1>3, <2>2, <2>3
<1> QED BY <1>4, <1>5

-----------------------------------------------------------------------------
\* What two answers of one version have in common.

\* A scenario in a file has lists where Scenario says so.
LEMMA ContentsAreScenarios ==
  ASSUME NEW content \in Contents, content # <<>>
  PROVE  /\ \A field \in {"pods", "events", "alerts", "runbooks"} :
              content[1][field] \in Seq(ToSet(content[1][field]))
         /\ \A name \in DOMAIN content[1].logs :
              content[1].logs[name] \in Seq(ToSet(content[1].logs[name]))
<1>1. PICK s \in Scenarios : content = <<s>>
  BY DEF Contents
<1>2. content[1] = s /\ IsScenario(s)
  BY <1>1, ServersAssumption
<1> QED BY <1>2 DEF IsScenario

\* Two answers of one version were taken from one scenario.
LEMMA PairsAreOfOne ==
  ASSUME AnswersInv, NEW first, NEW second, NEW p \in Pairs(first, second)
  PROVE  \E s : /\ s.pods \in Seq(ToSet(s.pods))
                /\ s.events \in Seq(ToSet(s.events))
                /\ s.runbooks \in Seq(ToSet(s.runbooks))
                /\ \A name \in DOMAIN s.logs : s.logs[name] \in Seq(ToSet(s.logs[name]))
                /\ told[p[1]].tool = first /\ AnsweredFrom(told[p[1]], s)
                /\ told[p[2]].tool = second /\ AnsweredFrom(told[p[2]], s)
<1>1. PICK h : IsHistory(h)
  BY DEF AnswersInv
<1>2. /\ p[1] \in DOMAIN told /\ p[2] \in DOMAIN told
      /\ told[p[1]].tool = first /\ told[p[2]].tool = second
      /\ told[p[1]].version = told[p[2]].version
  BY DEF Pairs
<1> DEFINE content == h[told[p[1]].version]
<1>3. /\ content \in Contents /\ content # <<>>
      /\ AnsweredFrom(told[p[1]], content[1]) /\ AnsweredFrom(told[p[2]], content[1])
  <2>1. edits \in Nat
    BY DEF AnswersInv, TypeInv
  <2> QED BY <1>1, <1>2, <2>1 DEF IsHistory
<1> HIDE DEF content
<1>4. /\ \A field \in {"pods", "events", "alerts", "runbooks"} :
           content[1][field] \in Seq(ToSet(content[1][field]))
      /\ \A name \in DOMAIN content[1].logs :
           content[1].logs[name] \in Seq(ToSet(content[1].logs[name]))
  BY <1>3, ContentsAreScenarios
<1> DEFINE s == content[1]
<1>5. /\ s.pods \in Seq(ToSet(s.pods))
      /\ s.events \in Seq(ToSet(s.events))
      /\ s.runbooks \in Seq(ToSet(s.runbooks))
      /\ \A name \in DOMAIN s.logs : s.logs[name] \in Seq(ToSet(s.logs[name]))
  BY <1>4
<1> HIDE DEF s
<1> QED BY <1>2, <1>3, <1>5 DEF s

\* The first of a loop's answer is there when the loop kept something.
LEMMA FirstOfMatching ==
  ASSUME NEW S, NEW s \in Seq(S), NEW keep
  PROVE  /\ Matching(s, keep) # <<>> <=> \E i \in DOMAIN s : s[i] \in keep
         /\ FirstOf(Matching(s, keep)) # <<>> <=> \E i \in DOMAIN s : s[i] \in keep
<1> DEFINE t == Matching(s, keep)
<1>1. /\ t \in Seq(S)
      /\ \A k \in DOMAIN t : \E i \in DOMAIN s : s[i] \in keep /\ t[k] = s[i]
      /\ \A i \in DOMAIN s : s[i] \in keep => \E k \in DOMAIN t : t[k] = s[i]
  BY MatchingOf
<1> HIDE DEF t
<1>2. t # <<>> <=> \E i \in DOMAIN s : s[i] \in keep
  <2>1. t # <<>> => 1 \in DOMAIN t
    BY <1>1
  <2>2. t = <<>> => DOMAIN t = {}
    OBVIOUS
  <2> QED BY <1>1, <2>1, <2>2
<1>3. FirstOf(t) # <<>> <=> t # <<>>
  BY DEF FirstOf
<1> QED BY <1>2, <1>3 DEF t

\* list_pods and describe_pod.
LEMMA PodsAgree ==
  ASSUME NEW s, s.pods \in Seq(ToSet(s.pods)), NEW namespace, NEW name
  PROVE  LET named == Named(Pods(s, namespace), name)
         IN  /\ named # <<>> => Pod(s, name) # <<>>
             /\ namespace = Unset => Pod(s, name) = FirstOf(named)
<1> DEFINE pods == s.pods
           listed == Pods(s, namespace)
           inNamespace == {p \in ToSet(pods) : namespace \in {Unset, p.namespace}}
<1>1. pods \in Seq(ToSet(pods))
  OBVIOUS
<1>2. listed = Matching(pods, inNamespace)
  BY DEF Pods
<1> HIDE DEF pods, listed
<1>3. /\ listed \in Seq(ToSet(pods))
      /\ \A k \in DOMAIN listed : \E i \in DOMAIN pods : listed[k] = pods[i]
  <2> HIDE DEF inNamespace
  <2> QED BY <1>1, <1>2, MatchingOf
<1>4. Named(listed, name) # <<>> => Pod(s, name) # <<>>
  <2>1. Named(listed, name) # <<>> => \E k \in DOMAIN listed : listed[k].name = name
    <3>1. Named(listed, name) # <<>> <=>
            \E k \in DOMAIN listed : listed[k] \in {x \in ToSet(listed) : x.name = name}
      BY <1>3, FirstOfMatching DEF Named
    <3> QED BY <3>1
  <2>2. (\E i \in DOMAIN pods : pods[i].name = name) => Pod(s, name) # <<>>
    <3>1. FirstOf(Named(pods, name)) # <<>> <=>
            \E i \in DOMAIN pods : pods[i] \in {x \in ToSet(pods) : x.name = name}
      BY <1>1, FirstOfMatching DEF Named
    <3>2. \A i \in DOMAIN pods : pods[i] \in ToSet(pods)
      BY DEF ToSet
    <3> QED BY <3>1, <3>2 DEF Pod, pods
  <2> QED BY <1>3, <2>1, <2>2
<1>5. namespace = Unset => Pod(s, name) = FirstOf(Named(listed, name))
  <2> SUFFICES ASSUME namespace = Unset PROVE listed = pods
    BY DEF Pod, pods
  <2>1. \A i \in DOMAIN pods : pods[i] \in inNamespace
    BY DEF ToSet
  <2> HIDE DEF inNamespace
  <2> QED BY <1>1, <1>2, <2>1, MatchingAll
<1> QED BY <1>4, <1>5 DEF listed

\* get_targets and a list of every pod.
LEMMA TargetsAgree ==
  ASSUME NEW s, s.pods \in Seq(ToSet(s.pods)), NEW namespace, namespace = Unset
  PROVE  Pods(s, namespace) = s.pods
<1>1. \A i \in DOMAIN s.pods :
        s.pods[i] \in {p \in ToSet(s.pods) : namespace \in {Unset, p.namespace}}
  BY DEF ToSet
<1> QED BY <1>1, MatchingAll DEF Pods

\* get_events, filtered and not.
LEMMA EventsAgree ==
  ASSUME NEW s, s.events \in Seq(ToSet(s.events)), NEW namespace, NEW object
  PROVE  ToSet(Events(s, namespace, object)) \subseteq ToSet(Events(s, Unset, Unset))
<1> DEFINE events == s.events
           some == {e \in ToSet(events) : /\ namespace \in {Unset, e.namespace}
                                          /\ object \in {Unset, e.name}}
           all == {e \in ToSet(events) : /\ Unset \in {Unset, e.namespace}
                                         /\ Unset \in {Unset, e.name}}
<1>1. events \in Seq(ToSet(events)) /\ \A i \in DOMAIN events : events[i] \in all
  BY DEF ToSet
<1>2. Events(s, namespace, object) = Matching(events, some)
      /\ Events(s, Unset, Unset) = Matching(events, all)
  BY DEF Events
<1> HIDE DEF events, some, all
<1>3. Matching(events, all) = events
  BY <1>1, MatchingAll
<1>4. \A k \in DOMAIN Matching(events, some) :
        \E i \in DOMAIN events : Matching(events, some)[k] = events[i]
  BY <1>1, MatchingOf
<1> QED BY <1>2, <1>3, <1>4 DEF ToSet

\* list_runbooks, get_runbook and list_runbook_steps.
LEMMA RunbooksAgree ==
  ASSUME NEW s, s.runbooks \in Seq(ToSet(s.runbooks)), NEW x
  PROVE  /\ Runbook(s, x) # <<>> <=>
              \E i \in DOMAIN Runbooks(s) : Runbooks(s)[i].trigger = x
         /\ RunbookSteps(s, x) # <<>> <=>
              \E i \in DOMAIN Runbooks(s) : Runbooks(s)[i].name = x
<1> DEFINE books == s.runbooks
<1>1. /\ DOMAIN Runbooks(s) = DOMAIN books
      /\ \A i \in DOMAIN books : /\ Runbooks(s)[i].trigger = books[i].trigger
                                 /\ Runbooks(s)[i].name = books[i].name
  BY DEF Runbooks
<1>2. books \in Seq(ToSet(books)) /\ \A i \in DOMAIN books : books[i] \in ToSet(books)
  BY DEF ToSet
<1>3. Runbook(s, x) = FirstOf(Matching(books, {r \in ToSet(books) : r.trigger = x}))
  BY DEF Runbook
<1>4. RunbookSteps(s, x) = [i \in DOMAIN FirstOf(Named(books, x)) |->
                              FirstOf(Named(books, x))[i].steps]
  BY DEF RunbookSteps
<1> HIDE DEF books
<1>5. Runbook(s, x) # <<>> <=> \E i \in DOMAIN books : books[i].trigger = x
  <2>1. FirstOf(Matching(books, {r \in ToSet(books) : r.trigger = x})) # <<>> <=>
          \E i \in DOMAIN books : books[i] \in {r \in ToSet(books) : r.trigger = x}
    BY <1>2, FirstOfMatching
  <2> QED BY <1>2, <1>3, <2>1
<1>6. FirstOf(Named(books, x)) # <<>> <=> \E i \in DOMAIN books : books[i].name = x
  <2>1. FirstOf(Named(books, x)) # <<>> <=>
          \E i \in DOMAIN books : books[i] \in {r \in ToSet(books) : r.name = x}
    BY <1>2, FirstOfMatching DEF Named
  <2> QED BY <1>2, <2>1
<1>7. RunbookSteps(s, x) # <<>> <=> FirstOf(Named(books, x)) # <<>>
  <2> DEFINE t == FirstOf(Named(books, x))
  <2>1. t = <<>> \/ \E y : t = <<y>>
    BY DEF FirstOf
  <2> HIDE DEF t
  <2>2. CASE t = <<>>
    <3>1. [i \in DOMAIN t |-> t[i].steps] = <<>>
      BY <2>2
    <3> QED BY <1>4, <2>2, <3>1 DEF t
  <2>3. CASE \E y : t = <<y>>
    <3>1. DOMAIN t # {}
      <4>1. \A y : 1 \in DOMAIN <<y>>
        OBVIOUS
      <4> QED BY <2>3, <4>1
    <3>2. [i \in DOMAIN t |-> t[i].steps] # <<>>
      <4>1. DOMAIN <<>> = {}
        OBVIOUS
      <4> QED BY <3>1, <4>1
    <3> QED BY <1>4, <2>3, <3>2 DEF t
  <2> QED BY <2>1, <2>2, <2>3
<1> QED BY <1>1, <1>5, <1>6, <1>7

-----------------------------------------------------------------------------

\* The answers about one version of the incident contradict each other nowhere: the
\* listed pods are the described ones and the targets, a filter only leaves out, and
\* a runbook is found exactly when it is listed.
THEOREM OneIncidentIsTold == Spec => []AnswersAgree
<1> SUFFICES ASSUME AnswersInv PROVE AnswersAgree
  BY AnswersInvariant, PTL
<1>1. ASSUME NEW p \in Pairs("list_pods", "describe_pod")
      PROVE  LET listed == told[p[1]]
                 named  == Named(listed.answer, told[p[2]].args[1])
             IN  /\ named # <<>> => told[p[2]].answer # <<>>
                 /\ listed.args = <<Unset>> => told[p[2]].answer = FirstOf(named)
  <2>1. PICK s : /\ s.pods \in Seq(ToSet(s.pods))
                 /\ told[p[1]].tool = "list_pods" /\ AnsweredFrom(told[p[1]], s)
                 /\ told[p[2]].tool = "describe_pod" /\ AnsweredFrom(told[p[2]], s)
    BY PairsAreOfOne
  <2>2. /\ told[p[1]].answer = Pods(s, told[p[1]].args[1])
        /\ told[p[2]].answer = Pod(s, told[p[2]].args[1])
    BY <2>1 DEF AnsweredFrom
  <2>3. told[p[1]].args = <<Unset>> => told[p[1]].args[1] = Unset
    OBVIOUS
  <2> QED BY <2>1, <2>2, <2>3, PodsAgree
<1>2. ASSUME NEW p \in Pairs("list_pods", "get_targets"), told[p[1]].args = <<Unset>>
      PROVE  told[p[2]].answer =
               [i \in DOMAIN told[p[1]].answer |->
                  LET q == told[p[1]].answer[i]
                  IN  [pod |-> q.name, namespace |-> q.namespace, up |-> q.status = "Running"]]
  <2>1. PICK s : /\ s.pods \in Seq(ToSet(s.pods))
                 /\ told[p[1]].tool = "list_pods" /\ AnsweredFrom(told[p[1]], s)
                 /\ told[p[2]].tool = "get_targets" /\ AnsweredFrom(told[p[2]], s)
    BY PairsAreOfOne
  <2>2. told[p[1]].args[1] = Unset
    BY <1>2
  <2>3. told[p[1]].answer = s.pods /\ told[p[2]].answer = Targets(s)
    BY <2>1, <2>2, TargetsAgree DEF AnsweredFrom
  <2> QED BY <2>3 DEF Targets
<1>3. ASSUME NEW p \in Pairs("get_events", "get_events"), told[p[1]].args = <<Unset, Unset>>
      PROVE  ToSet(told[p[2]].answer) \subseteq ToSet(told[p[1]].answer)
  <2>1. PICK s : /\ s.events \in Seq(ToSet(s.events))
                 /\ told[p[1]].tool = "get_events" /\ AnsweredFrom(told[p[1]], s)
                 /\ told[p[2]].tool = "get_events" /\ AnsweredFrom(told[p[2]], s)
    BY PairsAreOfOne
  <2>2. told[p[1]].args[1] = Unset /\ told[p[1]].args[2] = Unset
    BY <1>3
  <2>3. /\ told[p[1]].answer = Events(s, Unset, Unset)
        /\ told[p[2]].answer = Events(s, told[p[2]].args[1], told[p[2]].args[2])
    BY <2>1, <2>2 DEF AnsweredFrom
  <2> QED BY <2>1, <2>3, EventsAgree
<1>4. ASSUME NEW p \in Pairs("list_runbooks", "get_runbook")
      PROVE  told[p[2]].answer # <<>> <=>
               \E i \in DOMAIN told[p[1]].answer :
                 told[p[1]].answer[i].trigger = told[p[2]].args[1]
  <2>1. PICK s : /\ s.runbooks \in Seq(ToSet(s.runbooks))
                 /\ told[p[1]].tool = "list_runbooks" /\ AnsweredFrom(told[p[1]], s)
                 /\ told[p[2]].tool = "get_runbook" /\ AnsweredFrom(told[p[2]], s)
    BY PairsAreOfOne
  <2>2. /\ told[p[1]].answer = Runbooks(s)
        /\ told[p[2]].answer = Runbook(s, told[p[2]].args[1])
    BY <2>1 DEF AnsweredFrom
  <2> QED BY <2>1, <2>2, RunbooksAgree
<1>5. ASSUME NEW p \in Pairs("list_runbooks", "list_runbook_steps")
      PROVE  told[p[2]].answer # <<>> <=>
               \E i \in DOMAIN told[p[1]].answer :
                 told[p[1]].answer[i].name = told[p[2]].args[1]
  <2>1. PICK s : /\ s.runbooks \in Seq(ToSet(s.runbooks))
                 /\ told[p[1]].tool = "list_runbooks" /\ AnsweredFrom(told[p[1]], s)
                 /\ told[p[2]].tool = "list_runbook_steps" /\ AnsweredFrom(told[p[2]], s)
    BY PairsAreOfOne
  <2>2. /\ told[p[1]].answer = Runbooks(s)
        /\ told[p[2]].answer = RunbookSteps(s, told[p[2]].args[1])
    BY <2>1 DEF AnsweredFrom
  <2> QED BY <2>1, <2>2, RunbooksAgree
<1> QED BY <1>1, <1>2, <1>3, <1>4, <1>5 DEF AnswersAgree

\* A pod's log: fewer lines are the end of more, and zero lines are all of them.
THEOREM LogsEndAlike == Spec => []TailsNest
<1> SUFFICES ASSUME AnswersInv PROVE TailsNest
  BY AnswersInvariant, PTL
<1> SUFFICES ASSUME NEW p \in Pairs("get_pod_logs", "get_pod_logs"),
                    told[p[1]].args[1] = told[p[2]].args[1]
             PROVE  /\ told[p[1]].args[2] \in 1..told[p[2]].args[2] =>
                         /\ Len(told[p[1]].answer) <= told[p[1]].args[2]
                         /\ IsSuffix(told[p[1]].answer, told[p[2]].answer)
                    /\ told[p[2]].args[2] = 0 =>
                         IsSuffix(told[p[1]].answer, told[p[2]].answer)
  BY DEF TailsNest
<1>1. PICK s : /\ s.pods \in Seq(ToSet(s.pods))
               /\ s.events \in Seq(ToSet(s.events))
               /\ s.runbooks \in Seq(ToSet(s.runbooks))
               /\ \A name \in DOMAIN s.logs : s.logs[name] \in Seq(ToSet(s.logs[name]))
               /\ told[p[1]].tool = "get_pod_logs" /\ AnsweredFrom(told[p[1]], s)
               /\ told[p[2]].tool = "get_pod_logs" /\ AnsweredFrom(told[p[2]], s)
  BY PairsAreOfOne
<1> DEFINE name == told[p[1]].args[1]
           m == told[p[1]].args[2]
           n == told[p[2]].args[2]
           lines == IF name \in DOMAIN s.logs THEN s.logs[name] ELSE <<>>
<1>2. /\ m \in Int /\ n \in Int
      /\ told[p[1]].answer = LastLines(lines, m)
      /\ told[p[2]].answer = LastLines(lines, n)
  BY <1>1, ServersAssumption DEF AnsweredFrom, PodLogs
<1>3. \E S : lines \in Seq(S)
  <2>1. name \in DOMAIN s.logs => lines \in Seq(ToSet(lines))
    BY <1>1
  <2>2. name \notin DOMAIN s.logs => lines \in Seq({})
    OBVIOUS
  <2> QED BY <2>1, <2>2
<1> HIDE DEF lines
<1> QED BY <1>2, <1>3, LogsNest
=============================================================================
