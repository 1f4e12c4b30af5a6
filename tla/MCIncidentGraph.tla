-------------------------- MODULE MCIncidentGraph --------------------------
EXTENDS IncidentGraph

Record(answer, agents) == [diagnosis |-> answer, findings |-> agents]

\* A turn without tools, and one with a rejected call and its retry.
Logged(action) == [action |-> action, detail |-> "list_pods"]
SmallTurns == {<<>>, <<Logged("validation_error"), Logged("tool_call")>>}

NoHistory == {<<>>}
Histories == {<<>>,
              <<Record("complete", <<"log_analyst">>), Record("incomplete", <<>>),
                Record("complete", <<"runbook_executor">>)>>}
=============================================================================
