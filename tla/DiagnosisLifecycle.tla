------------------------- MODULE DiagnosisLifecycle -------------------------
(***************************************************************************)
(* What one diagnosis promises to whoever starts it, with no word of nodes *)
(* or of prompts: a bounded number of specialist turns, then one answer,   *)
(* then at most one new record in the incident memory.  A diagnosis that   *)
(* fails leaves the memory as it found it.  IncidentGraph implements this. *)
(***************************************************************************)
EXTENDS Naturals

CONSTANTS
  MaxTurns,    \* specialist turns a diagnosis may take, a natural number
  Persistent   \* whether the diagnosis was given an incident memory, a Boolean

VARIABLES
  status,   \* "investigating", "concluded", "closed" or "aborted"
  turns,    \* specialist turns completed
  answer,   \* "none" until concluded
  archive   \* number of records in the incident memory

vars == <<status, turns, answer, archive>>

Answers == {"complete", "incomplete"}

Init ==
  /\ status = "investigating"
  /\ turns = 0
  /\ answer = "none"
  /\ archive \in Nat

Investigate ==
  /\ status = "investigating"
  /\ turns < MaxTurns
  /\ turns' = turns + 1
  /\ UNCHANGED <<status, answer, archive>>

Conclude ==
  /\ status = "investigating"
  /\ status' = "concluded"
  /\ answer' \in Answers
  /\ UNCHANGED <<turns, archive>>

Close ==
  /\ status = "concluded"
  /\ status' = "closed"
  /\ archive' = IF Persistent THEN archive + 1 ELSE archive
  /\ UNCHANGED <<turns, answer>>

Abort ==
  /\ status \in {"investigating", "concluded"}
  /\ status' = "aborted"
  /\ UNCHANGED <<turns, answer, archive>>

Next == Investigate \/ Conclude \/ Close \/ Abort

Spec == Init /\ [][Next]_vars
=============================================================================
