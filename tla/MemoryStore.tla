---------------------------- MODULE MemoryStore ----------------------------
(***************************************************************************)
(* The incident memory of memory/store.py under several diagnoses of one   *)
(* scenario: save_incident as its two calls, execute and commit, several   *)
(* MemoryStore objects on one database file (one in each process), several *)
(* diagnoses on one object (its connection is shared between threads), and *)
(* processes that end at any time.                                         *)
(*                                                                         *)
(* SQLite is external: the locks are those of its rollback journal, the    *)
(* default, and the implicit transactions those of the sqlite3 module.     *)
(***************************************************************************)
EXTENDS Integers, FiniteSets

CONSTANTS
  Stores,      \* MemoryStore objects, each with a connection of its own
  Diagnoses,   \* diagnoses, each saving one record
  StoreOf,     \* the store a diagnosis was given
  Limit,       \* find_similar's limit
  Stamps       \* values of the wall clock, which may be set back

ASSUME MemoryAssumption ==
  /\ StoreOf \in [Diagnoses -> Stores]
  /\ Limit \in Nat
  /\ Stamps \subseteq Nat
  /\ IsFiniteSet(Diagnoses)

VARIABLES
  stage,     \* where each diagnosis is
  stamp,     \* resolved_at of its record
  context,   \* the records its first prompt quotes
  file,      \* rows committed, by the diagnosis they come from
  unsaved,   \* rows in the open transaction of each store
  intx,      \* whether a store's connection has a transaction open
  lock       \* the lock its connection holds on the file

vars == <<stage, stamp, context, file, unsaved, intx, lock>>

\* "written" is between execute and commit; "failed" and "lost" are a call that
\* raised and a process that ended.
DiagnosisStages ==
  {"idle", "begun", "resolved", "written", "saved", "failed", "lost"}
Locks == {"none", "shared", "reserved", "pending"}

-----------------------------------------------------------------------------

Writing(s) == lock[s] \in {"reserved", "pending"}

\* What makes SQLite answer "database is locked" when its timeout has run out.
ReadBusy(s)   == lock[s] = "none" /\ \E t \in Stores \ {s} : lock[t] = "pending"
WriteBusy(s)  == \E t \in Stores \ {s} : Writing(t)
CommitBusy(s) == Writing(s) /\ \E t \in Stores \ {s} : lock[t] = "shared"

\* What a SELECT on this connection sees.
Visible(s) == file \cup unsaved[s]

\* Mutant: the query has no LIMIT.
MostRecentUnlimited(rows, seen) == rows = seen

\* Mutant: the oldest first.
MostRecentOldest(rows, seen) ==
  /\ rows \subseteq seen
  /\ Cardinality(rows) <= Limit
  /\ \A r \in seen \ rows : Cardinality(rows) = Limit /\ \A q \in rows : stamp[q] <= stamp[r]

\* ORDER BY resolved_at DESC LIMIT limit, as a set; ties go either way.
MostRecent(rows, seen) ==
  /\ rows \subseteq seen
  /\ Cardinality(rows) <= Limit
  /\ \A r \in seen \ rows : Cardinality(rows) = Limit /\ \A q \in rows : stamp[q] >= stamp[r]

Init ==
  /\ stage = [d \in Diagnoses |-> "idle"]
  /\ stamp = [d \in Diagnoses |-> 0]
  /\ context = [d \in Diagnoses |-> {}]
  /\ file = {}
  /\ unsaved = [s \in Stores |-> {}]
  /\ intx = [s \in Stores |-> FALSE]
  /\ lock = [s \in Stores |-> "none"]

\* The supervisor's first decision calls find_similar.  Inside a transaction that
\* was left open, the lock a SELECT takes is kept.
FindSimilar(d, rows) ==
  LET s == StoreOf[d] IN
  /\ stage[d] = "idle"
  /\ ~ReadBusy(s)
  /\ MostRecent(rows, Visible(s))
  /\ context' = [context EXCEPT ![d] = rows]
  /\ lock' = [lock EXCEPT ![s] = IF intx[s] /\ @ = "none" THEN "shared" ELSE @]
  /\ stage' = [stage EXCEPT ![d] = "begun"]
  /\ UNCHANGED <<stamp, file, unsaved, intx>>

FindSimilarLocked(d) ==
  /\ stage[d] = "idle"
  /\ ReadBusy(StoreOf[d])
  /\ stage' = [stage EXCEPT ![d] = "failed"]
  /\ UNCHANGED <<stamp, context, file, unsaved, intx, lock>>

\* The persist node makes the record: resolved_at is taken here.
Resolve(d, now) ==
  /\ stage[d] = "begun"
  /\ stamp' = [stamp EXCEPT ![d] = now]
  /\ stage' = [stage EXCEPT ![d] = "resolved"]
  /\ UNCHANGED <<context, file, unsaved, intx, lock>>

\* Mutant: every statement commits by itself.
InsertAutocommits(d) ==
  LET s == StoreOf[d] IN
  /\ stage[d] = "resolved"
  /\ ~WriteBusy(s)
  /\ file' = file \cup {d}
  /\ stage' = [stage EXCEPT ![d] = "written"]
  /\ UNCHANGED <<stamp, context, unsaved, intx, lock>>

\* save_incident's execute: BEGIN is implicit, and the INSERT takes the write lock.
Insert(d) ==
  LET s == StoreOf[d] IN
  /\ stage[d] = "resolved"
  /\ ~WriteBusy(s)
  /\ unsaved' = [unsaved EXCEPT ![s] = @ \cup {d}]
  /\ intx' = [intx EXCEPT ![s] = TRUE]
  /\ lock' = [lock EXCEPT ![s] = IF @ = "pending" THEN @ ELSE "reserved"]
  /\ stage' = [stage EXCEPT ![d] = "written"]
  /\ UNCHANGED <<stamp, context, file>>

\* The INSERT is refused; the BEGIN before it was not, and nothing rolls it back.
InsertLocked(d) ==
  LET s == StoreOf[d] IN
  /\ stage[d] = "resolved"
  /\ WriteBusy(s)
  /\ intx' = [intx EXCEPT ![s] = TRUE]
  /\ stage' = [stage EXCEPT ![d] = "failed"]
  /\ UNCHANGED <<stamp, context, file, unsaved, lock>>

\* Mutant: save_incident returns without committing.
CommitForgotten(d) ==
  /\ stage[d] = "written"
  /\ stage' = [stage EXCEPT ![d] = "saved"]
  /\ UNCHANGED <<stamp, context, file, unsaved, intx, lock>>

\* save_incident's commit, of whatever the connection's transaction holds.
Commit(d) ==
  LET s == StoreOf[d] IN
  /\ stage[d] = "written"
  /\ ~CommitBusy(s)
  /\ file' = file \cup unsaved[s]
  /\ unsaved' = [unsaved EXCEPT ![s] = {}]
  /\ intx' = [intx EXCEPT ![s] = FALSE]
  /\ lock' = [lock EXCEPT ![s] = "none"]
  /\ stage' = [stage EXCEPT ![d] = "saved"]
  /\ UNCHANGED <<stamp, context>>

\* The commit is refused: the transaction stays open, and new readers are kept out.
CommitLocked(d) ==
  LET s == StoreOf[d] IN
  /\ stage[d] = "written"
  /\ CommitBusy(s)
  /\ lock' = [lock EXCEPT ![s] = "pending"]
  /\ stage' = [stage EXCEPT ![d] = "failed"]
  /\ UNCHANGED <<stamp, context, file, unsaved, intx>>

\* The process of a store ends, in order or not: close does not commit.  The
\* diagnoses still to begin are those of the process that opens the file next.
ProcessEnds(s) ==
  /\ \E d \in Diagnoses : StoreOf[d] = s /\ stage[d] # "idle"
  /\ stage' = [d \in Diagnoses |->
                 IF StoreOf[d] = s /\ stage[d] \in {"begun", "resolved", "written"}
                 THEN "lost" ELSE stage[d]]
  /\ unsaved' = [unsaved EXCEPT ![s] = {}]
  /\ intx' = [intx EXCEPT ![s] = FALSE]
  /\ lock' = [lock EXCEPT ![s] = "none"]
  /\ UNCHANGED <<stamp, context, file>>

Next ==
  \/ \E d \in Diagnoses :
       \/ \E rows \in SUBSET Diagnoses : FindSimilar(d, rows)
       \/ FindSimilarLocked(d)
       \/ \E now \in Stamps : Resolve(d, now)
       \/ Insert(d)
       \/ InsertLocked(d)
       \/ Commit(d)
       \/ CommitLocked(d)
  \/ \E s \in Stores : ProcessEnds(s)

Spec == Init /\ [][Next]_vars

-----------------------------------------------------------------------------
\* Properties.

\* Type invariant; a prompt quotes no more than the limit.
TypeOK ==
  /\ stage \in [Diagnoses -> DiagnosisStages]
  /\ stamp \in [Diagnoses -> Nat]
  /\ context \in [Diagnoses -> SUBSET Diagnoses]
  /\ \A d \in Diagnoses : Cardinality(context[d]) <= Limit
  /\ file \subseteq Diagnoses
  /\ unsaved \in [Stores -> SUBSET Diagnoses]
  /\ intx \in [Stores -> BOOLEAN]
  /\ lock \in [Stores -> Locks]

\* Once save_incident has returned the record is in the file, for good: no other
\* diagnosis, no failed save and no process that ends takes it back.
SavedIsDurable == \A d \in Diagnoses : stage[d] = "saved" => d \in file

\* A record whose own save has not returned, or never will, is in the file only
\* because a save on the same connection committed it along with its own.
StrayRowHasCarrier ==
  \A d \in file : stage[d] # "saved" =>
    \E e \in Diagnoses : StoreOf[e] = StoreOf[d] /\ stage[e] = "saved"

\* A diagnosis is told of every record whose save had returned before it began,
\* whichever process saved it, unless as many as fit are at least as recent.
PastIsTold ==
  [][\A d, r \in Diagnoses :
       (stage[d] = "idle" /\ stage'[d] = "begun" /\ stage[r] = "saved") =>
         \/ r \in context'[d]
         \/ Cardinality({q \in context'[d] : stamp[q] >= stamp[r]}) = Limit]_vars

\* PROJECT.md: "the resolved incident is written to memory".  A save should be
\* refused only while another one is under way.
LoneSaveSucceeds ==
  [][\A d \in Diagnoses :
       (stage[d] = "resolved" /\ stage'[d] = "failed") =>
         \E e \in Diagnoses : stage[e] = "written"]_vars
=============================================================================
