------------------------- MODULE MemoryStoreProofs -------------------------
(***************************************************************************)
(* Theorems about MemoryStore, for any number of stores and diagnoses, any *)
(* limit and any behaviour of the clock.                                   *)
(***************************************************************************)
EXTENDS MemoryStore, FiniteSetTheorems, TLAPS

\* The empty prompt quotes no more than the limit.
LEMMA NothingQuoted == Cardinality({}) <= Limit
BY FS_EmptySet, MemoryAssumption

-----------------------------------------------------------------------------
\* Types.

\* The state is well formed to begin with.
LEMMA TypeInitially == Init => TypeOK
<1> SUFFICES ASSUME Init PROVE TypeOK
  OBVIOUS
<1> QED BY NothingQuoted DEF Init, TypeOK, DiagnosisStages, Locks

\* No step makes it ill formed.
LEMMA TypePreserved == TypeOK /\ [Next]_vars => TypeOK'
<1> SUFFICES ASSUME TypeOK, [Next]_vars PROVE TypeOK'
  OBVIOUS
<1> USE MemoryAssumption DEF TypeOK, DiagnosisStages, Locks
<1>1. ASSUME NEW d \in Diagnoses, NEW rows \in SUBSET Diagnoses, FindSimilar(d, rows)
      PROVE  TypeOK'
  <2>1. Cardinality(rows) <= Limit
    BY <1>1 DEF FindSimilar, MostRecent
  <2>2. \A e \in Diagnoses : Cardinality(context'[e]) <= Limit
    BY <1>1, <2>1 DEF FindSimilar
  <2>3. context' \in [Diagnoses -> SUBSET Diagnoses]
    BY <1>1 DEF FindSimilar
  <2>4. lock' \in [Stores -> Locks] /\ stage' \in [Diagnoses -> DiagnosisStages]
    BY <1>1 DEF FindSimilar
  <2> QED BY <1>1, <2>2, <2>3, <2>4 DEF FindSimilar
<1>2. ASSUME NEW d \in Diagnoses, FindSimilarLocked(d) PROVE TypeOK'
  BY <1>2 DEF FindSimilarLocked
<1>3. ASSUME NEW d \in Diagnoses, NEW now \in Stamps, Resolve(d, now) PROVE TypeOK'
  BY <1>3 DEF Resolve
<1>4. ASSUME NEW d \in Diagnoses, Insert(d) PROVE TypeOK'
  BY <1>4 DEF Insert
<1>5. ASSUME NEW d \in Diagnoses, InsertLocked(d) PROVE TypeOK'
  BY <1>5 DEF InsertLocked
<1>6. ASSUME NEW d \in Diagnoses, Commit(d) PROVE TypeOK'
  BY <1>6 DEF Commit
<1>7. ASSUME NEW d \in Diagnoses, CommitLocked(d) PROVE TypeOK'
  BY <1>7 DEF CommitLocked
<1>8. ASSUME NEW s \in Stores, ProcessEnds(s) PROVE TypeOK'
  BY <1>8 DEF ProcessEnds
<1>9. CASE UNCHANGED vars
  BY <1>9 DEF vars
<1> QED BY <1>1, <1>2, <1>3, <1>4, <1>5, <1>6, <1>7, <1>8, <1>9 DEF Next

\* The state of the stores and of the file is well formed in every behaviour,
\* and no prompt quotes more records than find_similar's limit.
THEOREM TypeCorrect == Spec => []TypeOK
<1>1. Init => TypeOK
  BY TypeInitially
<1>2. TypeOK /\ [Next]_vars => TypeOK'
  BY TypePreserved
<1> QED BY <1>1, <1>2, PTL DEF Spec

-----------------------------------------------------------------------------
\* Where a record can be.

\* A record between its two calls is in the transaction of its own store, unless
\* a save on the same connection has committed it already; a transaction holds
\* records of its own store only.
RowInv ==
  /\ \A d \in Diagnoses : stage[d] = "written" => d \in file \cup unsaved[StoreOf[d]]
  /\ \A s \in Stores : \A d \in unsaved[s] : StoreOf[d] = s

\* What the durability of a saved record and its carrier rest on.
SaveInv == RowInv /\ SavedIsDurable /\ StrayRowHasCarrier

\* Nothing is written or saved at the start.
LEMMA SaveInitially == Init => SaveInv
BY DEF Init, SaveInv, RowInv, SavedIsDurable, StrayRowHasCarrier

\* Only commit moves rows to the file; only a process that ends forgets rows, and
\* it forgets the calls that wrote them too.
LEMMA SavePreserved == TypeOK /\ SaveInv /\ [Next]_vars => SaveInv'
<1> SUFFICES ASSUME TypeOK, SaveInv, [Next]_vars PROVE SaveInv'
  OBVIOUS
<1> USE MemoryAssumption DEF SaveInv, RowInv, SavedIsDurable, StrayRowHasCarrier
<1>1. ASSUME NEW d \in Diagnoses, NEW rows \in SUBSET Diagnoses, FindSimilar(d, rows)
      PROVE  SaveInv'
  BY <1>1 DEF FindSimilar, TypeOK
<1>2. ASSUME NEW d \in Diagnoses, FindSimilarLocked(d) PROVE SaveInv'
  BY <1>2 DEF FindSimilarLocked, TypeOK
<1>3. ASSUME NEW d \in Diagnoses, NEW now \in Stamps, Resolve(d, now) PROVE SaveInv'
  BY <1>3 DEF Resolve, TypeOK
<1>4. ASSUME NEW d \in Diagnoses, Insert(d) PROVE SaveInv'
  BY <1>4 DEF Insert, TypeOK
<1>5. ASSUME NEW d \in Diagnoses, InsertLocked(d) PROVE SaveInv'
  BY <1>5 DEF InsertLocked, TypeOK
<1>6. ASSUME NEW d \in Diagnoses, Commit(d) PROVE SaveInv'
  <2> DEFINE s == StoreOf[d]
  <2>1. s \in Stores /\ file' = file \cup unsaved[s] /\ unsaved' = [unsaved EXCEPT ![s] = {}]
        /\ stage' = [stage EXCEPT ![d] = "saved"] /\ stage[d] = "written"
    BY <1>6 DEF Commit
  <2>2. RowInv'
    BY <2>1 DEF TypeOK
  <2>3. SavedIsDurable'
    BY <2>1 DEF TypeOK
  <2>4. StrayRowHasCarrier'
    <3> SUFFICES ASSUME NEW r \in file', stage'[r] # "saved"
                 PROVE  \E e \in Diagnoses : StoreOf[e] = StoreOf[r] /\ stage'[e] = "saved"
      OBVIOUS
    <3>1. CASE r \in file
      BY <2>1, <3>1 DEF TypeOK
    <3>2. CASE r \in unsaved[s]
      BY <2>1, <3>2 DEF TypeOK
    <3> QED BY <2>1, <3>1, <3>2
  <2> QED BY <2>2, <2>3, <2>4
<1>7. ASSUME NEW d \in Diagnoses, CommitLocked(d) PROVE SaveInv'
  BY <1>7 DEF CommitLocked, TypeOK
<1>8. ASSUME NEW s \in Stores, ProcessEnds(s) PROVE SaveInv'
  <2>1. \A d \in Diagnoses : /\ stage'[d] = "saved" <=> stage[d] = "saved"
                             /\ stage'[d] = "written" => stage[d] = "written" /\ StoreOf[d] # s
    BY <1>8 DEF ProcessEnds, TypeOK
  <2>2. file' = file /\ unsaved' = [unsaved EXCEPT ![s] = {}]
    BY <1>8 DEF ProcessEnds
  <2>3. RowInv'
    BY <2>1, <2>2 DEF TypeOK
  <2>4. SavedIsDurable' /\ StrayRowHasCarrier'
    BY <2>1, <2>2 DEF TypeOK
  <2> QED BY <2>3, <2>4
<1>9. CASE UNCHANGED vars
  BY <1>9 DEF vars
<1> QED BY <1>1, <1>2, <1>3, <1>4, <1>5, <1>6, <1>7, <1>8, <1>9 DEF Next

\* Once save_incident has returned its record stays in the file.
THEOREM SavesAreDurable == Spec => []SavedIsDurable
<1>1. TypeOK /\ SaveInv /\ [Next]_vars => SaveInv'
  BY SavePreserved
<1>2. SaveInv => SavedIsDurable
  BY DEF SaveInv
<1> QED BY <1>1, <1>2, SaveInitially, TypeCorrect, PTL DEF Spec

\* A record whose save did not return is only ever in the file because a later
\* save on the same connection committed it.
THEOREM StrayRowsAreCarried == Spec => []StrayRowHasCarrier
<1>1. TypeOK /\ SaveInv /\ [Next]_vars => SaveInv'
  BY SavePreserved
<1>2. SaveInv => StrayRowHasCarrier
  BY DEF SaveInv
<1> QED BY <1>1, <1>2, SaveInitially, TypeCorrect, PTL DEF Spec

-----------------------------------------------------------------------------
\* What a diagnosis is told.

\* The step that begins a diagnosis is its query, and the query keeps a saved
\* record out only if the limit is used up by records as recent.
LEMMA QueryTells ==
  ASSUME TypeOK, SavedIsDurable, [Next]_vars,
         NEW d \in Diagnoses, NEW r \in Diagnoses,
         stage[d] = "idle", stage'[d] = "begun", stage[r] = "saved"
  PROVE  \/ r \in context'[d]
         \/ Cardinality({q \in context'[d] : stamp[q] >= stamp[r]}) = Limit
<1>1. PICK rows \in SUBSET Diagnoses : FindSimilar(d, rows)
  BY DEF Next, vars, TypeOK, FindSimilar, FindSimilarLocked, Resolve, Insert, InsertLocked,
         Commit, CommitLocked, ProcessEnds
<1>2. context'[d] = rows /\ MostRecent(rows, Visible(StoreOf[d]))
  BY <1>1 DEF FindSimilar, TypeOK
<1>3. r \in Visible(StoreOf[d])
  BY DEF SavedIsDurable, Visible
<1>4. CASE r \notin rows
  <2>1. Cardinality(rows) = Limit /\ \A q \in rows : stamp[q] >= stamp[r]
    BY <1>2, <1>3, <1>4 DEF MostRecent
  <2>2. {q \in rows : stamp[q] >= stamp[r]} = rows
    BY <2>1
  <2> QED BY <1>2, <2>1, <2>2
<1> QED BY <1>2, <1>4

\* A diagnosis is told of every incident saved before it began, in any process,
\* as far as the limit allows.
THEOREM PastIsAlwaysTold == Spec => PastIsTold
<1>1. TypeOK /\ SavedIsDurable /\ [Next]_vars =>
        [\A d, r \in Diagnoses :
           (stage[d] = "idle" /\ stage'[d] = "begun" /\ stage[r] = "saved") =>
             \/ r \in context'[d]
             \/ Cardinality({q \in context'[d] : stamp[q] >= stamp[r]}) = Limit]_vars
  BY QueryTells
<1> QED BY <1>1, TypeCorrect, SavesAreDurable, PTL DEF Spec, PastIsTold
=============================================================================
