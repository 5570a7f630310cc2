------------------------- MODULE SessionLimit_proofs --------------------------
(***************************************************************************)
(* Proofs about SessionLimit for every set of users and workers and every  *)
(* limit, timeout and delay bound that SessionAssumption admits.           *)
(***************************************************************************)
EXTENDS SessionLimit, FiniteSetTheorems, TLAPS

\* Every step keeps each variable in its type: ages and lags stay within
\* their caps, rows only for known users, statements only from the list.
THEOREM TypeCorrect == Spec => []TypeOK
<1> USE SessionAssumption
<1>1. Init => TypeOK
  BY DEF Init, TypeOK, AgeCap, Statements, Results
<1>2. TypeOK /\ [Next]_vars => TypeOK'
  <2> SUFFICES ASSUME TypeOK, [Next]_vars
               PROVE  TypeOK'
    OBVIOUS
  <2> USE DEF TypeOK, AgeCap, Statements, Results
  <2>1. ASSUME NEW w \in Workers, NEW u \in Users, Connect(w, u)
        PROVE  TypeOK'
    BY <2>1 DEF Connect
  <2>2. ASSUME NEW w \in Workers, Check(w)
        PROVE  TypeOK'
    <3>1. CASE Cleanup(w)
      BY <3>1 DEF Cleanup, Goto
    <3>2. CASE CleanupFails(w)
      BY <3>2 DEF CleanupFails, Goto
    <3>3. CASE Select(w)
      BY <3>3 DEF Select, Goto
    <3>4. CASE Refresh(w)
      BY <3>4 DEF Refresh, Return, Touch
    <3>5. CASE Count(w)
      BY <3>5 DEF Count, Goto, Return
    <3>6. CASE Insert(w)
      BY <3>6 DEF Insert, Return
    <3>7. CASE InsertDuplicate(w)
      BY <3>7 DEF InsertDuplicate, Return
    <3>8. CASE DbError(w)
      BY <3>8 DEF DbError, Return
    <3> QED
      BY <2>2, <3>1, <3>2, <3>3, <3>4, <3>5, <3>6, <3>7, <3>8 DEF Check
  <2>3. CASE Tick
    BY <2>3 DEF Tick, Older, Running
  <2>4. CASE UNCHANGED vars
    BY <2>4 DEF vars
  <2> QED
    BY <2>1, <2>2, <2>3, <2>4 DEF Next
<1> QED
  BY <1>1, <1>2, PTL DEF Spec

-------------------------------------------------------------------------------
\* Workers whose refresh or insert is decided.
Pending == {v \in Workers : pc[v] \in {"refresh", "insert"}}

\* The users the pending workers work for are finitely many, no more than
\* there are workers.
LEMMA PendingUsers ==
  ASSUME TypeOK
  PROVE  /\ IsFiniteSet({user[v] : v \in Pending})
         /\ Cardinality({user[v] : v \in Pending}) <= Cardinality(Workers)
<1> DEFINE P == Pending
           T == {user[v] : v \in P}
           f == [v \in P |-> user[v]]
<1>1. IsFiniteSet(P) /\ Cardinality(P) <= Cardinality(Workers)
  BY SessionAssumption, FS_Subset DEF Pending
<1>2. f \in Surjection(P, T)
  BY DEF Surjection
<1>3. IsFiniteSet(T) /\ Cardinality(T) <= Cardinality(P)
  BY <1>1, <1>2, FS_Surjection
<1>4. /\ Cardinality(T) \in Nat
      /\ Cardinality(P) \in Nat
      /\ Cardinality(Workers) \in Nat
  BY <1>1, <1>3, FS_CardinalityType, SessionAssumption
<1> QED
  BY <1>1, <1>3, <1>4

\* Active is what the pending count would see at best: with an older
\* threshold at least as many rows count as active.
LEMMA OlderThresholdCountsMore ==
  ASSUME TypeOK, NEW w \in Workers
  PROVE  /\ Active \subseteq ActiveSince(lag[w])
         /\ ActiveSince(lag[w]) \subseteq Users
BY SessionAssumption DEF TypeOK, Active, ActiveSince, AgeCap

LEMMA CommittedFinite ==
  ASSUME TypeOK
  PROVE  Committed \in SUBSET Users /\ IsFiniteSet(Committed)
<1>1. Committed \in SUBSET Users
  BY DEF TypeOK, Committed, Active, ActiveSince
<1> QED
  BY <1>1, SessionAssumption, FS_Subset

\* A worker that finds room commits one more user; the active ones are
\* fewer than MaxUsers at that moment and each worker commits at most one.
LEMMA CountKeepsBound ==
  ASSUME TypeOK, TypeOK', NEW w \in Workers, Count(w), HasRoom(w)
  PROVE  CommittedBound'
<1> DEFINE T == {user[v] : v \in Pending}'
<1>1. Active' = Active
  BY DEF Count, Active, ActiveSince
<1>2. Committed' = Active \cup T
  BY <1>1 DEF Committed, Pending
<1>3. IsFiniteSet(Active) /\ Cardinality(Active) <= MaxUsers - 1
  <2>1. /\ IsFiniteSet(ActiveSince(lag[w]))
        /\ IsFiniteSet(Active)
        /\ Cardinality(Active) <= Cardinality(ActiveSince(lag[w]))
    BY OlderThresholdCountsMore, SessionAssumption, FS_Subset
  <2>2. Cardinality(ActiveSince(lag[w])) < MaxUsers
    BY DEF HasRoom
  <2> QED
    BY <2>1, <2>2, FS_CardinalityType, SessionAssumption
<1>4. IsFiniteSet(T) /\ Cardinality(T) <= Cardinality(Workers)
  <2>1. /\ IsFiniteSet({user[v] : v \in Pending})'
        /\ (Cardinality({user[v] : v \in Pending}) <= Cardinality(Workers))'
    BY PendingUsers, PTL
  <2> QED
    BY <2>1
<1>5. Cardinality(Committed') <= Cardinality(Active) + Cardinality(T)
  <2>1. /\ Cardinality(Active \cup T)
             = Cardinality(Active) + Cardinality(T) - Cardinality(Active \cap T)
        /\ IsFiniteSet(Active \cap T)
    BY <1>3, <1>4, FS_Union, FS_Subset
  <2>2. /\ Cardinality(Active \cap T) \in Nat
        /\ Cardinality(Active) \in Nat
        /\ Cardinality(T) \in Nat
    BY <1>3, <1>4, <2>1, FS_CardinalityType
  <2> QED
    BY <1>2, <2>1, <2>2
<1>6. /\ Cardinality(Active) \in Nat
      /\ Cardinality(T) \in Nat
      /\ Cardinality(Workers) \in Nat
      /\ Cardinality(Committed') \in Nat
  BY <1>2, <1>3, <1>4, FS_Union, FS_CardinalityType, SessionAssumption
<1> QED
  BY <1>3, <1>4, <1>5, <1>6, SessionAssumption DEF CommittedBound

\* Every other step commits no user that was not committed before.
LEMMA CommittedShrinks ==
  ASSUME TypeOK, TypeOK', [Next]_vars,
         ~ \E w \in Workers : Count(w) /\ HasRoom(w)
  PROVE  Committed' \subseteq Committed
<1> USE SessionAssumption DEF Committed, Active, ActiveSince, TypeOK, AgeCap
<1>1. ASSUME NEW w \in Workers, NEW u \in Users, Connect(w, u)
      PROVE  Committed' \subseteq Committed
  BY <1>1 DEF Connect
<1>2. ASSUME NEW w \in Workers, Check(w)
      PROVE  Committed' \subseteq Committed
  <2>1. CASE Cleanup(w)
    BY <2>1 DEF Cleanup, Goto
  <2>2. CASE CleanupFails(w)
    BY <2>2 DEF CleanupFails, Goto
  <2>3. CASE Select(w)
    BY <2>3 DEF Select, Goto, HasSession
  <2>4. CASE Refresh(w)
    BY <2>4 DEF Refresh, Return, Touch
  <2>5. CASE Count(w)
    BY <2>5 DEF Count, Return
  <2>6. CASE Insert(w)
    BY <2>6 DEF Insert, Return
  <2>7. CASE InsertDuplicate(w)
    BY <2>7 DEF InsertDuplicate, Return
  <2>8. CASE DbError(w)
    BY <2>8 DEF DbError, Return, Statements
  <2> QED
    BY <1>2, <2>1, <2>2, <2>3, <2>4, <2>5, <2>6, <2>7, <2>8 DEF Check
<1>3. CASE Tick
  BY <1>3 DEF Tick, Older, Running
<1>4. CASE UNCHANGED vars
  BY <1>4 DEF vars
<1> QED
  BY <1>1, <1>2, <1>3, <1>4 DEF Next

\* However many users and workers there are, committed users never exceed
\* MaxUsers by more than the workers beyond the first.
THEOREM CommittedNeverExceeds == Spec => []CommittedBound
<1>1. Init => CommittedBound
  <2> SUFFICES ASSUME Init PROVE CommittedBound
    OBVIOUS
  <2>1. Committed = {}
    BY DEF Init, Committed, Active, ActiveSince
  <2>2. Cardinality(Workers) \in Nat /\ Cardinality({}) = 0
    BY SessionAssumption, FS_CardinalityType, FS_EmptySet
  <2>3. Cardinality(Workers) # 0
    BY SessionAssumption, FS_EmptySet
  <2> QED
    BY <2>1, <2>2, <2>3, SessionAssumption DEF CommittedBound
<1>2. TypeOK /\ TypeOK' /\ CommittedBound /\ [Next]_vars => CommittedBound'
  <2> SUFFICES ASSUME TypeOK, TypeOK', CommittedBound, [Next]_vars
               PROVE  CommittedBound'
    OBVIOUS
  <2>1. CASE \E w \in Workers : Count(w) /\ HasRoom(w)
    BY <2>1, CountKeepsBound
  <2>2. CASE ~ \E w \in Workers : Count(w) /\ HasRoom(w)
    <3>1. Committed' \subseteq Committed
      BY <2>2, CommittedShrinks
    <3>2. IsFiniteSet(Committed)
      BY CommittedFinite
    <3>3. IsFiniteSet(Committed') /\ Cardinality(Committed') <= Cardinality(Committed)
      BY <3>1, <3>2, FS_Subset
    <3>4. /\ Cardinality(Committed) \in Nat
          /\ Cardinality(Committed') \in Nat
          /\ Cardinality(Workers) \in Nat
      BY <3>2, <3>3, FS_CardinalityType, SessionAssumption
    <3> QED
      BY <3>3, <3>4, SessionAssumption DEF CommittedBound
  <2> QED
    BY <2>1, <2>2
<1> QED
  BY <1>1, <1>2, TypeCorrect, PTL DEF Spec

\* The over-admission of the separate count and INSERT is bounded by the
\* number of worker processes.
THEOREM OverAdmissionIsBounded == Spec => []OverAdmissionBound
<1>1. TypeOK /\ CommittedBound => OverAdmissionBound
  <2> SUFFICES ASSUME TypeOK, CommittedBound PROVE OverAdmissionBound
    OBVIOUS
  <2>1. Active \subseteq Committed /\ IsFiniteSet(Committed)
    BY CommittedFinite DEF Committed
  <2>2. IsFiniteSet(Active) /\ Cardinality(Active) <= Cardinality(Committed)
    BY <2>1, FS_Subset
  <2>3. /\ Cardinality(Active) \in Nat
        /\ Cardinality(Committed) \in Nat
        /\ Cardinality(Workers) \in Nat
    BY <2>1, <2>2, FS_CardinalityType, SessionAssumption
  <2> QED
    BY <2>2, <2>3, SessionAssumption DEF CommittedBound, OverAdmissionBound
<1> QED
  BY <1>1, TypeCorrect, CommittedNeverExceeds, PTL

\* With a single server process the limit is never exceeded.
THEOREM SingleWorkerLimit ==
  ASSUME Cardinality(Workers) = 1
  PROVE  Spec => []LimitEnforced
<1>1. OverAdmissionBound => LimitEnforced
  BY SessionAssumption DEF OverAdmissionBound, LimitEnforced
<1> QED
  BY <1>1, OverAdmissionIsBounded, PTL

-------------------------------------------------------------------------------
\* A row that was written after a check had looked its user up is no older
\* than that check's threshold.
SeenInv ==
    \A w \in Workers :
        pc[w] = "count" /\ user[w] \in Active => age[user[w]] <= lag[w]

LEMMA SeenNext ==
  ASSUME TypeOK, SeenInv, [Next]_vars
  PROVE  SeenInv'
<1> USE SessionAssumption
<1> SUFFICES ASSUME NEW w \in Workers, pc'[w] = "count", user'[w] \in Active'
             PROVE  age'[user'[w]] <= lag'[w]
  BY DEF SeenInv
<1>1. /\ \A u \in Users : age[u] \in 0 .. AgeCap
      /\ \A v \in Workers : lag[v] \in 0 .. MaxDelay /\ user[v] \in Users
      /\ rows \subseteq Users /\ AgeCap = Timeout + MaxDelay + 1
      /\ Timeout \in Nat /\ MaxDelay \in Nat
  BY DEF TypeOK, AgeCap
<1>2. \A u : u \in Active <=> u \in rows /\ age[u] - 0 < Timeout
  BY DEF Active, ActiveSince
<1>3. \A u : u \in Active' <=> u \in rows' /\ age'[u] - 0 < Timeout
  BY DEF Active, ActiveSince
<1>4. ASSUME NEW v \in Workers, NEW u \in Users, Connect(v, u)
      PROVE  age'[user'[w]] <= lag'[w]
  <2>1. w # v
    BY <1>4 DEF Connect, TypeOK
  <2> QED
    BY <1>2, <1>3, <1>4, <2>1 DEF Connect, TypeOK, SeenInv
<1>5. ASSUME NEW v \in Workers, Select(v)
      PROVE  age'[user'[w]] <= lag'[w]
  <2>1. UNCHANGED <<rows, age, user>> /\ lag' = [lag EXCEPT ![v] = 0]
        /\ pc' = [pc EXCEPT ![v] = IF HasSession(v) THEN "refresh" ELSE "count"]
    BY <1>5 DEF Select, Goto
  <2>2. user[w] \in Active
    BY <1>2, <1>3, <2>1
  <2>3. CASE w = v
    <3>1. ~HasSession(v)
      BY <2>1, <2>3 DEF TypeOK
    <3> QED
      BY <2>2, <2>3, <3>1 DEF HasSession
  <2>4. CASE w # v
    BY <2>1, <2>2, <2>4 DEF TypeOK, SeenInv
  <2> QED
    BY <2>3, <2>4
<1>6. ASSUME NEW v \in Workers, Cleanup(v) \/ CleanupFails(v)
      PROVE  age'[user'[w]] <= lag'[w]
  <2>1. /\ pc' = [pc EXCEPT ![v] = "select"] /\ user' = user /\ lag' = lag
        /\ rows' \subseteq rows /\ \A u \in rows' : u \in Users => age'[u] = age[u]
    BY <1>6 DEF Cleanup, CleanupFails, Goto
  <2>2. user[w] \in rows' /\ age'[user[w]] = age[user[w]] /\ w # v /\ pc[w] = "count"
    BY <1>1, <1>3, <2>1 DEF TypeOK
  <2>3. user[w] \in Active
    BY <1>2, <1>3, <2>1, <2>2
  <2> QED
    BY <2>1, <2>2, <2>3 DEF SeenInv
<1>7. ASSUME NEW v \in Workers, Refresh(v) \/ Count(v) \/ Insert(v) \/ InsertDuplicate(v) \/ DbError(v)
      PROVE  age'[user'[w]] <= lag'[w]
  <2>1. /\ user' = user /\ \E to \in {"idle", "insert"} : pc' = [pc EXCEPT ![v] = to]
        /\ \A x \in Workers : x # v => lag'[x] = lag[x]
    BY <1>7 DEF Refresh, Count, Insert, InsertDuplicate, DbError, Return, Goto, TypeOK
  <2>2. w # v /\ pc[w] = "count" /\ lag'[w] = lag[w]
    BY <2>1 DEF TypeOK
  <2>3. /\ age'[user[w]] = 0 \/ age'[user[w]] = age[user[w]]
        /\ user[w] \in rows' => user[w] \in rows \/ age'[user[w]] = 0
    BY <1>1, <1>7 DEF Refresh, Count, Insert, InsertDuplicate, DbError, Touch, TypeOK
  <2>4. CASE age'[user[w]] = 0
    BY <1>1, <2>1, <2>2, <2>4
  <2>5. CASE age'[user[w]] = age[user[w]] /\ user[w] \in rows
    <3>1. user[w] \in Active
      BY <1>2, <1>3, <2>1, <2>5
    <3> QED
      BY <2>1, <2>2, <2>5, <3>1 DEF SeenInv
  <2> QED
    BY <1>3, <2>1, <2>3, <2>4, <2>5
<1>8. CASE Tick
  <2>1. /\ UNCHANGED <<rows, pc, user>>
        /\ \A u \in rows : age'[u] = Older(age[u])
        /\ \A v \in Running : lag'[v] = lag[v] + 1
    BY <1>1, <1>8 DEF Tick, Running
  <2>2. w \in Running /\ lag'[w] = lag[w] + 1
    BY <2>1 DEF Running, Statements
  <2>3. user[w] \in rows /\ age'[user[w]] < Timeout
    BY <1>1, <1>3, <2>1 DEF Older
  <2>4. age'[user[w]] = age[user[w]] + 1
    BY <1>1, <2>1, <2>3 DEF Older
  <2>5. user[w] \in Active /\ pc[w] = "count"
    BY <1>1, <1>2, <2>1, <2>3, <2>4
  <2> QED
    BY <1>1, <2>1, <2>2, <2>4, <2>5 DEF SeenInv
<1>9. CASE UNCHANGED vars
  BY <1>2, <1>3, <1>9 DEF vars, SeenInv
<1> QED
  BY <1>4, <1>5, <1>6, <1>7, <1>8, <1>9 DEF Next, Check

\* No count turns away a user who holds a slot, unless another worker wrote
\* the row after this check had looked for it, for any number of workers and
\* however long a check takes.
THEOREM SessionHoldersServed == Spec => SessionHolderServed
<1>1. Init => SeenInv
  BY DEF Init, SeenInv
<1>2. TypeOK /\ SeenInv /\ [Next]_vars => SeenInv'
  BY SeenNext
<1>3. SeenInv /\ [Next]_vars =>
        [\A w \in Workers :
            pc[w] = "count" /\ result'[w] = "denied" /\ user[w] \in Active
            => age[user[w]] <= lag[w]]_vars
  BY DEF SeenInv
<1> QED
  BY <1>1, <1>2, <1>3, TypeCorrect, PTL DEF Spec, SessionHolderServed
===============================================================================
