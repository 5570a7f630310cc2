------------------------- MODULE SharedState_proofs -------------------------
(***************************************************************************)
(* What requests share besides locks and histories.  When the version of   *)
(* the table tells that the cached keywords are still the table's, for any *)
(* number of rows, searches, changes and errors; what the log of answers   *)
(* says of a request, for any number of requests, searches and pieces; and *)
(* what a walk through the pages of a table may miss, for any size of the  *)
(* pages, any number of rows, administrators and changes.                  *)
(***************************************************************************)
EXTENDS PolicyCache, ResponseTrace, AdminRecords, SequenceTheorems, FiniteSetTheorems,
        WellFoundedInduction, TLAPS

\* One caller at a time is between the entry and the return.
OneHolder == \A c, d \in Callers : Holds(c) /\ Holds(d) => c = d

\* Revisions and update times only grow.
Bounds ==
    /\ version <= second /\ second <= changes
    /\ \A k \in Keywords :
          /\ updated[k] <= second
          /\ rules[k] <= changes /\ cache[k] <= changes
          /\ rules[k] = 0 \/ rules[k] >= cache[k]

\* What is loaded and not yet stored is between the cache and the table.
InHand ==
    \A c \in Callers : pc[c] = "store" =>
        \A k \in Keywords :
            /\ got[c][k] <= changes
            /\ got[c][k] = 0 \/ got[c][k] >= cache[k]
            /\ rules[k] = 0 \/ rules[k] >= got[c][k]

Loading == \E c \in Callers : pc[c] \in {"store", "stamp"}

\* If nothing unseen happened since the last good load, what was loaded is the
\* table, or a later version has overtaken the stored one.
Seen ==
    ~unseen =>
        /\ \A c \in Callers : pc[c] = "store" => got[c] = rules
        /\ \A c \in Callers : pc[c] = "stamp" => cache = rules
        /\ ~Loading /\ version # 0 => cache = rules \/ version < Version

CacheInv == TypeOK /\ OneHolder /\ Bounds /\ InHand /\ Seen

-------------------------------------------------------------------------------
\* The version of the table.

\* A non-empty set of numbers up to n has a greatest element.
LEMMA Greatest ==
  ASSUME NEW n \in Nat, NEW S, S \subseteq 0 .. n, S # {}
  PROVE  \E t \in S : \A u \in S : u <= t
<1> DEFINE Below == {m \in Nat : n - m \in S}
<1>1. \A u \in S : u \in Nat /\ n - u \in Below
  <2> TAKE u \in S
  <2>1. u \in Nat /\ u <= n
    OBVIOUS
  <2>2. n - u \in Nat /\ n - (n - u) = u
    BY <2>1
  <2> QED
    BY <2>1, <2>2
<1>2. Below \subseteq Nat /\ Below # {}
  BY <1>1
<1>3. PICK x \in Below : \A y \in Below : <<y, x>> \notin OpToRel(<, Nat)
  <2> HIDE DEF Below
  <2> QED
    BY <1>2, NatLessThanWellFounded, WFMin
<1>4. x \in Nat /\ n - x \in S
  OBVIOUS
<1>5. ASSUME NEW u \in S PROVE u <= n - x
  <2>1. u \in Nat /\ n - u \in Below /\ n - u \in Nat
    BY <1>1, <1>2
  <2>2. ~ (n - u < x)
    BY <1>3, <1>4, <2>1 DEF OpToRel
  <2> QED
    BY <1>4, <2>1, <2>2
<1> QED
  BY <1>4, <1>5

\* One of the rows has an update time that none exceeds.
LEMMA LatestRow ==
  ASSUME NEW live, live \subseteq Keywords, live # {},
         NEW times, times \in [Keywords -> Revisions]
  PROVE  \E t \in {times[k] : k \in live} : \A k \in live : times[k] <= t
<1> DEFINE S == {times[k] : k \in live}
<1>1. S \subseteq 0 .. MaxChanges /\ S # {}
  BY DEF Revisions
<1>2. \E t \in S : \A u \in S : u <= t
  <2> HIDE DEF S
  <2> QED
    BY <1>1, Greatest, PolicyAssumption
<1> QED
  BY <1>2

\* The version is the update time of an active row, and none is later.
LEMMA VersionIsLatest ==
  ASSUME TypeOK
  PROVE  /\ Version = 0 \/ \E k \in Keywords : Version = updated[k]
         /\ \A k \in Keywords : rules[k] # 0 => updated[k] <= Version
         /\ Version \in Revisions
<1> DEFINE live == {k \in Keywords : rules[k] # 0}
<1>1. updated \in [Keywords -> Revisions] /\ 0 \in Revisions
  BY PolicyAssumption DEF TypeOK, Revisions
<1>2. CASE live = {}
  BY <1>1, <1>2 DEF Version
<1>3. CASE live # {}
  <2>1. \E t \in {updated[k] : k \in live} : \A k \in live : updated[k] <= t
    <3>1. live \subseteq Keywords
      OBVIOUS
    <3> HIDE DEF live
    <3> QED
      BY <1>1, <1>3, <3>1, LatestRow
  <2>2. /\ \E k \in live : Version = updated[k]
        /\ \A k \in live : updated[k] <= Version
    BY <1>3, <2>1 DEF Version
  <2> QED
    BY <1>1, <2>2
<1> QED
  BY <1>2, <1>3

\* The same for the next state.
LEMMA VersionIsLatestNext ==
  ASSUME TypeOK'
  PROVE  \A k \in Keywords : rules'[k] # 0 => updated'[k] <= Version' /\ Version' \in Nat
<1> DEFINE live == {k \in Keywords : rules'[k] # 0}
<1>1. updated' \in [Keywords -> Revisions]
  BY DEF TypeOK
<1>2. SUFFICES ASSUME live # {} PROVE \A k \in live : updated'[k] <= Version' /\ Version' \in Nat
  OBVIOUS
<1>3. \E t \in {updated'[k] : k \in live} : \A k \in live : updated'[k] <= t
  <2>1. live \subseteq Keywords
    OBVIOUS
  <2> HIDE DEF live
  <2> QED
    BY <1>1, <1>2, <2>1, LatestRow
<1>4. Version' \in {updated'[k] : k \in live} /\ \A k \in live : updated'[k] <= Version'
  BY <1>2, <1>3 DEF Version
<1> QED
  BY <1>1, <1>4, PolicyAssumption DEF Revisions

-------------------------------------------------------------------------------
\* Type correctness.

LEMMA InitType == Init => TypeOK
<1> SUFFICES ASSUME Init PROVE TypeOK
  OBVIOUS
<1>1. 0 \in Revisions /\ None \in [Keywords -> Revisions] /\ 0 \in 0 .. MaxErrors
  BY PolicyAssumption DEF None, Revisions
<1> QED
  BY <1>1 DEF Init, TypeOK

\* Revisions stay under the bound.
LEMMA OperatorType ==
  ASSUME TypeOK, Bounds, Operator
  PROVE  TypeOK'
<1>1. second \in Nat /\ changes \in Nat /\ changes < MaxChanges /\ second <= changes
      /\ changes' = changes + 1 /\ UNCHANGED <<cacheVars, timeVars, callerVars, errors>>
  BY PolicyAssumption DEF TypeOK, Bounds, Operator, ChangeLater, ChangeSameSecond, Deactivate, MayChange, Revisions
<1>2. changes + 1 \in Revisions /\ second + 1 \in Revisions /\ second \in Revisions /\ 0 \in Revisions
  BY <1>1, PolicyAssumption DEF Revisions
<1>3. unseen' \in BOOLEAN
  BY DEF TypeOK, Operator, ChangeLater, ChangeSameSecond, Deactivate
<1>4. PICK k \in Keywords : ChangeLater(k) \/ ChangeSameSecond(k) \/ Deactivate(k)
  BY DEF Operator
<1>5. /\ rules' \in [Keywords -> Revisions] /\ updated' \in [Keywords -> Revisions]
      /\ second' \in Revisions
  <2>1. CASE ChangeLater(k)
    BY <1>2, <2>1 DEF ChangeLater, Rewrite, TypeOK
  <2>2. CASE ChangeSameSecond(k)
    BY <1>2, <2>2 DEF ChangeSameSecond, Rewrite, TypeOK
  <2>3. CASE Deactivate(k)
    BY <1>2, <2>3 DEF Deactivate, TypeOK
  <2> QED
    BY <1>4, <2>1, <2>2, <2>3
<1> QED
  BY <1>1, <1>2, <1>3, <1>5 DEF TypeOK, cacheVars, timeVars, callerVars

LEMMA FailsType ==
  ASSUME TypeOK, NEW call, Fails(call)
  PROVE  errors' \in 0 .. MaxErrors
  BY PolicyAssumption DEF TypeOK, Fails

LEMMA CallerType ==
  ASSUME TypeOK, NEW c \in Callers, Call(c) \/ Enter(c) \/ Refresh(c)
  PROVE  TypeOK'
<1>1. CASE Call(c)
  BY <1>1 DEF Call, Goto, TypeOK, tableVars, cacheVars
<1>2. CASE Enter(c)
  BY <1>2 DEF Enter, Goto, TypeOK, tableVars, cacheVars, timeVars
<1>3. CASE Check(c)
  <2>1. errors' \in 0 .. MaxErrors
    BY <1>3, FailsType DEF Check, ReadsVersion, TypeOK
  <2> QED
    BY <1>3, <2>1 DEF Check, Checked, Goto, TypeOK, tableVars, cacheVars
<1>4. CASE Load(c)
  <2>1. errors' \in 0 .. MaxErrors
    BY <1>4, FailsType DEF Load, TypeOK
  <2>2. None \in [Keywords -> Revisions]
    BY PolicyAssumption DEF None, Revisions
  <2>3. got' \in [Callers -> [Keywords -> Revisions]] /\ unseen' \in BOOLEAN
    BY <1>4, <2>2 DEF Load, TypeOK
  <2> QED
    BY <1>4, <2>1, <2>3 DEF Load, Goto, TypeOK, tableVars, cacheVars, timeVars
<1>5. CASE Store(c)
  BY <1>5 DEF Store, Checked, Merged, Goto, TypeOK, tableVars
<1>6. CASE Stamp(c)
  <2>1. errors' \in 0 .. MaxErrors
    BY <1>6, FailsType DEF Stamp, ReadsVersion, TypeOK
  <2> QED
    BY <1>6, <2>1 DEF Stamp, Goto, TypeOK, tableVars, timeVars
<1> QED
  BY <1>1, <1>2, <1>3, <1>4, <1>5, <1>6 DEF Refresh

LEMMA NextType ==
  ASSUME TypeOK, Bounds, [Next]_vars
  PROVE  TypeOK'
<1>1. CASE Operator
  BY <1>1, OperatorType
<1>2. CASE Tick
  BY <1>2 DEF Tick, TypeOK, tableVars, cacheVars, callerVars
<1>3. CASE \E c \in Callers : Call(c) \/ Enter(c) \/ Refresh(c)
  BY <1>3, CallerType
<1>4. CASE UNCHANGED vars
  BY <1>4 DEF TypeOK, vars, tableVars, cacheVars, timeVars, callerVars
<1> QED
  BY <1>1, <1>2, <1>3, <1>4 DEF Next

-------------------------------------------------------------------------------
\* The inductive invariant.

LEMMA InitInv == Init => CacheInv
<1> SUFFICES ASSUME Init PROVE CacheInv
  OBVIOUS
<1>1. TypeOK
  BY InitType
<1>2. OneHolder /\ InHand
  BY DEF Init, OneHolder, Holds, InHand
<1>3. Bounds
  BY DEF Init, Bounds, None
<1>4. Seen
  BY DEF Init, Seen
<1> QED
  BY <1>1, <1>2, <1>3, <1>4 DEF CacheInv

\* One holder: only Enter takes the lock, and only when it is free.
LEMMA HolderKept ==
  ASSUME TypeOK, OneHolder, [Next]_vars
  PROVE  OneHolder'
<1>1. CASE UNCHANGED pc
  BY <1>1 DEF OneHolder, Holds
<1>2. ASSUME NEW c \in Callers, Call(c) PROVE OneHolder'
  BY <1>2 DEF Call, Goto, OneHolder, Holds, TypeOK
<1>3. ASSUME NEW c \in Callers, Enter(c) PROVE OneHolder'
  <2>1. \A d \in Callers : d # c => ~Holds(d)'
    BY <1>3 DEF Enter, Free, Goto, Holds, TypeOK
  <2> QED
    BY <2>1 DEF OneHolder
<1>4. ASSUME NEW c \in Callers, Refresh(c) PROVE OneHolder'
  <2>1. Holds(c)
    BY <1>4 DEF Refresh, Check, Load, Store, Stamp, Holds
  <2>2. \A d \in Callers : Holds(d)' => Holds(d)
    BY <1>4, <2>1 DEF Refresh, Check, Load, Store, Stamp, Goto, Holds, TypeOK
  <2> QED
    BY <2>2 DEF OneHolder
<1>5. CASE Operator
  BY <1>1, <1>5 DEF Operator, ChangeLater, ChangeSameSecond, Deactivate, MayChange, callerVars
<1>6. CASE Tick
  BY <1>1, <1>6 DEF Tick, callerVars
<1>7. CASE UNCHANGED vars
  BY <1>1, <1>7 DEF vars, callerVars
<1> QED
  BY <1>2, <1>3, <1>4, <1>5, <1>6, <1>7 DEF Next

\* A change of the table: the row gets a new revision or is switched off, and
\* its update time is at least the last one.
LEMMA OperatorKeeps ==
  ASSUME CacheInv, TypeOK', Operator
  PROVE  Bounds' /\ InHand' /\ Seen'
<1>1. /\ UNCHANGED <<cacheVars, callerVars>>
      /\ changes' = changes + 1 /\ changes \in Nat
      /\ second \in Nat /\ version \in Nat /\ version <= second /\ second <= changes
  BY PolicyAssumption DEF CacheInv, TypeOK, Bounds, Revisions, Operator, ChangeLater, ChangeSameSecond, Deactivate, MayChange
<1>2. PICK k \in Keywords : ChangeLater(k) \/ ChangeSameSecond(k) \/ Deactivate(k)
  BY DEF Operator
<1>3. /\ second' = second \/ second' = second + 1
      /\ \A j \in Keywords : updated'[j] = updated[j] \/ updated'[j] = second'
      /\ \A j \in Keywords : rules'[j] = rules[j] \/ rules'[j] = changes + 1 \/ rules'[j] = 0
  BY <1>2 DEF ChangeLater, ChangeSameSecond, Deactivate, Rewrite, CacheInv, TypeOK
<1>4. \A j \in Keywords : /\ rules[j] \in Nat /\ updated[j] \in Nat /\ cache[j] \in Nat
                          /\ \A c \in Callers : got[c][j] \in Nat
  BY PolicyAssumption DEF CacheInv, TypeOK, Revisions
<1>5. Bounds'
  BY <1>1, <1>3, <1>4 DEF CacheInv, Bounds, cacheVars
<1>6. InHand'
  <2> SUFFICES ASSUME NEW c \in Callers, pc[c] = "store", NEW j \in Keywords
               PROVE  /\ got[c][j] <= changes'
                      /\ got[c][j] = 0 \/ got[c][j] >= cache[j]
                      /\ rules'[j] = 0 \/ rules'[j] >= got[c][j]
    BY <1>1 DEF InHand, cacheVars, callerVars
  <2>1. /\ got[c][j] <= changes
        /\ got[c][j] = 0 \/ got[c][j] >= cache[j]
        /\ rules[j] = 0 \/ rules[j] >= got[c][j]
    BY DEF CacheInv, InHand
  <2> QED
    BY <1>1, <1>3, <1>4, <2>1
<1>7. Seen'
  <2>1. CASE ChangeLater(k)
    <3> SUFFICES ASSUME ~unseen' PROVE Seen'
      BY DEF Seen
    <3>1. Free /\ ~unseen
      BY <2>1 DEF ChangeLater
    <3>2. \A c \in Callers : pc'[c] # "store" /\ pc'[c] # "stamp"
      BY <1>1, <3>1 DEF Free, Holds, callerVars
    <3>3. rules'[k] = changes + 1 /\ updated'[k] = second + 1
      BY <2>1 DEF ChangeLater, Rewrite, CacheInv, TypeOK
    <3>4. rules'[k] # 0
      BY <1>1, <3>3
    <3>5. updated'[k] <= Version' /\ Version' \in Nat
      BY <3>4, VersionIsLatestNext
    <3>6. version' < Version'
      BY <1>1, <3>3, <3>5 DEF cacheVars
    <3> QED
      BY <3>2, <3>6 DEF Seen
  <2>2. CASE ChangeSameSecond(k) \/ Deactivate(k)
    BY <2>2 DEF ChangeSameSecond, Deactivate, Seen
  <2> QED
    BY <1>2, <2>1, <2>2
<1> QED
  BY <1>5, <1>6, <1>7

\* Steps before the load.
LEMMA QuietKeeps ==
  ASSUME CacheInv,
         UNCHANGED <<tableVars, cacheVars, got, unseen>>,
         \A c \in Callers : (pc'[c] \in {"store", "stamp"} \/ pc[c] \in {"store", "stamp"}) => pc'[c] = pc[c]
  PROVE  Bounds' /\ InHand' /\ Seen'
<1>1. Bounds'
  BY DEF CacheInv, Bounds, tableVars, cacheVars
<1>2. InHand'
  BY DEF CacheInv, InHand, tableVars, cacheVars
<1>3. Version' = Version
  BY DEF Version, tableVars
<1>4. Loading' = Loading
  BY DEF Loading
<1>5. Seen'
  BY <1>3, <1>4 DEF CacheInv, Seen, tableVars, cacheVars
<1> QED
  BY <1>1, <1>2, <1>5

LEMMA LoadKeeps ==
  ASSUME CacheInv, NEW c \in Callers, Load(c)
  PROVE  Bounds' /\ InHand' /\ Seen'
<1>1. UNCHANGED <<tableVars, cacheVars>>
  BY DEF Load
<1>2. pc' = [pc EXCEPT ![c] = "store"] /\ \A d \in Callers : d # c => ~Holds(d)
  BY DEF Load, Goto, Holds, CacheInv, OneHolder
<1>3. \A d \in Callers : pc'[d] \in {"store", "stamp"} => d = c /\ pc'[d] = "store"
  BY <1>2 DEF Holds, CacheInv, TypeOK
<1>4. Bounds'
  BY <1>1 DEF CacheInv, Bounds, tableVars, cacheVars
<1>5. \A j \in Keywords : rules[j] \in Nat /\ cache[j] \in Nat
  BY PolicyAssumption DEF CacheInv, TypeOK, Revisions
<1>6. \A j \in Keywords : got'[c][j] = rules[j] \/ got'[c][j] = 0
  BY DEF Load, None, CacheInv, TypeOK
<1>7. ~unseen' => got'[c] = rules
  BY DEF Load, CacheInv, TypeOK
<1>8. \A j \in Keywords : rules[j] <= changes /\ (rules[j] = 0 \/ rules[j] >= cache[j])
                          /\ changes \in Nat
  BY PolicyAssumption DEF CacheInv, Bounds, TypeOK, Revisions
<1>9. InHand'
  <2> SUFFICES ASSUME NEW j \in Keywords
               PROVE  /\ got'[c][j] <= changes
                      /\ got'[c][j] = 0 \/ got'[c][j] >= cache[j]
                      /\ rules[j] = 0 \/ rules[j] >= got'[c][j]
    BY <1>1, <1>3 DEF InHand, tableVars, cacheVars
  <2> QED
    BY <1>5, <1>6, <1>8
<1>10. Seen'
  <2>1. Loading'
    BY <1>2 DEF Loading, CacheInv, TypeOK
  <2> QED
    BY <1>1, <1>3, <1>7, <2>1 DEF Seen, tableVars
<1> QED
  BY <1>4, <1>9, <1>10

LEMMA StoreKeeps ==
  ASSUME CacheInv, NEW c \in Callers, Store(c)
  PROVE  Bounds' /\ InHand' /\ Seen'
<1>1. UNCHANGED <<tableVars, version, got, unseen>> /\ cache' = got[c] /\ pc[c] = "store"
  BY DEF Store, Merged
<1>2. pc' = [pc EXCEPT ![c] = "stamp"] /\ \A d \in Callers : d # c => ~Holds(d)
  BY DEF Store, Goto, Holds, CacheInv, OneHolder
<1>3. \A d \in Callers : pc'[d] # "store" /\ (pc'[d] = "stamp" => d = c)
  BY <1>2 DEF Holds, CacheInv, TypeOK
<1>4. Bounds'
  BY <1>1 DEF CacheInv, Bounds, InHand, tableVars
<1>5. InHand'
  BY <1>3 DEF InHand
<1>6. Seen'
  <2>1. Loading'
    BY <1>2 DEF Loading, CacheInv, TypeOK
  <2>2. ~unseen => got[c] = rules
    BY <1>1 DEF CacheInv, Seen
  <2> QED
    BY <1>1, <1>3, <2>1, <2>2 DEF Seen, tableVars
<1> QED
  BY <1>4, <1>5, <1>6

LEMMA StampKeeps ==
  ASSUME CacheInv, NEW c \in Callers, Stamp(c)
  PROVE  Bounds' /\ InHand' /\ Seen'
<1>1. UNCHANGED <<tableVars, cache, got, unseen>> /\ pc[c] = "stamp"
  BY DEF Stamp
<1>2. pc' = [pc EXCEPT ![c] = "idle"] /\ \A d \in Callers : d # c => ~Holds(d)
  BY DEF Stamp, Goto, Holds, CacheInv, OneHolder
<1>3. \A d \in Callers : pc'[d] # "store" /\ pc'[d] # "stamp"
  BY <1>2 DEF Holds, CacheInv, TypeOK
<1>4. version' <= second
  <2>1. version' = 0 \/ version' = Version
    BY DEF Stamp, ReadsVersion
  <2>2. second \in Nat /\ (Version = 0 \/ Version <= second)
    BY VersionIsLatest, PolicyAssumption DEF CacheInv, Bounds, TypeOK, Revisions
  <2> QED
    BY <2>1, <2>2
<1>5. Bounds'
  BY <1>1, <1>4 DEF CacheInv, Bounds, tableVars
<1>6. InHand'
  BY <1>3 DEF InHand
<1>7. Seen'
  BY <1>1, <1>3 DEF CacheInv, Seen, tableVars
<1> QED
  BY <1>5, <1>6, <1>7

LEMMA NextInv ==
  ASSUME CacheInv, [Next]_vars
  PROVE  CacheInv'
<1>1. TypeOK' /\ OneHolder'
  BY NextType, HolderKept DEF CacheInv
<1>2. Bounds' /\ InHand' /\ Seen'
  <2>1. CASE Operator
    BY <1>1, <2>1, OperatorKeeps
  <2>2. CASE Tick
    BY <2>2, QuietKeeps DEF Tick, callerVars
  <2>3. ASSUME NEW c \in Callers, Call(c) \/ Enter(c) \/ Check(c)
        PROVE  Bounds' /\ InHand' /\ Seen'
    <3>1. UNCHANGED <<tableVars, cacheVars, got, unseen>>
      BY <2>3 DEF Call, Enter, Check, cacheVars
    <3>2. \E s \in {"idle", "wait", "check", "load"} : pc' = [pc EXCEPT ![c] = s]
      BY <2>3 DEF Call, Enter, Check, Goto
    <3>3. pc[c] \in {"idle", "wait", "check"}
      BY <2>3 DEF Call, Enter, Check
    <3>4. \A d \in Callers : (pc'[d] \in {"store", "stamp"} \/ pc[d] \in {"store", "stamp"}) => pc'[d] = pc[d]
      BY <3>2, <3>3 DEF CacheInv, TypeOK
    <3> QED
      BY <3>1, <3>4, QuietKeeps
  <2>4. ASSUME NEW c \in Callers, Load(c) \/ Store(c) \/ Stamp(c)
        PROVE  Bounds' /\ InHand' /\ Seen'
    BY <2>4, LoadKeeps, StoreKeeps, StampKeeps
  <2>5. CASE UNCHANGED vars
    BY <2>5, QuietKeeps DEF vars, callerVars
  <2> QED
    BY <2>1, <2>2, <2>3, <2>4, <2>5 DEF Next, Refresh
<1> QED
  BY <1>1, <1>2 DEF CacheInv

LEMMA SpecInv == Spec => []CacheInv
  BY InitInv, NextInv, PTL DEF Spec

-------------------------------------------------------------------------------
\* The state of table, cache and callers stays well-typed.
THEOREM TypeCorrect == Spec => []TypeOK
<1>1. CacheInv => TypeOK
  BY DEF CacheInv
<1> QED
  BY <1>1, SpecInv, PTL

\* As long as nothing happened that the version need not show, a stored version
\* that is still the table's means that the cached keywords are the table's:
\* the change check of _get_tag_keywords_map may keep the cache.
THEOREM CurrentUnlessUnseen == Spec => []SeenIsCurrent
<1>1. CacheInv => SeenIsCurrent
  <2> SUFFICES ASSUME CacheInv, ~unseen, ready, Free, version # 0, version = Version
               PROVE  cache = rules
    BY DEF SeenIsCurrent, SameVersionSameRules
  <2>1. ~Loading
    BY DEF Free, Holds, Loading
  <2>2. ~ (version < Version)
    BY PolicyAssumption DEF CacheInv, TypeOK, Revisions
  <2> QED
    BY <2>1, <2>2 DEF CacheInv, Seen
<1> QED
  BY <1>1, SpecInv, PTL

\* What a reload stores is never older than what it replaces: the lock covers
\* the load and the store.
THEOREM ReloadsGoForward == Spec => NeverBackward
<1>1. ASSUME CacheInv, [Next]_vars
      PROVE  [\A k \in Keywords : cache'[k] = 0 \/ cache'[k] >= cache[k]]_vars
  <2>1. ASSUME NEW c \in Callers, Store(c)
        PROVE  \A k \in Keywords : cache'[k] = 0 \/ cache'[k] >= cache[k]
    BY <1>1, <2>1 DEF Store, Merged, CacheInv, InHand
  <2>2. ASSUME cache' = cache
        PROVE  \A k \in Keywords : cache'[k] = 0 \/ cache'[k] >= cache[k]
    BY <1>1, <2>2, PolicyAssumption DEF CacheInv, TypeOK, Revisions
  <2>3. CASE Operator \/ Tick \/ UNCHANGED vars
    <3>1. cache' = cache
      BY <2>3 DEF Operator, ChangeLater, ChangeSameSecond, Deactivate, MayChange, Tick, vars, cacheVars
    <3> QED
      BY <2>2, <3>1
  <2>4. ASSUME NEW c \in Callers, Call(c) \/ Enter(c) \/ Check(c) \/ Load(c) \/ Stamp(c)
        PROVE  cache' = cache
    BY <2>4 DEF Call, Enter, Check, Load, Stamp, cacheVars
  <2> QED
    BY <1>1, <2>1, <2>2, <2>3, <2>4 DEF Next, Refresh
<1> QED
  BY <1>1, SpecInv, PTL DEF Spec, NeverBackward

-------------------------------------------------------------------------------
(* The response trace.                                                     *)

Record == [preprocessed : Traced \cup {Nobody}, searches : Seq(Traced)]
Entries == {Entry(r, pieces, copy) : r \in Traced, pieces \in Seq(Pieces), copy \in Record}

TraceTypeOK ==
    /\ stages \in Record
    /\ phase \in [Traced -> Phases]
    /\ searching \in [Traced -> Nat]
    /\ extras \in [Traced -> Record]
    /\ handed \in [Traced -> Seq(Pieces)] /\ chunks \in [Traced -> Seq(Pieces)]
    /\ tasks \in Seq(Entries) /\ log \in Seq(Entries)
    /\ overlapped \subseteq Traced

\* Two requests that may write the record at a time have noticed each other.
Noticed ==
    \A q, r \in Traced : q # r /\ Active(q) /\ Active(r) => {q, r} \subseteq overlapped

\* A record that speaks of r alone.
Of(r, record) ==
    /\ record.preprocessed \in {Nobody, r}
    /\ \A i \in DOMAIN record.searches : record.searches[i] = r

\* Who has the record for itself finds itself in it, and in its copy.
RecordOwn ==
    \A r \in Traced \ overlapped :
        /\ Active(r) => Of(r, stages)
        /\ phase[r] = "stream" => Of(r, extras[r])

\* Until a request ends, what it collected is what it handed on.
Collected == \A r \in Traced : phase[r] # "ended" => chunks[r] = handed[r]

Elements(s) == {s[i] : i \in DOMAIN s}
OnePerRequest(s) == \A i, j \in DOMAIN s : s[i].request = s[j].request => i = j

\* An entry is made when its request ends, one for each.
Entered ==
    /\ \A e \in Elements(tasks) \cup Elements(log) :
          e \in Entries /\ phase[e.request] = "ended" /\ OwnStages(e) /\ OwnText(e)
    /\ OnePerRequest(tasks) /\ OnePerRequest(log)
    /\ \A e \in Elements(tasks), f \in Elements(log) : e.request # f.request

TraceInv == TraceTypeOK /\ Noticed /\ RecordOwn /\ Collected /\ Entered

\* What an entry says.
LEMMA EntryIs ==
  ASSUME NEW r, NEW pieces, NEW copy
  PROVE  /\ Entry(r, pieces, copy).request = r
         /\ Entry(r, pieces, copy).text = TextOf(pieces)
         /\ Entry(r, pieces, copy).stages = copy
  BY DEF Entry

LEMMA EntriesHave ==
  ASSUME NEW e \in Entries
  PROVE  e.request \in Traced
  <1>1. PICK r \in Traced, pieces \in Seq(Pieces), copy \in Record : e = Entry(r, pieces, copy)
    BY DEF Entries
  <1> QED BY <1>1, EntryIs

\* Adding to a sequence.
LEMMA AddElement ==
  ASSUME NEW S, NEW s \in Seq(S), NEW e \in S
  PROVE  /\ Append(s, e) \in Seq(S)
         /\ Elements(Append(s, e)) = Elements(s) \cup {e}
         /\ OnePerRequest(s) /\ (\A x \in Elements(s) : x.request # e.request)
              => OnePerRequest(Append(s, e))
  <1> DEFINE t == Append(s, e)
  <1>1. /\ t \in Seq(S) /\ Len(t) = Len(s) + 1 /\ t[Len(s) + 1] = e
        /\ \A i \in 1 .. Len(s) : t[i] = s[i]
    BY AppendProperties
  <1>2. /\ Len(s) \in Nat /\ DOMAIN s = 1 .. Len(s) /\ DOMAIN t = 1 .. Len(t)
    BY <1>1, LenProperties
  <1> HIDE DEF t
  <1>3. DOMAIN t = DOMAIN s \cup {Len(s) + 1} /\ Len(s) + 1 \notin DOMAIN s
    BY <1>1, <1>2
  <1>4. Elements(t) = Elements(s) \cup {e}
    BY <1>1, <1>2, <1>3 DEF Elements
  <1>5. ASSUME OnePerRequest(s), \A x \in Elements(s) : x.request # e.request,
               NEW i \in DOMAIN t, NEW j \in DOMAIN t, t[i].request = t[j].request
        PROVE  i = j
    <2>1. \A k \in DOMAIN s : t[k] = s[k] /\ s[k] \in Elements(s)
      BY <1>1, <1>2 DEF Elements
    <2> QED BY <1>1, <1>3, <1>5, <2>1 DEF OnePerRequest
  <1> QED BY <1>1, <1>4, <1>5 DEF t, OnePerRequest

\* Taking the first of a sequence.
LEMMA TakeElement ==
  ASSUME NEW S, NEW s \in Seq(S), s # <<>>
  PROVE  /\ Head(s) \in Elements(s) /\ Head(s) \in S
         /\ Tail(s) \in Seq(S) /\ Elements(Tail(s)) \subseteq Elements(s)
         /\ OnePerRequest(s) =>
              OnePerRequest(Tail(s)) /\ \A x \in Elements(Tail(s)) : x.request # Head(s).request
  <1> DEFINE t == Tail(s)
  <1>1. /\ t \in Seq(S) /\ Len(t) = Len(s) - 1 /\ Head(s) \in S
        /\ \A i \in 1 .. Len(t) : t[i] = s[i + 1]
    BY HeadTailProperties
  <1>2. Len(s) \in Nat \ {0} /\ DOMAIN s = 1 .. Len(s) /\ DOMAIN t = 1 .. Len(t)
    BY <1>1, LenProperties, EmptySeq
  <1>3. Head(s) = s[1]
    OBVIOUS
  <1> HIDE DEF t
  <1>4. 1 \in DOMAIN s /\ \A i \in DOMAIN t : i + 1 \in DOMAIN s /\ t[i] = s[i + 1] /\ i + 1 # 1
    BY <1>1, <1>2
  <1>5. \A i, j \in DOMAIN t : i + 1 = j + 1 => i = j
    BY <1>1, <1>2
  <1>6. Head(s) \in Elements(s) /\ Elements(t) \subseteq Elements(s)
    BY <1>3, <1>4 DEF Elements
  <1>7. ASSUME OnePerRequest(s)
        PROVE  OnePerRequest(t) /\ \A x \in Elements(t) : x.request # Head(s).request
    BY <1>3, <1>4, <1>5, <1>7 DEF OnePerRequest, Elements
  <1> QED BY <1>1, <1>6, <1>7 DEF t

LEMMA TraceInitInv == TraceInit => TraceInv
  <1> SUFFICES ASSUME TraceInit PROVE TraceInv
    OBVIOUS
  <1>1. Empty \in Record /\ \A r : Of(r, Empty)
    BY DEF Empty, Record, Of
  <1>2. TraceTypeOK
    BY <1>1 DEF TraceInit, TraceTypeOK, Phases
  <1>3. \A r \in Traced : ~Active(r)
    BY DEF TraceInit, Active
  <1>4. Noticed /\ RecordOwn /\ Collected
    BY <1>1, <1>3 DEF Noticed, RecordOwn, Collected, TraceInit
  <1>5. DOMAIN tasks = {} /\ DOMAIN log = {}
    BY DEF TraceInit
  <1>6. Entered
    BY <1>5 DEF Entered, Elements, OnePerRequest
  <1> QED BY <1>2, <1>4, <1>6 DEF TraceInv

\* The steps of a request that only write or copy the record.
Writes(r) ==
    Reset(r) \/ RecordPreprocess(r) \/ StartSearch(r) \/ RecordSearch(r) \/ SearchesOver(r)

LEMMA WritesType ==
  ASSUME TraceTypeOK, NEW r \in Traced, Writes(r)
  PROVE  TraceTypeOK'
  <1> USE DEF TraceTypeOK, Phases, Move
  <1>1. CASE Reset(r)
    BY <1>1 DEF Reset, Cleared, Empty, Record
  <1>2. CASE RecordPreprocess(r)
    BY <1>2 DEF RecordPreprocess, Record
  <1>3. CASE StartSearch(r)
    BY <1>3 DEF StartSearch
  <1>4. CASE RecordSearch(r)
    <2>1. searching' \in [Traced -> Nat]
      BY <1>4 DEF RecordSearch
    <2>2. stages.searches \in Seq(Traced) /\ stages.preprocessed \in Traced \cup {Nobody}
      BY DEF Record
    <2>3. Append(stages.searches, r) \in Seq(Traced)
      BY <2>2, AppendProperties
    <2>4. stages' = [preprocessed |-> stages.preprocessed,
                     searches |-> Append(stages.searches, r)]
      BY <1>4 DEF RecordSearch, Record
    <2>5. stages' \in Record
      BY <2>2, <2>3, <2>4 DEF Record
    <2> QED BY <1>4, <2>1, <2>5 DEF RecordSearch
  <1>5. CASE SearchesOver(r)
    BY <1>5 DEF SearchesOver
  <1> QED BY <1>1, <1>2, <1>3, <1>4, <1>5 DEF Writes

LEMMA AnswersType ==
  ASSUME TraceTypeOK, NEW r \in Traced, AnswerFails(r) \/ Snapshot(r) \/ StreamEnds(r)
  PROVE  TraceTypeOK'
  <1> USE DEF TraceTypeOK, Phases, Move
  <1>1. ASSUME NEW pieces \in Seq(Pieces), NEW copy \in Record
        PROVE  Append(tasks, Entry(r, pieces, copy)) \in Seq(Entries)
    <2>1. Entry(r, pieces, copy) \in Entries
      BY DEF Entries
    <2>2. tasks \in Seq(Entries)
      OBVIOUS
    <2> HIDE DEF TraceTypeOK
    <2> QED BY <2>1, <2>2, AddElement
  <1>2. CASE AnswerFails(r)
    BY <1>2 DEF AnswerFails
  <1>3. CASE Snapshot(r)
    <2>1. phase' \in [Traced -> Phases] /\ extras' \in [Traced -> Record]
      BY <1>3 DEF Snapshot
    <2>2. << "text" >> \in Seq(Pieces)
      BY DEF Pieces
    <2>3. handed' \in [Traced -> Seq(Pieces)]
      BY <1>3, <2>2 DEF Snapshot
    <2>4. handed'[r] \in Seq(Pieces) /\ stages \in Record
      BY <2>3
    <2>5. Append(tasks, Entry(r, handed'[r], stages)) \in Seq(Entries)
      BY <1>1, <2>4
    <2>6. tasks' = tasks \/ tasks' = Append(tasks, Entry(r, handed'[r], stages))
      BY <1>3 DEF Snapshot
    <2>7. tasks' \in Seq(Entries)
      BY <2>5, <2>6
    <2> QED BY <1>3, <2>1, <2>3, <2>7 DEF Snapshot
  <1>4. CASE StreamEnds(r)
    <2>1. chunks[r] \in Seq(Pieces) /\ extras[r] \in Record
      OBVIOUS
    <2>2. Append(tasks, Entry(r, chunks[r], extras[r])) \in Seq(Entries)
      BY <1>1, <2>1
    <2>3. tasks' \in Seq(Entries)
      BY <1>4, <2>2 DEF StreamEnds
    <2> QED BY <1>4, <2>3 DEF StreamEnds
  <1> QED BY <1>2, <1>3, <1>4

LEMMA OtherType ==
  ASSUME TraceTypeOK,
         Persist \/ UNCHANGED traceVars \/ \E r \in Traced, piece \in Pieces : Piece(r, piece)
  PROVE  TraceTypeOK'
  <1> USE DEF TraceTypeOK
  <1>1. CASE Persist
    <2>1. Tail(tasks) \in Seq(Entries) /\ Append(log, Head(tasks)) \in Seq(Entries)
      BY <1>1, TakeElement, AddElement DEF Persist
    <2> QED BY <1>1, <2>1 DEF Persist
  <1>2. ASSUME NEW r \in Traced, NEW piece \in Pieces, Piece(r, piece) PROVE TraceTypeOK'
    BY <1>2 DEF Piece
  <1>3. CASE UNCHANGED traceVars
    BY <1>3 DEF traceVars
  <1> QED BY <1>1, <1>2, <1>3

\* Who may write the record after a step could before, or has just begun.
LEMMA ActiveKept ==
  ASSUME TraceTypeOK, NEW r \in Traced, RequestNext(r), ~Reset(r)
  PROVE  /\ \A q \in Traced : Active(q)' => Active(q)
         /\ overlapped' = overlapped
  <1> USE DEF TraceTypeOK, Phases, Move, Active
  <1>1. CASE RecordPreprocess(r)
    BY <1>1 DEF RecordPreprocess
  <1>2. CASE StartSearch(r)
    BY <1>2 DEF StartSearch
  <1>3. CASE RecordSearch(r)
    BY <1>3 DEF RecordSearch
  <1>4. CASE SearchesOver(r)
    BY <1>4 DEF SearchesOver
  <1>5. CASE AnswerFails(r)
    BY <1>5 DEF AnswerFails
  <1>6. CASE Snapshot(r)
    BY <1>6 DEF Snapshot
  <1>7. CASE StreamEnds(r)
    BY <1>7 DEF StreamEnds
  <1>8. ASSUME NEW piece \in Pieces, Piece(r, piece)
        PROVE  (\A q \in Traced : Active(q)' => Active(q)) /\ overlapped' = overlapped
    BY <1>8 DEF Piece
  <1> QED BY <1>1, <1>2, <1>3, <1>4, <1>5, <1>6, <1>7, <1>8 DEF RequestNext

LEMMA BeginKeeps ==
  ASSUME TraceInv, NEW r \in Traced, Reset(r)
  PROVE  Noticed' /\ RecordOwn'
  <1> DEFINE others == {q \in Traced \ {r} : Active(q)}
  <1>1. /\ phase' = [phase EXCEPT ![r] = "preprocess"] /\ stages' = Empty
        /\ overlapped' = overlapped \cup others \cup (IF others = {} THEN {} ELSE {r})
        /\ UNCHANGED <<searching, extras>>
    BY DEF Reset, Move, Cleared
  <1>2. phase'[r] = "preprocess" /\ \A q \in Traced \ {r} : phase'[q] = phase[q]
    BY <1>1 DEF TraceInv, TraceTypeOK
  <1>3. \A q \in Traced \ {r} : Active(q)' => Active(q) /\ q \in others
    BY <1>1, <1>2 DEF Active
  <1> HIDE DEF others
  <1>4. \A q \in others : {q, r} \subseteq overlapped'
    BY <1>1
  <1>5. Noticed'
    BY <1>1, <1>3, <1>4 DEF TraceInv, Noticed
  <1>6. ASSUME NEW q \in Traced \ overlapped'
        PROVE  (Active(q) => Of(q, stages))' /\ (phase[q] = "stream" => Of(q, extras[q]))'
    <2>1. CASE q = r
      BY <1>1, <1>2, <2>1 DEF Of, Empty
    <2>2. CASE q # r
      BY <1>1, <1>2, <1>3, <1>4, <1>6, <2>2 DEF TraceInv, RecordOwn, Of
    <2> QED BY <2>1, <2>2
  <1> QED BY <1>5, <1>6 DEF RecordOwn

LEMMA WritingKeeps ==
  ASSUME TraceInv, NEW r \in Traced, RequestNext(r)
  PROVE  Noticed' /\ RecordOwn'
  <1>1. CASE Reset(r)
    BY <1>1, BeginKeeps
  <1>2. CASE ~Reset(r)
    <2>1. /\ overlapped' = overlapped
          /\ \A q \in Traced : Active(q)' => Active(q)
      BY <1>2, ActiveKept DEF TraceInv
    <2>2. Noticed'
      BY <2>1 DEF TraceInv, Noticed
    <2>3. ASSUME NEW q \in Traced \ overlapped, Active(q)
          PROVE  Of(q, stages)'
      <3>1. Of(q, stages) /\ stages \in Record
        BY <2>3 DEF TraceInv, RecordOwn, TraceTypeOK
      <3>2. Active(r) => q = r
        BY <2>3 DEF TraceInv, Noticed
      <3>3. CASE RecordPreprocess(r)
        <4>1. q = r
          BY <3>2, <3>3 DEF RecordPreprocess, Active
        <4>2. PICK p \in {stages.preprocessed, r} : stages' = [stages EXCEPT !.preprocessed = p]
          BY <3>3 DEF RecordPreprocess
        <4> QED BY <3>1, <4>1, <4>2 DEF Of, Record
      <3>4. CASE RecordSearch(r)
        <4>1. q = r
          BY <3>2, <3>4 DEF RecordSearch, Active
        <4>2. stages' = [stages EXCEPT !.searches = Append(@, r)]
          BY <3>4 DEF RecordSearch
        <4>3. /\ stages'.preprocessed = stages.preprocessed
              /\ stages'.searches = Append(stages.searches, r)
              /\ stages.searches \in Seq(Traced)
          BY <3>1, <4>2 DEF Record
        <4>4. \A i \in DOMAIN stages'.searches : stages'.searches[i] = r
          <5> DEFINE s == stages.searches
          <5>1. /\ DOMAIN Append(s, r) = 1 .. Len(s) + 1 /\ DOMAIN s = 1 .. Len(s)
                /\ Len(s) \in Nat /\ Append(s, r)[Len(s) + 1] = r
                /\ \A i \in 1 .. Len(s) : Append(s, r)[i] = s[i]
            BY <4>3, AppendProperties, LenProperties
          <5>2. \A i \in DOMAIN s : s[i] = r
            BY <3>1, <4>1 DEF Of
          <5> HIDE DEF s
          <5>3. \A i \in 1 .. Len(s) + 1 : i \in 1 .. Len(s) \/ i = Len(s) + 1
            BY <5>1
          <5>4. \A i \in DOMAIN Append(s, r) : Append(s, r)[i] = r
            BY <5>1, <5>2, <5>3
          <5> QED BY <4>3, <5>4 DEF s
        <4> QED BY <3>1, <4>1, <4>3, <4>4 DEF Of
      <3>5. CASE stages' = stages
        BY <3>1, <3>5 DEF Of
      <3> QED
        BY <1>2, <3>3, <3>4, <3>5
        DEF RequestNext, StartSearch, SearchesOver, AnswerFails, Snapshot, Piece, StreamEnds
    <2>4. ASSUME NEW q \in Traced \ overlapped, phase'[q] = "stream"
          PROVE  Of(q, extras'[q])
      <3>1. CASE Snapshot(r) /\ q = r
        <4>1. extras'[q] = stages /\ Active(q)
          BY <3>1 DEF Snapshot, TraceInv, TraceTypeOK, Active
        <4> QED BY <4>1 DEF TraceInv, RecordOwn
      <3>2. CASE ~(Snapshot(r) /\ q = r)
        <4>1. phase[q] = "stream" /\ extras'[q] = extras[q]
          BY <1>2, <2>4, <3>2
          DEF RequestNext, RecordPreprocess, StartSearch, RecordSearch, SearchesOver,
              AnswerFails, Snapshot, Piece, StreamEnds, Move, TraceInv, TraceTypeOK
        <4> QED BY <4>1 DEF TraceInv, RecordOwn
      <3> QED BY <3>1, <3>2
    <2>5. RecordOwn'
      BY <2>1, <2>3, <2>4 DEF RecordOwn, Of
    <2> QED BY <2>2, <2>5
  <1> QED BY <1>1, <1>2

\* What is true of an entry, in the state it is looked at in.
IsTrue(e) == phase[e.request] = "ended" /\ OwnStages(e) /\ OwnText(e)

\* An entry stays true: its request has ended, and nobody is taken off the list
\* of those who overlapped.
LEMMA EntriesStayTrue ==
  ASSUME TraceTypeOK, Entered, overlapped \subseteq overlapped',
         \A q \in Traced : phase[q] = "ended" => phase'[q] = "ended" /\ handed'[q] = handed[q]
  PROVE  \A e \in Elements(tasks) \cup Elements(log) : e \in Entries /\ IsTrue(e)'
  <1> SUFFICES ASSUME NEW e \in Elements(tasks) \cup Elements(log)
               PROVE  e \in Entries /\ IsTrue(e)'
    OBVIOUS
  <1>1. e \in Entries /\ phase[e.request] = "ended" /\ OwnStages(e) /\ OwnText(e)
    BY DEF Entered
  <1>2. e.request \in Traced
    BY <1>1, EntriesHave
  <1>3. phase'[e.request] = "ended" /\ handed'[e.request] = handed[e.request]
    BY <1>1, <1>2
  <1>4. OwnStages(e)'
    BY <1>1 DEF OwnStages
  <1>5. OwnText(e)'
    BY <1>1, <1>3 DEF OwnText
  <1> QED BY <1>1, <1>3, <1>4, <1>5 DEF IsTrue

\* A step that makes the entry e of a request that ends with it.
LEMMA EntryMade ==
  ASSUME TraceTypeOK, Entered, overlapped \subseteq overlapped',
         \A q \in Traced : phase[q] = "ended" => phase'[q] = "ended" /\ handed'[q] = handed[q],
         NEW e \in Entries, phase[e.request] # "ended", IsTrue(e)',
         tasks' = Append(tasks, e), log' = log
  PROVE  Entered'
  <1>1. \A f \in Elements(tasks) \cup Elements(log) :
           f \in Entries /\ IsTrue(f)' /\ f.request # e.request
    BY EntriesStayTrue DEF Entered
  <1>2. /\ Elements(tasks') = Elements(tasks) \cup {e}
        /\ OnePerRequest(tasks')
    BY <1>1, AddElement DEF TraceTypeOK, Entered
  <1>3. Elements(log') = Elements(log) /\ OnePerRequest(log')
    BY DEF Entered
  <1>4. \A f \in Elements(tasks'), g \in Elements(log') : f.request # g.request
    BY <1>1, <1>2, <1>3 DEF Entered
  <1>5. \A f \in Elements(tasks') \cup Elements(log') : f \in Entries /\ IsTrue(f)'
    BY <1>1, <1>2, <1>3
  <1> QED BY <1>2, <1>3, <1>4, <1>5 DEF Entered, IsTrue, Elements, OnePerRequest

\* A step that leaves the entries alone.
LEMMA EntriesKept ==
  ASSUME TraceTypeOK, Entered, overlapped \subseteq overlapped',
         \A q \in Traced : phase[q] = "ended" => phase'[q] = "ended" /\ handed'[q] = handed[q],
         tasks' = tasks, log' = log
  PROVE  Entered'
  <1>1. \A f \in Elements(tasks) \cup Elements(log) : f \in Entries /\ IsTrue(f)'
    BY EntriesStayTrue
  <1> QED BY <1>1 DEF Entered, IsTrue, Elements, OnePerRequest

LEMMA CollectedEntered ==
  ASSUME TraceInv, TraceTypeOK', NEW r \in Traced, RequestNext(r)
  PROVE  Collected' /\ Entered'
  <1> USE DEF Move
  <1>1. TraceTypeOK /\ Collected /\ Entered
    BY DEF TraceInv
  <1>2. CASE Writes(r)
    <2>1. /\ UNCHANGED <<handed, chunks, tasks, log>> /\ overlapped \subseteq overlapped'
          /\ \E p \in {"preprocess", "search", "answer"} : phase[r] # "ended" /\
                (phase' = [phase EXCEPT ![r] = p] \/ phase' = phase)
          \/ RecordSearch(r)
      BY <1>2 DEF Writes, Reset, RecordPreprocess, StartSearch, SearchesOver
    <2>2. /\ UNCHANGED <<handed, chunks, tasks, log>> /\ overlapped \subseteq overlapped'
          /\ \A q \in Traced : phase[q] = "ended" <=> phase'[q] = "ended"
      BY <1>1, <2>1 DEF TraceTypeOK, RecordSearch
    <2>3. Collected'
      BY <1>1, <2>2 DEF Collected
    <2>4. Entered'
      BY <1>1, <2>2, EntriesKept
    <2> QED BY <2>3, <2>4
  <1>3. CASE AnswerFails(r)
    <2>1. /\ UNCHANGED <<handed, chunks, tasks, log, overlapped>>
          /\ phase[r] # "ended" /\ phase' = [phase EXCEPT ![r] = "ended"]
      BY <1>3 DEF AnswerFails
    <2>2. \A q \in Traced : phase[q] = "ended" => phase'[q] = "ended"
      BY <1>1, <2>1 DEF TraceTypeOK
    <2>3. Collected'
      BY <1>1, <2>1, <2>2 DEF Collected
    <2>4. Entered'
      BY <1>1, <2>1, <2>2, EntriesKept
    <2> QED BY <2>3, <2>4
  <1>4. CASE Snapshot(r)
    <2>1. /\ UNCHANGED <<chunks, log, overlapped>> /\ phase[r] = "answer"
          /\ \A q \in Traced : phase[q] = "ended" => phase'[q] = "ended" /\ handed'[q] = handed[q]
          /\ \A q \in Traced \ {r} : phase'[q] = phase[q] /\ handed'[q] = handed[q]
      BY <1>1, <1>4 DEF Snapshot, TraceTypeOK
    <2>2. CASE r \in Streamed
      <3>1. UNCHANGED <<handed, tasks>>
        BY <1>4, <2>2 DEF Snapshot
      <3>2. Collected'
        BY <1>1, <2>1, <3>1 DEF Collected
      <3> QED BY <1>1, <2>1, <3>1, <3>2, EntriesKept
    <2>3. CASE r \notin Streamed
      <3>. PICK e : e = Entry(r, handed'[r], stages)
        OBVIOUS
      <3>1. phase'[r] = "ended" /\ tasks' = Append(tasks, e)
        BY <1>1, <1>4, <2>3 DEF Snapshot, TraceTypeOK
      <3>2. Collected'
        BY <1>1, <2>1, <3>1 DEF Collected
      <3>3. handed'[r] \in Seq(Pieces) /\ stages \in Record
        BY <1>1 DEF TraceTypeOK
      <3>4. e \in Entries /\ e.request = r /\ e.text = TextOf(handed'[r]) /\ e.stages = stages
        BY <3>3, EntryIs DEF Entries
      <3>5. r \notin overlapped => Of(r, stages)
        BY <2>1 DEF TraceInv, RecordOwn, Active
      <3>6. IsTrue(e)'
        BY <2>1, <3>1, <3>4, <3>5 DEF IsTrue, OwnStages, OwnText, Of
      <3>7. phase[e.request] # "ended"
        BY <2>1, <3>4
      <3>8. Entered'
        BY <1>1, <2>1, <3>1, <3>4, <3>6, <3>7, EntryMade
      <3> QED BY <3>2, <3>8
    <2> QED BY <2>2, <2>3
  <1>5. ASSUME NEW piece \in Pieces, Piece(r, piece) PROVE Collected' /\ Entered'
    <2>1. /\ UNCHANGED <<phase, tasks, log, overlapped>> /\ phase[r] = "stream"
          /\ \A q \in Traced \ {r} : chunks'[q] = chunks[q] /\ handed'[q] = handed[q]
          /\ chunks'[r] = Append(chunks[r], piece) /\ handed'[r] = Append(handed[r], piece)
      BY <1>1, <1>5 DEF Piece, TraceTypeOK
    <2>2. Collected'
      BY <1>1, <2>1 DEF Collected
    <2>3. \A q \in Traced : phase[q] = "ended" => phase'[q] = "ended" /\ handed'[q] = handed[q]
      BY <2>1
    <2>4. Entered'
      BY <1>1, <2>1, <2>3, EntriesKept
    <2> QED BY <2>2, <2>4
  <1>6. CASE StreamEnds(r)
    <2>. PICK e : e = Entry(r, chunks[r], extras[r])
      OBVIOUS
    <2>1. /\ UNCHANGED <<handed, chunks, log, overlapped>> /\ phase[r] = "stream"
          /\ phase'[r] = "ended" /\ \A q \in Traced \ {r} : phase'[q] = phase[q]
          /\ tasks' = Append(tasks, e) \/ tasks' = tasks
      BY <1>1, <1>6 DEF StreamEnds, TraceTypeOK
    <2>2. \A q \in Traced : phase[q] = "ended" => phase'[q] = "ended" /\ handed'[q] = handed[q]
      BY <2>1
    <2>3. Collected'
      BY <1>1, <2>1 DEF Collected
    <2>4. chunks[r] \in Seq(Pieces) /\ extras[r] \in Record /\ chunks[r] = handed[r]
      BY <1>1, <2>1 DEF TraceTypeOK, Collected
    <2>5. e \in Entries /\ e.request = r /\ e.text = TextOf(handed[r]) /\ e.stages = extras[r]
      BY <2>4, EntryIs DEF Entries
    <2>6. r \notin overlapped => Of(r, extras[r])
      BY <2>1 DEF TraceInv, RecordOwn
    <2>7. IsTrue(e)'
      BY <2>1, <2>5, <2>6 DEF IsTrue, OwnStages, OwnText, Of
    <2>8. phase[e.request] # "ended"
      BY <2>1, <2>5
    <2>9. Entered'
      BY <1>1, <2>1, <2>2, <2>5, <2>7, <2>8, EntryMade, EntriesKept
    <2> QED BY <2>3, <2>9
  <1> QED BY <1>2, <1>3, <1>4, <1>5, <1>6 DEF RequestNext, Writes

LEMMA PersistKeeps ==
  ASSUME TraceInv, Persist
  PROVE  Entered'
  <1>1. TraceTypeOK /\ Entered
    BY DEF TraceInv
  <1>2. /\ tasks # <<>> /\ tasks' = Tail(tasks)
        /\ log' = log \/ log' = Append(log, Head(tasks))
        /\ UNCHANGED <<stages, phase, searching, extras, handed, chunks, overlapped>>
    BY DEF Persist
  <1>3. /\ Head(tasks) \in Elements(tasks) /\ Head(tasks) \in Entries
        /\ Elements(tasks') \subseteq Elements(tasks) /\ OnePerRequest(tasks')
        /\ \A f \in Elements(tasks') : f.request # Head(tasks).request
    BY <1>1, <1>2, TakeElement DEF TraceTypeOK, Entered
  <1>4. \A f \in Elements(tasks) \cup Elements(log) : f \in Entries /\ IsTrue(f)'
    BY <1>1, <1>2, EntriesStayTrue
  <1>5. /\ Elements(log') \subseteq Elements(log) \cup {Head(tasks)}
        /\ OnePerRequest(log')
        /\ \A f \in Elements(tasks'), g \in Elements(log') : f.request # g.request
    <2>1. CASE log' = log
      BY <1>1, <1>3, <2>1 DEF Entered
    <2>2. CASE log' = Append(log, Head(tasks))
      <3>1. \A g \in Elements(log) : g.request # Head(tasks).request
        BY <1>1, <1>3 DEF Entered
      <3>2. Elements(log') = Elements(log) \cup {Head(tasks)} /\ OnePerRequest(log')
        BY <1>1, <1>3, <2>2, <3>1, AddElement DEF TraceTypeOK, Entered
      <3> QED BY <1>1, <1>3, <3>2 DEF Entered
    <2> QED BY <1>2, <2>1, <2>2
  <1>6. \A f \in Elements(tasks') \cup Elements(log') : f \in Entries /\ IsTrue(f)'
    BY <1>3, <1>4, <1>5
  <1> QED BY <1>3, <1>5, <1>6 DEF Entered, IsTrue, Elements, OnePerRequest

LEMMA TraceStep == TraceInv /\ [TraceNext]_traceVars => TraceInv'
  <1> SUFFICES ASSUME TraceInv, [TraceNext]_traceVars PROVE TraceInv'
    OBVIOUS
  <1>1. ASSUME NEW r \in Traced, RequestNext(r) PROVE TraceInv'
    <2>1. TraceTypeOK'
      BY <1>1, WritesType, AnswersType, OtherType DEF RequestNext, Writes, TraceInv
    <2> QED BY <1>1, <2>1, WritingKeeps, CollectedEntered DEF TraceInv
  <1>2. CASE Persist
    <2>1. UNCHANGED <<stages, phase, searching, extras, handed, chunks, overlapped>>
      BY <1>2 DEF Persist
    <2>2. TraceTypeOK'
      BY <1>2, OtherType DEF TraceInv
    <2>3. Noticed' /\ RecordOwn' /\ Collected'
      BY <2>1 DEF TraceInv, Noticed, RecordOwn, Collected, Active, Of
    <2> QED BY <1>2, <2>2, <2>3, PersistKeeps DEF TraceInv
  <1>3. CASE UNCHANGED traceVars
    <2>1. UNCHANGED <<stages, phase, searching, extras, handed, chunks, tasks, log, overlapped>>
      BY <1>3 DEF traceVars
    <2>2. Noticed' /\ RecordOwn' /\ Collected'
      BY <2>1 DEF TraceInv, Noticed, RecordOwn, Collected, Active, Of
    <2>3. Entered'
      BY <2>1, EntriesKept DEF TraceInv
    <2> QED BY <1>3, <2>2, <2>3, OtherType DEF TraceInv
  <1> QED BY <1>1, <1>2, <1>3 DEF TraceNext

\* An entry of the log names the stages of its own request unless that shared the
\* record with another, has all the text its reader was handed, and is the only
\* one of its request, however requests, their threads and the writing of entries
\* interleave.
THEOREM LogIsTrue == TraceSpec => []TraceIsOwn
  <1>1. TraceInv => TraceIsOwn
    BY DEF TraceInv, Entered, TraceIsOwn, Elements, OnePerRequest
  <1> QED BY <1>1, TraceInitInv, TraceStep, PTL DEF TraceSpec

-------------------------------------------------------------------------------
(* Pages of a table.                                                       *)

\* How many members of rows come before i in a listing, the newest first.
RankIn(rows, i) == Cardinality({j \in rows : j > i})
Rank(i) == RankIn(Matching(records), i)

\* The rows that the reader should have been shown and was not, in the order of
\* the listing down to i.
Unseen == stayed \ seen
UnseenTo(i) == {j \in Unseen : j >= i}

AdminType ==
    /\ IsFiniteSet(DOMAIN records) /\ DOMAIN records \subseteq Nat
    /\ lastId \in Nat /\ page \in Nat /\ departed \in Nat
    /\ stayed \subseteq Matching(records)

\* Of the rows down to i, missed are at most those that may be on pages to come,
\* and one for each row that has left.  PagesCover is what is left of this when no
\* page is to come; alone it is not kept, since it says nothing while the walk goes on.
Missed ==
    page > 0 => \A i \in Unseen :
        \/ Cardinality(UnseenTo(i)) <= departed
        \/ Cardinality(UnseenTo(i)) + Offset <= departed + Rank(i) + 1

PagesInv == AdminType /\ Missed /\ PagesCover

\* The ranks of n rows are the numbers below n, one for each.
LEMMA RankOrder ==
  ASSUME NEW rows, IsFiniteSet(rows), rows \subseteq Nat
  PROVE  /\ \A i \in Nat : IsFiniteSet({j \in rows : j > i}) /\ RankIn(rows, i) \in Nat
         /\ \A i \in rows : RankIn(rows, i) \in 0 .. Cardinality(rows) - 1
         /\ \A i, j \in rows : i < j => RankIn(rows, j) < RankIn(rows, i)
  <1>1. ASSUME NEW i \in Nat
        PROVE  IsFiniteSet({j \in rows : j > i}) /\ RankIn(rows, i) \in Nat
    BY FS_Subset, FS_CardinalityType DEF RankIn
  <1>2. ASSUME NEW i \in rows PROVE RankIn(rows, i) \in 0 .. Cardinality(rows) - 1
    <2>1. {j \in rows : j > i} \subseteq rows \ {i}
      OBVIOUS
    <2>2. /\ IsFiniteSet(rows \ {i})
          /\ Cardinality(rows \ {i}) = Cardinality(rows) - 1
          /\ Cardinality(rows) \in Nat
      BY FS_RemoveElement, FS_CardinalityType
    <2>3. Cardinality({j \in rows : j > i}) <= Cardinality(rows \ {i})
      BY <2>1, <2>2, FS_Subset
    <2> QED BY <1>1, <2>2, <2>3 DEF RankIn
  <1>3. ASSUME NEW i \in rows, NEW j \in rows, i < j
        PROVE  RankIn(rows, j) < RankIn(rows, i)
    <2> DEFINE S == {k \in rows : k > i}
               T == {k \in rows : k > j}
    <2>1. T \subseteq S \ {j} /\ j \in S
      <3>1. i \in Nat /\ j \in Nat
        OBVIOUS
      <3>2. \A k \in T : k \in Nat /\ k > i /\ k # j
        BY <1>3, <3>1
      <3> QED BY <1>3, <3>1, <3>2
    <2>2. IsFiniteSet(S) /\ Cardinality(S) \in Nat /\ Cardinality(T) \in Nat
      BY <1>1 DEF RankIn
    <2> HIDE DEF S, T
    <2>3. IsFiniteSet(S \ {j}) /\ Cardinality(S \ {j}) = Cardinality(S) - 1
      BY <2>1, <2>2, FS_RemoveElement
    <2>4. Cardinality(T) <= Cardinality(S \ {j})
      BY <2>1, <2>3, FS_Subset
    <2>5. Cardinality(T) < Cardinality(S)
      BY <2>2, <2>3, <2>4
    <2> QED BY <2>5 DEF RankIn, S, T
  <1> QED BY <1>1, <1>2, <1>3

LEMMA RankOnto ==
  ASSUME NEW rows, IsFiniteSet(rows), rows \subseteq Nat, NEW n \in 0 .. Cardinality(rows) - 1
  PROVE  \E i \in rows : RankIn(rows, i) = n
  <1> DEFINE ranks == 0 .. Cardinality(rows) - 1
             f == [i \in rows |-> RankIn(rows, i)]
  <1>1. f \in [rows -> ranks]
    BY RankOrder
  <1>2. ASSUME NEW i \in rows, NEW j \in rows, f[i] = f[j] PROVE i = j
    <2>1. i < j \/ j < i \/ i = j
      OBVIOUS
    <2>2. /\ RankIn(rows, i) \in Nat /\ RankIn(rows, j) \in Nat
          /\ i < j => RankIn(rows, j) < RankIn(rows, i)
          /\ j < i => RankIn(rows, i) < RankIn(rows, j)
      BY RankOrder
    <2> QED BY <1>2, <2>1, <2>2
  <1>3. IsFiniteSet(ranks) /\ Cardinality(ranks) = Cardinality(rows)
    <2>1. Cardinality(rows) \in Nat
      BY FS_CardinalityType
    <2>2. PICK b \in Int : b = Cardinality(rows) - 1
      BY <2>1
    <2>3. IsFiniteSet(0 .. b) /\ Cardinality(0 .. b) = IF 0 > b THEN 0 ELSE b - 0 + 1
      BY FS_Interval
    <2> QED BY <2>1, <2>2, <2>3
  <1> HIDE DEF f, ranks
  <1>4. f \in Injection(rows, ranks)
    BY <1>1, <1>2 DEF Injection, IsInjective
  <1>5. f \in Surjection(rows, ranks)
    BY <1>3, <1>4, FS_Injection
  <1>6. \E i \in rows : f[i] = n
    BY <1>5 DEF Surjection, ranks
  <1> QED BY <1>6 DEF f

\* The rows with ranks from a to before b are at most b - a.
LEMMA RankSlice ==
  ASSUME NEW rows, IsFiniteSet(rows), rows \subseteq Nat, NEW a \in Nat, NEW b \in Nat, a <= b
  PROVE  LET slice == {i \in rows : a <= RankIn(rows, i) /\ RankIn(rows, i) < b}
         IN  /\ IsFiniteSet(slice) /\ Cardinality(slice) <= b - a
             /\ (\E i \in rows : RankIn(rows, i) >= b) => Cardinality(slice) = b - a
  <1> DEFINE slice == {i \in rows : a <= RankIn(rows, i) /\ RankIn(rows, i) < b}
             ranks == a .. b - 1
             f == [i \in slice |-> RankIn(rows, i)]
  <1>1. \A i \in rows : RankIn(rows, i) \in 0 .. Cardinality(rows) - 1
    BY RankOrder
  <1>2. f \in [slice -> ranks]
    <2>1. \A i \in slice : RankIn(rows, i) \in ranks
      BY <1>1
    <2> QED BY <2>1
  <1>3. ASSUME NEW i \in slice, NEW j \in slice, f[i] = f[j] PROVE i = j
    <2>1. i < j \/ j < i \/ i = j
      OBVIOUS
    <2>2. /\ RankIn(rows, i) \in Nat /\ RankIn(rows, j) \in Nat
          /\ i < j => RankIn(rows, j) < RankIn(rows, i)
          /\ j < i => RankIn(rows, i) < RankIn(rows, j)
      BY RankOrder
    <2> QED BY <1>3, <2>1, <2>2
  <1>4. IsFiniteSet(ranks) /\ Cardinality(ranks) = b - a
    <2>1. Cardinality(ranks) = (IF a > b - 1 THEN 0 ELSE b - 1 - a + 1) /\ IsFiniteSet(ranks)
      BY FS_Interval
    <2> QED BY <2>1
  <1>5. ASSUME NEW m \in rows, RankIn(rows, m) >= b, NEW n \in ranks
        PROVE  \E i \in slice : f[i] = n
    <2>1. n \in 0 .. Cardinality(rows) - 1
      <3>1. n \in Nat /\ n < b /\ RankIn(rows, m) \in 0 .. Cardinality(rows) - 1
        BY <1>1
      <3>2. Cardinality(rows) \in Nat
        BY FS_CardinalityType
      <3> QED BY <1>5, <3>1, <3>2
    <2>2. PICK i \in rows : RankIn(rows, i) = n
      BY <2>1, RankOnto
    <2> QED BY <2>2
  <1> HIDE DEF f, ranks
  <1>6. f \in Injection(slice, ranks)
    BY <1>2, <1>3 DEF Injection, IsInjective
  <1>7. /\ IsFiniteSet(slice) /\ Cardinality(slice) <= Cardinality(ranks)
        /\ Cardinality(slice) = Cardinality(ranks) <=> f \in Surjection(slice, ranks)
    BY <1>4, <1>6, FS_Injection
  <1>8. (\E i \in rows : RankIn(rows, i) >= b) => f \in Surjection(slice, ranks)
    BY <1>2, <1>5 DEF Surjection
  <1> QED BY <1>4, <1>7, <1>8

\* Where some rows leave and others come, a row moves up by no more than leave.
LEMMA RankFalls ==
  ASSUME NEW rows, NEW left, IsFiniteSet(rows), IsFiniteSet(left),
         rows \subseteq Nat, left \subseteq Nat, NEW i \in Nat
  PROVE  RankIn(rows, i) <= RankIn(left, i) + Cardinality(rows \ left)
  <1> DEFINE S == {j \in rows : j > i}
             T == {j \in left : j > i}
             D == rows \ left
  <1>1. IsFiniteSet(S) /\ IsFiniteSet(T) /\ Cardinality(S) \in Nat /\ Cardinality(T) \in Nat
    BY RankOrder DEF RankIn
  <1>2. IsFiniteSet(D) /\ Cardinality(D) \in Nat
    BY FS_Difference, FS_CardinalityType
  <1>3. S \subseteq T \cup D
    OBVIOUS
  <1> HIDE DEF S, T, D
  <1>4. /\ IsFiniteSet(T \cup D)
        /\ Cardinality(T \cup D) = Cardinality(T) + Cardinality(D) - Cardinality(T \cap D)
    BY <1>1, <1>2, FS_Union
  <1>5. Cardinality(T \cap D) \in Nat
    <2>1. IsFiniteSet(T \cap D)
      BY <1>1, FS_Subset
    <2> QED BY <2>1, FS_CardinalityType
  <1>6. Cardinality(S) <= Cardinality(T \cup D)
    BY <1>3, <1>4, FS_Subset
  <1>7. Cardinality(S) <= Cardinality(T) + Cardinality(D)
    BY <1>1, <1>2, <1>4, <1>5, <1>6
  <1> QED BY <1>7 DEF S, T, D, RankIn

\* A non-empty set of numbers has a least one.
LEMMA LeastOf ==
  ASSUME NEW S, S \subseteq Nat, S # {}
  PROVE  \E i \in S : \A j \in S : i <= j
  <1>1. PICK i \in S : \A j \in S : <<j, i>> \notin OpToRel(<, Nat)
    BY NatLessThanWellFounded, WFMin
  <1>2. ASSUME NEW j \in S PROVE i <= j
    <2>1. i \in Nat /\ j \in Nat
      OBVIOUS
    <2>2. ~ (j < i)
      BY <1>1, <2>1 DEF OpToRel
    <2> QED BY <2>1, <2>2
  <1> QED BY <1>2

LEMMA OffsetGrows ==
  ASSUME page \in Nat, page > 0
  PROVE  Offset \in Nat /\ (page' = page + 1 => Offset' = Offset + PageSize)
  <1>1. PageSize \in Nat
    BY AdminAssumption
  <1>2. (page - 1) * PageSize \in Nat
    BY <1>1
  <1>3. (page + 1 - 1) * PageSize = (page - 1) * PageSize + PageSize
    BY <1>1
  <1> QED BY <1>2, <1>3 DEF Offset

\* Finite sets of this table.
LEMMA Finite ==
  ASSUME AdminType
  PROVE  /\ IsFiniteSet(Matching(records)) /\ Matching(records) \subseteq Nat
         /\ IsFiniteSet(Unseen) /\ Unseen \subseteq Matching(records)
         /\ \A i : IsFiniteSet(UnseenTo(i)) /\ Cardinality(UnseenTo(i)) \in Nat
         /\ Cardinality(Unseen) \in Nat
  <1>1. IsFiniteSet(Matching(records)) /\ Matching(records) \subseteq Nat
    BY FS_Subset DEF Matching, AdminType
  <1>2. IsFiniteSet(Unseen) /\ Unseen \subseteq Matching(records)
    BY <1>1, FS_Subset DEF AdminType, Unseen
  <1>3. \A i : IsFiniteSet(UnseenTo(i))
    BY <1>2, FS_Subset DEF UnseenTo
  <1> QED BY <1>1, <1>2, <1>3, FS_CardinalityType

\* A statement that changes the table.
LEMMA ChangeKeeps ==
  ASSUME PagesInv, NEW rows, Change(rows), IsFiniteSet(DOMAIN rows), DOMAIN rows \subseteq Nat,
         lastId' \in Nat
  PROVE  PagesInv'
  <1> DEFINE before == Matching(records)
             after == Matching(rows)
  <1>1. /\ records' = rows /\ stayed' = stayed \cap after
        /\ departed' = departed + Cardinality(before \ after)
        /\ UNCHANGED <<book, query, page, seen>>
    BY DEF Change
  <1>2. Matching(records)' = after
    BY <1>1 DEF Matching, Matches
  <1>3. /\ IsFiniteSet(before) /\ before \subseteq Nat
        /\ IsFiniteSet(Unseen) /\ Unseen \subseteq before
        /\ \A i : IsFiniteSet(UnseenTo(i)) /\ Cardinality(UnseenTo(i)) \in Nat
        /\ Cardinality(Unseen) \in Nat
    BY Finite DEF PagesInv
  <1>4. IsFiniteSet(after) /\ after \subseteq Nat
    BY FS_Subset DEF Matching
  <1>5. Cardinality(before \ after) \in Nat
    BY <1>3, FS_Difference, FS_CardinalityType
  <1> HIDE DEF before, after
  <1>6. AdminType'
    BY <1>1, <1>2, <1>5 DEF PagesInv, AdminType
  <1>7. Unseen' \subseteq Unseen /\ \A i : UnseenTo(i)' \subseteq UnseenTo(i)
    BY <1>1 DEF Unseen, UnseenTo
  <1>8. /\ Cardinality(Unseen') <= Cardinality(Unseen)
        /\ \A i : Cardinality(UnseenTo(i)') <= Cardinality(UnseenTo(i))
    BY <1>3, <1>7, FS_Subset
  <1>9. \A i : Cardinality(UnseenTo(i)') \in Nat
    BY <1>3, <1>7, FS_Subset, FS_CardinalityType
  <1>10. Cardinality(Unseen') \in Nat
    BY <1>3, <1>7, FS_Subset, FS_CardinalityType
  <1>11. departed \in Nat
    BY DEF PagesInv, AdminType
  <1>12. ASSUME page' > 0, NEW i \in Unseen'
         PROVE  \/ Cardinality(UnseenTo(i)') <= departed'
                \/ Cardinality(UnseenTo(i)') + Offset' <= departed' + Rank(i)' + 1
    <2>1. i \in Unseen /\ i \in before /\ i \in Nat
      BY <1>3, <1>7
    <2>2. page > 0 /\ page \in Nat /\ Offset' = Offset /\ Offset \in Nat
      BY <1>1, <1>12, OffsetGrows DEF PagesInv, AdminType, Offset
    <2>3. \/ Cardinality(UnseenTo(i)) <= departed
          \/ Cardinality(UnseenTo(i)) + Offset <= departed + Rank(i) + 1
      BY <2>1, <2>2 DEF PagesInv, Missed
    <2>4. Rank(i) = RankIn(before, i) /\ Rank(i)' = RankIn(after, i)
      BY <1>2 DEF Rank, RankIn, before
    <2>5. Rank(i) <= Rank(i)' + Cardinality(before \ after)
      BY <1>3, <1>4, <2>1, <2>4, RankFalls
    <2>6. Rank(i) \in Nat /\ Rank(i)' \in Nat
      BY <1>3, <1>4, <2>1, <2>4, RankOrder
    <2>7. /\ Cardinality(UnseenTo(i)) \in Nat /\ Cardinality(UnseenTo(i)') \in Nat
          /\ Cardinality(UnseenTo(i)') <= Cardinality(UnseenTo(i))
          /\ departed' = departed + Cardinality(before \ after)
      BY <1>1, <1>3, <1>8, <1>9
    <2> QED BY <1>5, <1>11, <2>2, <2>3, <2>5, <2>6, <2>7
  <1>13. PagesCover'
    BY <1>1, <1>3, <1>5, <1>8, <1>10, <1>11 DEF PagesInv, PagesCover, Unseen
  <1> QED BY <1>6, <1>12, <1>13 DEF PagesInv, Missed

\* Rows that a page before should have shown are missed, never more than have left.
LEMMA MissedBefore ==
  ASSUME PagesInv, page > 0
  PROVE  Cardinality({j \in Unseen : Rank(j) < Offset}) <= departed
  <1> DEFINE S == {j \in Unseen : Rank(j) < Offset}
  <1>1. /\ IsFiniteSet(Matching(records)) /\ Matching(records) \subseteq Nat
        /\ IsFiniteSet(Unseen) /\ Unseen \subseteq Matching(records)
        /\ \A i : IsFiniteSet(UnseenTo(i)) /\ Cardinality(UnseenTo(i)) \in Nat
        /\ departed \in Nat /\ Offset \in Nat
    BY Finite, OffsetGrows DEF PagesInv, AdminType
  <1>2. CASE S = {}
    BY <1>1, <1>2, FS_EmptySet
  <1>3. CASE S # {}
    <2>1. S \subseteq Nat
      BY <1>1
    <2>2. PICK i \in S : \A j \in S : i <= j
      BY <1>3, <2>1, LeastOf
    <2>3. S \subseteq UnseenTo(i)
      BY <2>1, <2>2 DEF UnseenTo
    <2>4. Cardinality(S) <= Cardinality(UnseenTo(i)) /\ Cardinality(S) \in Nat
      BY <1>1, <2>3, FS_Subset, FS_CardinalityType
    <2>5. \/ Cardinality(UnseenTo(i)) <= departed
          \/ Cardinality(UnseenTo(i)) + Offset <= departed + Rank(i) + 1
      BY <2>2 DEF PagesInv, Missed
    <2>6. Rank(i) < Offset /\ Rank(i) \in Nat
      BY <1>1, <2>2, RankOrder DEF Rank
    <2> HIDE DEF S
    <2>7. Cardinality(UnseenTo(i)) \in Nat
      BY <1>1
    <2>8. Cardinality(S) <= departed
      BY <1>1, <2>4, <2>5, <2>6, <2>7
    <2> QED BY <2>8 DEF S
  <1> QED BY <1>2, <1>3

\* A page is listed.
LEMMA ListKeeps ==
  ASSUME PagesInv, ListPage
  PROVE  PagesInv'
  <1> DEFINE rows == Matching(records)
             items == {i \in rows : Offset <= Rank(i) /\ Rank(i) < Offset + PageSize}
             missed == {j \in Unseen : Rank(j) < Offset}
  <1>1. /\ page > 0 /\ seen' = seen \cup items
        /\ page' = IF Cardinality(items) = PageSize THEN page + 1 ELSE 0
        /\ UNCHANGED <<book, records, lastId, query, stayed, departed>>
    BY DEF ListPage, Rank, RankIn
  <1>2. /\ page \in Nat /\ departed \in Nat /\ PageSize \in Nat \ {0} /\ Offset \in Nat
        /\ page' = page + 1 => Offset' = Offset + PageSize
    BY <1>1, OffsetGrows, AdminAssumption DEF PagesInv, AdminType
  <1>3. /\ IsFiniteSet(rows) /\ rows \subseteq Nat
        /\ IsFiniteSet(Unseen) /\ Unseen \subseteq rows
    BY Finite DEF PagesInv
  <1>4. \A i \in rows : Rank(i) \in Nat
    BY <1>3, RankOrder DEF Rank
  <1>5. rows' = rows /\ \A i : Rank(i)' = Rank(i)
    BY <1>1 DEF Matching, Matches, Rank, RankIn
  <1>6. AdminType'
    BY <1>1, <1>2, <1>5 DEF PagesInv, AdminType
  <1>7. Unseen' = Unseen \ items
    BY <1>1 DEF Unseen
  <1>8. IsFiniteSet(missed) /\ Cardinality(missed) \in Nat /\ Cardinality(missed) <= departed
    BY <1>1, <1>3, MissedBefore, FS_Subset, FS_CardinalityType
  <1>9. \A i \in Unseen' : i \in rows /\ (Rank(i) < Offset \/ Rank(i) >= Offset + PageSize)
    BY <1>2, <1>3, <1>4, <1>7
  <1>10. CASE Cardinality(items) = PageSize
    <2>1. page' = page + 1 /\ Offset' = Offset + PageSize
      BY <1>1, <1>2, <1>10
    <2>2. ASSUME NEW i \in Unseen'
          PROVE  \/ Cardinality(UnseenTo(i)') <= departed
                 \/ Cardinality(UnseenTo(i)') + Offset' <= departed + Rank(i) + 1
      <3>1. i \in rows /\ i \in Nat /\ Rank(i) \in Nat
        BY <1>3, <1>4, <1>9
      <3>2. \A j \in UnseenTo(i)' : /\ j \in rows /\ j \in Unseen /\ Rank(j) <= Rank(i)
                                    /\ Rank(j) < Offset \/ Rank(j) >= Offset + PageSize
        <4> SUFFICES ASSUME NEW j \in Unseen', j >= i
                     PROVE  j \in rows /\ j \in Unseen /\ Rank(j) <= Rank(i)
          BY <1>9 DEF UnseenTo
        <4>1. j \in rows /\ j \in Unseen /\ j \in Nat
          BY <1>3, <1>7
        <4>2. i < j => Rank(j) < Rank(i)
          BY <1>3, <3>1, <4>1, RankOrder DEF Rank
        <4>3. Rank(j) \in Nat
          BY <1>4, <4>1
        <4> QED BY <3>1, <4>1, <4>2, <4>3
      <3>3. CASE Rank(i) < Offset
        <4>1. UnseenTo(i)' \subseteq missed
          <5> SUFFICES ASSUME NEW j \in UnseenTo(i)' PROVE j \in missed
            OBVIOUS
          <5>1. j \in rows /\ j \in Unseen /\ Rank(j) <= Rank(i) /\ Rank(j) \in Nat
            BY <1>4, <3>2
          <5>2. Rank(j) < Offset
            BY <1>2, <3>1, <3>3, <5>1
          <5> QED BY <5>1, <5>2
        <4>2. Cardinality(UnseenTo(i)') <= Cardinality(missed) /\ Cardinality(UnseenTo(i)') \in Nat
          BY <1>8, <4>1, FS_Subset, FS_CardinalityType
        <4> HIDE DEF missed
        <4> QED BY <1>2, <1>8, <4>2
      <3>4. CASE Rank(i) >= Offset + PageSize
        <4> DEFINE a == Offset + PageSize
                   b == Rank(i) + 1
                   slice == {j \in rows : a <= RankIn(rows, j) /\ RankIn(rows, j) < b}
        <4>1. a \in Nat /\ b \in Nat /\ a <= b
          BY <1>2, <3>1, <3>4
        <4>2. IsFiniteSet(slice) /\ Cardinality(slice) <= b - a
          <5> HIDE DEF a, b, rows
          <5> QED BY <1>3, <4>1, RankSlice
        <4>3. UnseenTo(i)' \subseteq missed \cup slice
          <5> SUFFICES ASSUME NEW j \in UnseenTo(i)' PROVE j \in missed \cup slice
            OBVIOUS
          <5>1. j \in rows /\ j \in Unseen /\ Rank(j) <= Rank(i)
            BY <3>2
          <5>2. Rank(j) < Offset \/ Rank(j) >= a
            BY <3>2
          <5>3. Rank(j) = RankIn(rows, j) /\ Rank(j) \in Nat
            BY <1>4, <5>1 DEF Rank
          <5> QED BY <3>1, <5>1, <5>2, <5>3
        <4>4. Cardinality(slice) \in Nat
          BY <4>2, FS_CardinalityType
        <4> HIDE DEF missed, slice, a, b
        <4>5. /\ IsFiniteSet(missed \cup slice)
              /\ Cardinality(missed \cup slice) =
                   Cardinality(missed) + Cardinality(slice) - Cardinality(missed \cap slice)
          BY <1>8, <4>2, FS_Union
        <4>6. Cardinality(missed \cap slice) \in Nat
          BY <1>8, FS_Subset, FS_CardinalityType
        <4>7. /\ Cardinality(UnseenTo(i)') \in Nat
              /\ Cardinality(UnseenTo(i)') <= Cardinality(missed \cup slice)
          BY <4>3, <4>5, FS_Subset, FS_CardinalityType
        <4>8. Cardinality(UnseenTo(i)') <= departed + (b - a)
          BY <1>2, <1>8, <4>1, <4>2, <4>4, <4>5, <4>6, <4>7
        <4>9. Cardinality(UnseenTo(i)') + Offset' <= departed + Rank(i) + 1
          BY <1>2, <2>1, <3>1, <4>7, <4>8 DEF a, b
        <4> QED BY <4>9
      <3> QED BY <1>9, <3>3, <3>4
    <2>3. Missed'
      BY <1>1, <1>5, <2>2 DEF Missed
    <2>4. PagesCover'
      BY <1>2, <2>1 DEF PagesCover
    <2> QED BY <1>6, <2>3, <2>4 DEF PagesInv
  <1>11. CASE Cardinality(items) # PageSize
    <2>1. page' = 0
      BY <1>1, <1>11
    <2>2. ASSUME NEW i \in Unseen' PROVE i \in missed
      <3>1. i \in rows /\ i \in Unseen
        BY <1>3, <1>7
      <3>2. ASSUME Rank(i) >= Offset + PageSize PROVE FALSE
        <4> DEFINE a == Offset
                   b == Offset + PageSize
        <4>1. a \in Nat /\ b \in Nat /\ a <= b /\ b - a = PageSize
          BY <1>2
        <4>2. \E m \in rows : RankIn(rows, m) >= b
          BY <3>1, <3>2 DEF Rank
        <4>3. items = {j \in rows : a <= RankIn(rows, j) /\ RankIn(rows, j) < b}
          BY DEF Rank
        <4> HIDE DEF a, b, rows, items
        <4>4. Cardinality(items) = b - a
          BY <1>3, <4>1, <4>2, <4>3, RankSlice
        <4> QED BY <1>11, <4>1, <4>4
      <3> QED BY <1>9, <3>1, <3>2
    <2>3. Unseen' \subseteq missed
      BY <2>2
    <2>4. Cardinality(Unseen') <= Cardinality(missed) /\ Cardinality(Unseen') \in Nat
      BY <1>8, <2>3, FS_Subset, FS_CardinalityType
    <2> HIDE DEF missed
    <2>5. PagesCover'
      BY <1>1, <1>2, <1>8, <2>4 DEF PagesCover, Unseen
    <2>6. Missed'
      BY <2>1 DEF Missed
    <2> QED BY <1>6, <2>5, <2>6 DEF PagesInv
  <1> QED BY <1>10, <1>11

\* Statements that change nothing a listing depends on.
LEMMA QuietPages ==
  ASSUME PagesInv, UNCHANGED <<book, records, lastId, query, page, seen, stayed, departed>>
  PROVE  PagesInv'
  BY DEF PagesInv, AdminType, Missed, PagesCover, Unseen, UnseenTo, Offset, Rank, RankIn,
         Matching, Matches

LEMMA InsertKeeps ==
  ASSUME PagesInv, NEW e, NEW id \in Nat, NEW r, Insert(e, id, r)
  PROVE  PagesInv'
  <1> DEFINE new == [i \in DOMAIN records \cup {id} |-> IF i = id THEN r ELSE records[i]]
  <1>1. Change(new) /\ lastId' = Max({lastId, id})
    BY DEF Insert
  <1>2. IsFiniteSet(DOMAIN new) /\ DOMAIN new \subseteq Nat
    BY FS_AddElement DEF PagesInv, AdminType
  <1>3. lastId' \in Nat
    <2>1. lastId \in Nat
      BY DEF PagesInv, AdminType
    <2>2. \E x \in {lastId, id} : \A y \in {lastId, id} : x >= y
      BY <2>1
    <2> QED BY <1>1, <2>1, <2>2 DEF Max
  <1> HIDE DEF new
  <1> QED BY <1>1, <1>2, <1>3, ChangeKeeps

LEMMA PagesStep == PagesInv /\ [AdminNext]_adminVars => PagesInv'
  <1> SUFFICES ASSUME PagesInv, [AdminNext]_adminVars PROVE PagesInv'
    OBVIOUS
  <1>0. /\ IsFiniteSet(DOMAIN records) /\ DOMAIN records \subseteq Nat
        /\ lastId \in Nat /\ 1 .. lastId \subseteq Nat /\ 1 .. lastId + 2 \subseteq Nat
    BY DEF PagesInv, AdminType
  <1>1. CASE ListPage
    BY <1>1, ListKeeps
  <1>2. ASSUME NEW e \in Editors, Create(e) \/ CreateGiven(e) PROVE PagesInv'
    <2>1. PICK id \in Nat, r \in Rows(book) : Insert(e, id, r)
      BY <1>0, <1>2 DEF Create, CreateGiven
    <2> QED BY <2>1, InsertKeeps
  <1>3. ASSUME NEW e \in Editors, NEW id \in 1 .. lastId, Reread(e) \/ Ask(e, id)
        PROVE  PagesInv'
    BY <1>3, QuietPages DEF Reread, Ask, Same
  <1>4. ASSUME NEW e \in Editors, NEW id \in 1 .. lastId, Update(e, id) PROVE PagesInv'
    <2>1. CASE id \in DOMAIN records
      <3>1. PICK r : Change([records EXCEPT ![id] = r])
        BY <1>4, <2>1 DEF Update
      <3>2. DOMAIN [records EXCEPT ![id] = r] = DOMAIN records
        OBVIOUS
      <3>3. lastId' = lastId
        BY <1>4 DEF Update
      <3> QED BY <1>0, <3>1, <3>2, <3>3, ChangeKeeps
    <2>2. CASE id \notin DOMAIN records
      BY <1>4, <2>2, QuietPages DEF Update
    <2> QED BY <2>1, <2>2
  <1>5. ASSUME NEW e \in Editors, NEW id \in 1 .. lastId, Delete(e, id) PROVE PagesInv'
    <2>1. CASE id \in DOMAIN records
      <3> DEFINE new == [i \in DOMAIN records \ {id} |-> records[i]]
      <3>1. Change(new) /\ lastId' = lastId
        BY <1>5, <2>1 DEF Delete
      <3>2. IsFiniteSet(DOMAIN new) /\ DOMAIN new \subseteq Nat
        BY <1>0, FS_RemoveElement
      <3> HIDE DEF new
      <3> QED BY <1>0, <3>1, <3>2, ChangeKeeps
    <2>2. CASE id \notin DOMAIN records
      BY <1>5, <2>2, QuietPages DEF Delete
    <2> QED BY <2>1, <2>2
  <1>6. ASSUME NEW e \in Editors, Reread(e) PROVE PagesInv'
    BY <1>6, QuietPages DEF Reread, Same
  <1>7. CASE UNCHANGED adminVars
    BY <1>7, QuietPages DEF adminVars
  <1> QED BY <1>1, <1>2, <1>3, <1>4, <1>5, <1>6, <1>7 DEF AdminNext

LEMMA PagesInit == AdminInit => PagesInv
  <1> SUFFICES ASSUME AdminInit PROVE PagesInv
    OBVIOUS
  <1>1. DOMAIN records = 1 .. FirstRows /\ FirstRows \in Nat
    BY AdminAssumption DEF AdminInit
  <1>2. IsFiniteSet(DOMAIN records) /\ DOMAIN records \subseteq Nat
    BY <1>1, FS_Interval
  <1>3. stayed = Matching(records)
    BY <1>1 DEF AdminInit, Matching, Matches
  <1>4. AdminType
    BY <1>1, <1>2, <1>3 DEF AdminType, AdminInit
  <1>5. page = 1 /\ departed = 0 /\ seen = {}
    BY DEF AdminInit
  <1>6. Offset = 0
    BY <1>5, AdminAssumption DEF Offset
  <1>7. ASSUME NEW i \in Unseen
        PROVE  Cardinality(UnseenTo(i)) + Offset <= departed + Rank(i) + 1
    <2> DEFINE S == {j \in Matching(records) : j > i}
    <2>1. /\ IsFiniteSet(Matching(records)) /\ Matching(records) \subseteq Nat /\ i \in Nat
      BY <1>4, Finite
    <2>2. IsFiniteSet(S) /\ Rank(i) = Cardinality(S) /\ Cardinality(S) \in Nat
      BY <2>1, RankOrder DEF Rank, RankIn
    <2>3. UnseenTo(i) \subseteq S \cup {i}
      BY <1>3, <2>1 DEF UnseenTo, Unseen
    <2> HIDE DEF S
    <2>4. /\ IsFiniteSet(S \cup {i})
          /\ Cardinality(S \cup {i}) = IF i \in S THEN Cardinality(S) ELSE Cardinality(S) + 1
      BY <2>2, FS_AddElement
    <2>5. /\ Cardinality(UnseenTo(i)) <= Cardinality(S \cup {i})
          /\ Cardinality(UnseenTo(i)) \in Nat
      BY <2>3, <2>4, FS_Subset, FS_CardinalityType
    <2> QED BY <1>5, <1>6, <2>2, <2>4, <2>5
  <1> QED BY <1>4, <1>5, <1>7 DEF PagesInv, Missed, PagesCover

\* A walk through the pages of a listing, from the first to one that is not full,
\* has shown every row that matched all the time, but for one for each row that
\* has left the listing on the way.
THEOREM WalkMissesFew == AdminSpec => []PagesCover
  <1>1. PagesInv => PagesCover
    BY DEF PagesInv
  <1> QED BY <1>1, PagesInit, PagesStep, PTL DEF AdminSpec
=============================================================================
