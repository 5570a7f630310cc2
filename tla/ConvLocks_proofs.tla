-------------------------- MODULE ConvLocks_proofs --------------------------
(***************************************************************************)
(* Proofs about the two registries of conversation locks, for every set of *)
(* tasks, threads, conversations and locks and every limit that            *)
(* RegistryAssumption admits.                                              *)
(***************************************************************************)
EXTENDS MCConvLocks, SequenceTheorems, TLAPS

-----------------------------------------------------------------------------
(* The registry of the event loop.                                         *)

\* Evicting the older half keeps only keys that were there, as a sequence
\* that is shorter by half.
LEMMA YoungHalfFacts ==
  ASSUME NEW keys \in Seq(Convs)
  PROVE  /\ YoungHalf(keys) \in Seq(Convs)
         /\ Len(YoungHalf(keys)) = Len(keys) - Len(keys) \div 2
         /\ \A i \in 1 .. Len(YoungHalf(keys)) :
               YoungHalf(keys)[i] = keys[i + Len(keys) \div 2]
<1> DEFINE h == Len(keys) \div 2
<1>1. Len(keys) \in Nat /\ h \in Nat /\ h <= Len(keys)
  BY LenProperties
<1>2. \A i \in h + 1 .. Len(keys) : keys[i] \in Convs
  BY <1>1, ElementOfSeq
<1>3. /\ SubSeq(keys, h + 1, Len(keys)) \in Seq(Convs)
      /\ Len(SubSeq(keys, h + 1, Len(keys))) =
            IF h + 1 <= Len(keys) THEN Len(keys) - (h + 1) + 1 ELSE 0
      /\ \A i \in 1 .. Len(keys) - (h + 1) + 1 :
            SubSeq(keys, h + 1, Len(keys))[i] = keys[h + 1 + i - 1]
  <2> HIDE DEF h
  <2> QED BY <1>1, <1>2, SubSeqProperties
<1>4. YoungHalf(keys) = SubSeq(keys, h + 1, Len(keys))
  BY DEF YoungHalf
<1>5. Len(YoungHalf(keys)) = Len(keys) - h
  <2> HIDE DEF h
  <2> QED BY <1>1, <1>3, <1>4
<1>6. \A i \in 1 .. Len(YoungHalf(keys)) : YoungHalf(keys)[i] = keys[i + h]
  <2> HIDE DEF h
  <2>1. \A i \in 1 .. Len(keys) - h : h + 1 + i - 1 = i + h
    BY <1>1
  <2>2. Len(keys) - (h + 1) + 1 = Len(keys) - h
    BY <1>1
  <2> QED BY <1>1, <1>3, <1>4, <1>5, <2>1, <2>2
<1> QED
  BY <1>3, <1>4, <1>5, <1>6

\* Appending one key adds exactly that key.
LEMMA AppendContains ==
  ASSUME NEW keys \in Seq(Convs), NEW c \in Convs, NEW d \in Convs
  PROVE  Contains(Append(keys, c), d) <=> Contains(keys, d) \/ d = c
<1>1. /\ Append(keys, c) \in Seq(Convs)
      /\ Len(Append(keys, c)) = Len(keys) + 1
      /\ \A i \in 1 .. Len(keys) : Append(keys, c)[i] = keys[i]
      /\ Append(keys, c)[Len(keys) + 1] = c
  BY AppendProperties
<1>2. /\ DOMAIN keys = 1 .. Len(keys)
      /\ DOMAIN Append(keys, c) = 1 .. Len(keys) + 1
      /\ Len(keys) \in Nat
  BY <1>1, LenProperties
<1>3. Contains(keys, d) => Contains(Append(keys, c), d)
  BY <1>1, <1>2 DEF Contains
<1>4. d = c => Contains(Append(keys, c), d)
  <2>1. Len(keys) + 1 \in DOMAIN Append(keys, c)
    BY <1>2
  <2> QED BY <1>1, <2>1 DEF Contains
<1>5. ASSUME Contains(Append(keys, c), d)
      PROVE  Contains(keys, d) \/ d = c
  <2>1. PICK i \in 1 .. Len(keys) + 1 : Append(keys, c)[i] = d
    BY <1>2, <1>5 DEF Contains
  <2>2. CASE i = Len(keys) + 1
    BY <1>1, <2>1, <2>2
  <2>3. CASE i \in 1 .. Len(keys)
    BY <1>1, <1>2, <2>1, <2>3 DEF Contains
  <2> QED BY <1>2, <2>2, <2>3
<1> QED BY <1>3, <1>4, <1>5

\* The keys left after a size check, and how many they are.
Kept == IF OverLimit(order) THEN YoungHalf(order) ELSE order

LEMMA KeptFacts ==
  ASSUME TypeOK, RegistryBound
  PROVE  /\ Kept \in Seq(Convs)
         /\ Len(Kept) <= LocksMax
         /\ \A d \in Convs : Contains(Kept, d) => lockOf[d] # NoLock
<1>1. order \in Seq(Convs) /\ Len(order) \in Nat /\ DOMAIN order = 1 .. Len(order)
  BY LenProperties DEF TypeOK
<1>2. CASE ~OverLimit(order)
  BY <1>1, <1>2, RegistryAssumption DEF Kept, OverLimit, TypeOK
<1>3. CASE OverLimit(order)
  <2>1. Len(order) = LocksMax + 1 /\ Len(order) \div 2 >= 1
    <3> DEFINE n == Len(order)
    <3>1. LocksMax \in Nat /\ LocksMax >= 1
      BY RegistryAssumption
    <3>2. n \in Nat /\ n > LocksMax /\ n <= LocksMax + 1
      BY <1>1, <1>3 DEF OverLimit, RegistryBound
    <3> HIDE DEF n
    <3>3. n = LocksMax + 1 /\ n \div 2 >= 1
      BY <3>1, <3>2
    <3> QED BY <3>3 DEF n
  <2>2. Kept = YoungHalf(order)
    BY <1>3 DEF Kept
  <2>3. \A d \in Convs : Contains(Kept, d) => Contains(order, d)
    <3> SUFFICES ASSUME NEW d \in Convs, Contains(Kept, d)
                 PROVE  Contains(order, d)
      OBVIOUS
    <3>1. PICK i \in 1 .. Len(Kept) : Kept[i] = d
      BY <1>1, <2>2, YoungHalfFacts, LenProperties DEF Contains
    <3>2. /\ Kept[i] = order[i + Len(order) \div 2]
          /\ Len(Kept) = Len(order) - Len(order) \div 2
      BY <1>1, <2>2, <3>1, YoungHalfFacts
    <3>3. i + Len(order) \div 2 \in 1 .. Len(order)
      BY <1>1, <3>1, <3>2
    <3> QED BY <1>1, <3>1, <3>2, <3>3 DEF Contains
  <2> QED
    BY <1>1, <2>1, <2>2, <2>3, YoungHalfFacts, RegistryAssumption DEF TypeOK
<1> QED BY <1>2, <1>3

\* What a call of _get_conv_lock does to the registry.
LEMMA GetLockFacts ==
  ASSUME TypeOK, RegistryBound, NEW c \in Convs, NEW l \in Locks, GetLock(c, l)
  PROVE  /\ order' \in Seq(Convs)
         /\ lockOf' \in [Convs -> Locks \cup {NoLock}]
         /\ \A d \in Convs : Contains(order', d) <=> lockOf'[d] # NoLock
         /\ Len(order') <= LocksMax + 1
         /\ lockOf'[c] = l
         /\ dropped' \subseteq Tasks
<1>0. dropped' \subseteq Tasks
  BY DEF GetLock, TypeOK
<1>1. CASE Known(c) /\ l = lockOf[c] /\ UNCHANGED <<order, lockOf>>
  BY <1>0, <1>1 DEF TypeOK, RegistryBound
<1>2. CASE ~Known(c) /\ Register(c, Kept, l)
  <2>1. /\ Kept \in Seq(Convs)
        /\ Len(Kept) <= LocksMax
        /\ \A d \in Convs : Contains(Kept, d) => lockOf[d] # NoLock
    BY KeptFacts
  <2>2. order' = Append(Kept, c) /\ lockOf' = [Forget(Kept) EXCEPT ![c] = l]
    BY <1>2 DEF Register
  <2>3. l # NoLock
    BY RegistryAssumption DEF NoLock
  <2>4. order' \in Seq(Convs) /\ Len(order') <= LocksMax + 1
    <3>1. Len(Kept) \in Nat /\ Len(order') = Len(Kept) + 1
      BY <2>1, <2>2, AppendProperties, LenProperties
    <3> QED BY <2>1, <2>2, <3>1, AppendProperties, RegistryAssumption
  <2>5. lockOf' \in [Convs -> Locks \cup {NoLock}] /\ lockOf'[c] = l
    BY <2>2 DEF TypeOK, Forget
  <2>6. \A d \in Convs : Contains(order', d) <=> lockOf'[d] # NoLock
    <3> SUFFICES ASSUME NEW d \in Convs
                 PROVE  Contains(order', d) <=> lockOf'[d] # NoLock
      OBVIOUS
    <3>1. Contains(order', d) <=> Contains(Kept, d) \/ d = c
      BY <2>1, <2>2, AppendContains
    <3>2. lockOf'[d] = IF d = c THEN l
                       ELSE IF Contains(Kept, d) THEN lockOf[d] ELSE NoLock
      BY <2>2 DEF Forget
    <3> QED BY <2>1, <2>3, <3>1, <3>2
  <2> QED BY <1>0, <2>4, <2>5, <2>6
<1> QED BY <1>1, <1>2 DEF GetLock, Kept

-----------------------------------------------------------------------------
RegistryInv == TypeOK /\ RegistryBound

LEMMA RegistryInvStep == RegistryInv /\ [Next]_vars => RegistryInv'
<1> SUFFICES ASSUME RegistryInv, [Next]_vars
             PROVE  RegistryInv'
  OBVIOUS
<1> USE DEF RegistryInv
<1>1. ASSUME NEW t \in Tasks, NEW c \in Convs, Request(t, c)
      PROVE  RegistryInv'
  <2>1. PICK l \in Locks :
           /\ GetLock(c, l)
           /\ lock' = [lock EXCEPT ![t] = l]
           /\ \/ /\ pc' = [pc EXCEPT ![t] = "merging"]
                 /\ UNCHANGED queue
              \/ /\ pc' = [pc EXCEPT ![t] = "waiting"]
                 /\ queue' = Append(queue, t)
    BY <1>1 DEF Request
  <2>2. conv' = [conv EXCEPT ![t] = c]
    BY <1>1 DEF Request
  <2>3. queue' \in Seq(Tasks)
    <3>1. queue \in Seq(Tasks) /\ Append(queue, t) \in Seq(Tasks)
      BY AppendProperties DEF TypeOK
    <3> QED BY <2>1, <3>1
  <2>4. /\ order' \in Seq(Convs)
        /\ lockOf' \in [Convs -> Locks \cup {NoLock}]
        /\ \A d \in Convs : Contains(order', d) <=> lockOf'[d] # NoLock
        /\ Len(order') <= LocksMax + 1
        /\ dropped' \subseteq Tasks
    BY <2>1, GetLockFacts
  <2>5. /\ pc' \in [Tasks -> {"idle", "waiting", "merging"}]
        /\ lock' \in [Tasks -> Locks \cup {NoLock}]
        /\ conv' \in [Tasks -> Convs \cup {NoConv}]
    BY <2>1, <2>2 DEF TypeOK
  <2> QED BY <2>3, <2>4, <2>5 DEF TypeOK, RegistryBound
<1>2. ASSUME NEW t \in Tasks, Acquire(t)
      PROVE  RegistryInv'
  <2>1. PICK i \in DOMAIN queue :
           queue' = SubSeq(queue, 1, i - 1) \o SubSeq(queue, i + 1, Len(queue))
    BY <1>2 DEF Acquire
  <2>2. queue \in Seq(Tasks) /\ Len(queue) \in Nat /\ i \in 1 .. Len(queue)
    BY <2>1, LenProperties DEF TypeOK
  <2>3. /\ \A j \in 1 .. i - 1 : queue[j] \in Tasks
        /\ \A j \in i + 1 .. Len(queue) : queue[j] \in Tasks
    BY <2>2, ElementOfSeq
  <2>4. SubSeq(queue, 1, i - 1) \in Seq(Tasks)
    BY <2>2, <2>3, SubSeqProperties
  <2>5. SubSeq(queue, i + 1, Len(queue)) \in Seq(Tasks)
    BY <2>2, <2>3, SubSeqProperties
  <2>6. queue' \in Seq(Tasks)
    BY <2>1, <2>4, <2>5, ConcatProperties
  <2>7. /\ UNCHANGED <<order, lockOf, conv, lock, dropped>>
        /\ pc' \in [Tasks -> {"idle", "waiting", "merging"}]
    BY <1>2 DEF Acquire, TypeOK
  <2> QED BY <2>6, <2>7 DEF TypeOK, RegistryBound, Contains
<1>3. ASSUME NEW t \in Tasks, Finish(t)
      PROVE  RegistryInv'
  BY <1>3 DEF Finish, TypeOK, RegistryBound, Contains
<1>4. CASE UNCHANGED vars
  BY <1>4 DEF vars, TypeOK, RegistryBound, Contains
<1> QED
  BY <1>1, <1>2, <1>3, <1>4 DEF Next

LEMMA RegistryInvInit == Init => RegistryInv
<1> SUFFICES ASSUME Init PROVE RegistryInv
  OBVIOUS
<1>1. order = <<>> /\ order \in Seq(Convs) /\ Len(order) = 0 /\ queue \in Seq(Tasks)
  BY EmptySeq DEF Init
<1>2. \A c \in Convs : ~Contains(order, c)
  BY <1>1, LenProperties DEF Contains
<1> QED
  BY <1>1, <1>2, RegistryAssumption DEF Init, RegistryInv, TypeOK, RegistryBound

\* Every variable keeps its type, and the dictionary's keys are those that
\* have a lock, through every look-up, eviction and release.
THEOREM TypeCorrect == Spec => []TypeOK
<1>1. RegistryInv => TypeOK
  BY DEF RegistryInv
<1> QED
  BY <1>1, RegistryInvInit, RegistryInvStep, PTL DEF Spec

\* The dictionary never holds more than CONV_LOCKS_MAX + 1 locks.
THEOREM RegistryStaysBounded == Spec => []RegistryBound
<1>1. RegistryInv => RegistryBound
  BY DEF RegistryInv
<1> QED
  BY <1>1, RegistryInvInit, RegistryInvStep, PTL DEF Spec

-----------------------------------------------------------------------------
\* The argument for mutual exclusion: a task that waits or merges has the lock
\* that is registered for its conversation, unless that lock was evicted, so
\* two tasks of one conversation compete for one lock object.
Current ==
    \A t \in Tasks :
        pc[t] # "idle" /\ t \notin dropped =>
            conv[t] \in Convs /\ lock[t] = lockOf[conv[t]] /\ lock[t] # NoLock

OneHolder ==
    \A t, u \in Tasks :
        pc[t] = "merging" /\ pc[u] = "merging" /\ lock[t] = lock[u] => t = u

ExclusionInv == RegistryInv /\ Current /\ OneHolder

\* A key that is not in the evicted half stays.
LEMMA HalvesCover ==
  ASSUME NEW keys \in Seq(Convs), NEW d \in Convs,
         Contains(keys, d), ~Contains(OldHalf(keys), d)
  PROVE  Contains(YoungHalf(keys), d)
<1> DEFINE h == Len(keys) \div 2
           n == Len(YoungHalf(keys))
<1>1. Len(keys) \in Nat /\ h \in Nat /\ h <= Len(keys) /\ DOMAIN keys = 1 .. Len(keys)
  BY LenProperties
<1>2. YoungHalf(keys) \in Seq(Convs) /\ n = Len(keys) - h
      /\ \A i \in 1 .. n : YoungHalf(keys)[i] = keys[i + h]
  BY YoungHalfFacts
<1>3. DOMAIN YoungHalf(keys) = 1 .. n
  BY <1>2, LenProperties
<1>4. PICK i \in 1 .. Len(keys) : keys[i] = d
  BY <1>1 DEF Contains
<1>5. CASE i <= h
  <2>1. \A j \in 1 .. h : keys[j] \in Convs
    BY <1>1, ElementOfSeq
  <2>2. /\ OldHalf(keys) \in Seq(Convs)
        /\ Len(OldHalf(keys)) = IF 1 <= h THEN h - 1 + 1 ELSE 0
        /\ \A j \in 1 .. h - 1 + 1 : OldHalf(keys)[j] = keys[1 + j - 1]
    <3>1. OldHalf(keys) = SubSeq(keys, 1, h)
      BY DEF OldHalf
    <3> HIDE DEF h
    <3> QED BY <1>1, <2>1, <3>1, SubSeqProperties
  <2>3. i \in 1 .. h - 1 + 1 /\ 1 + i - 1 = i /\ Len(OldHalf(keys)) = h
    <3> HIDE DEF h
    <3> QED BY <1>1, <1>5, <2>2
  <2>4. OldHalf(keys)[i] = d /\ i \in DOMAIN OldHalf(keys)
    <3> HIDE DEF h
    <3> QED BY <1>1, <1>4, <1>5, <2>2, <2>3, LenProperties
  <2> QED BY <2>4 DEF Contains
<1>6. CASE i > h
  <2> HIDE DEF h, n
  <2>1. i - h \in 1 .. n /\ i - h + h = i
    BY <1>1, <1>2, <1>6
  <2>2. YoungHalf(keys)[i - h] = d
    BY <1>2, <1>4, <2>1
  <2> QED BY <1>3, <2>1, <2>2 DEF Contains
<1> QED BY <1>1, <1>5, <1>6

\* So a look-up leaves the lock of every task that it does not drop.
LEMMA GetLockKeepsOthers ==
  ASSUME ExclusionInv, NEW c \in Convs, NEW l \in Locks, GetLock(c, l),
         NEW t \in Tasks, pc[t] # "idle", t \notin dropped'
  PROVE  t \notin dropped /\ lockOf'[conv[t]] = lockOf[conv[t]]
<1> USE DEF ExclusionInv, RegistryInv
<1>1. t \notin dropped
  BY DEF GetLock
<1>2. /\ conv[t] \in Convs /\ lockOf[conv[t]] # NoLock /\ Contains(order, conv[t])
      /\ order \in Seq(Convs)
  BY <1>1 DEF Current, TypeOK
<1>3. CASE UNCHANGED lockOf
  BY <1>1, <1>3
<1>4. ASSUME NEW keys, Contains(keys, conv[t]), ~Known(c), Register(c, keys, l)
      PROVE  lockOf'[conv[t]] = lockOf[conv[t]]
  <2>1. conv[t] # c
    BY <1>2, <1>4 DEF Known
  <2> QED BY <1>2, <1>4, <2>1 DEF Register, Forget
<1>5. CASE ~Known(c) /\ Register(c, order, l)
  BY <1>1, <1>2, <1>4, <1>5
<1>6. CASE /\ ~Known(c) /\ Register(c, YoungHalf(order), l)
           /\ dropped' = dropped \cup {u \in Tasks : Contains(OldHalf(order), conv[u])}
  <2>1. ~Contains(OldHalf(order), conv[t])
    BY <1>6
  <2>2. Contains(YoungHalf(order), conv[t])
    BY <1>2, <2>1, HalvesCover
  <2> QED BY <1>1, <1>4, <1>6, <2>2
<1> QED
  BY <1>3, <1>5, <1>6 DEF GetLock

LEMMA ExclusionInvStep ==
  ASSUME ExclusionInv, [Next]_vars
  PROVE  ExclusionInv'
<1>0. RegistryInv'
  BY RegistryInvStep DEF ExclusionInv
<1> USE DEF ExclusionInv
<1>1. ASSUME NEW t \in Tasks, NEW c \in Convs, Request(t, c)
      PROVE  Current' /\ OneHolder'
  <2>1. PICK l \in Locks :
           /\ GetLock(c, l)
           /\ lock' = [lock EXCEPT ![t] = l]
           /\ \/ /\ ~Held(l)
                 /\ pc' = [pc EXCEPT ![t] = "merging"]
              \/ pc' = [pc EXCEPT ![t] = "waiting"]
    BY <1>1 DEF Request
  <2>2. conv' = [conv EXCEPT ![t] = c] /\ pc[t] = "idle"
    BY <1>1 DEF Request
  <2>3. /\ lockOf'[c] = l
        /\ \A u \in Tasks : pc[u] # "idle" /\ u \notin dropped' =>
              u \notin dropped /\ lockOf'[conv[u]] = lockOf[conv[u]]
    BY <2>1, GetLockKeepsOthers, GetLockFacts DEF RegistryInv
  <2>4. l # NoLock
    BY RegistryAssumption DEF NoLock
  <2>5. Current'
    BY <2>1, <2>2, <2>3, <2>4 DEF Current, RegistryInv, TypeOK
  <2>6. OneHolder'
    BY <2>1, <2>2 DEF OneHolder, Held, RegistryInv, TypeOK
  <2> QED BY <2>5, <2>6
<1>2. ASSUME NEW t \in Tasks, Acquire(t)
      PROVE  Current' /\ OneHolder'
  <2>1. /\ pc[t] = "waiting" /\ ~Held(lock[t])
        /\ pc' = [pc EXCEPT ![t] = "merging"]
        /\ UNCHANGED <<order, lockOf, conv, lock, dropped>>
    BY <1>2 DEF Acquire
  <2> QED
    BY <2>1 DEF Current, OneHolder, Held, RegistryInv, TypeOK
<1>3. ASSUME NEW t \in Tasks, Finish(t)
      PROVE  Current' /\ OneHolder'
  BY <1>3 DEF Finish, Current, OneHolder, RegistryInv, TypeOK
<1>4. ASSUME UNCHANGED vars
      PROVE  Current' /\ OneHolder'
  BY <1>4 DEF vars, Current, OneHolder
<1> QED
  BY <1>0, <1>1, <1>2, <1>3, <1>4 DEF Next

\* Two requests never merge the history of one conversation at the same time,
\* unless the lock of one of them was evicted while it used it.
THEOREM MergesExcludeEachOther == Spec => []MergeExclusive
<1>1. Init => ExclusionInv
  BY RegistryInvInit DEF Init, ExclusionInv, Current, OneHolder
<1>2. ExclusionInv /\ [Next]_vars => ExclusionInv'
  BY ExclusionInvStep
<1>3. ExclusionInv => MergeExclusive
  BY DEF ExclusionInv, Current, OneHolder, MergeExclusive
<1> QED
  BY <1>1, <1>2, <1>3, PTL DEF Spec

-----------------------------------------------------------------------------
(* The threaded registry, while it evicts nothing.                         *)

\* Threads work for known conversations, and only one with a lock at a time.
SavesInv ==
    /\ savePc \in [Threads -> {"idle", "evict", "pop", "store", "blocked", "saving"}]
    /\ saveConv \in [Threads -> Convs \cup {NoConv}]
    /\ saveLock \in [Threads -> Locks \cup {NoLock}]
    /\ savesLock \in [Convs -> Locks \cup {NoLock}]
    /\ \A t \in Threads : savePc[t] \in {"evict", "store"} => saveConv[t] \in Convs
    /\ \A t, u \in Threads :
          savePc[t] = "saving" /\ savePc[u] = "saving" /\ saveLock[t] = saveLock[u] => t = u

\* No thread is evicting.
NoneEvicts == \A t \in Threads : savePc[t] \notin {"evict", "pop"}

\* A conversation whose lock is registered, and all of whose saves have it.
OneLock(c) ==
    /\ Saves!Known(c)
    /\ \A t \in Threads : saveConv[t] = c =>
          savePc[t] \in {"blocked", "saving"} /\ saveLock[t] = savesLock[c]

Small == Len(savesOrder) <= LocksMax

\* A step while the dictionary is small.
LEMMA SavesStep ==
  ASSUME SavesInv, NoneEvicts, Small, [Saves!Next]_(Saves!vars)
  PROVE  SavesInv' /\ NoneEvicts' /\ \A c \in Convs : OneLock(c) => OneLock(c)'
<1>0. ~Saves!OverLimit(savesOrder)
  BY RegistryAssumption DEF Small, Saves!OverLimit
<1>1. ASSUME NEW t \in Threads, NEW c \in Convs, Saves!Begin(t, c)
      PROVE  SavesInv' /\ NoneEvicts' /\ \A d \in Convs : OneLock(d) => OneLock(d)'
  BY <1>0, <1>1 DEF Saves!Begin, Saves!Known, SavesInv, NoneEvicts, OneLock
<1>2. ASSUME NEW t \in Threads, Saves!Store(t)
      PROVE  SavesInv' /\ NoneEvicts' /\ \A d \in Convs : OneLock(d) => OneLock(d)'
  BY <1>2 DEF Saves!Store, Saves!Known, SavesInv, NoneEvicts, OneLock
<1>3. ASSUME NEW t \in Threads, Saves!Acquire(t)
      PROVE  SavesInv' /\ NoneEvicts' /\ \A d \in Convs : OneLock(d) => OneLock(d)'
  BY <1>3 DEF Saves!Acquire, Saves!Held, Saves!Known, SavesInv, NoneEvicts, OneLock
<1>4. ASSUME NEW t \in Threads, Saves!Finish(t)
      PROVE  SavesInv' /\ NoneEvicts' /\ \A d \in Convs : OneLock(d) => OneLock(d)'
  BY <1>4, RegistryAssumption DEF Saves!Finish, Saves!NoConv, NoConv, Saves!NoLock, NoLock,
     Saves!Known, SavesInv, NoneEvicts, OneLock
<1>5. ASSUME NEW t \in Threads, Saves!Snapshot(t) \/ Saves!Pop(t) \/ Saves!PopsDone(t)
      PROVE  FALSE
  BY <1>5 DEF Saves!Snapshot, Saves!Pop, Saves!PopsDone, NoneEvicts
<1>6. CASE UNCHANGED Saves!vars
  BY <1>6 DEF Saves!vars, Saves!Known, SavesInv, NoneEvicts, OneLock
<1> QED
  BY <1>1, <1>2, <1>3, <1>4, <1>5, <1>6 DEF Saves!Next, Saves!Step

\* As long as no lock is evicted, a conversation whose lock is registered and
\* which has no save under way never sees two saves at once again, however many
\* threads and conversations there are.
THEOREM SettledSavesExclude == Saves!Spec => SettledIsExclusive
<1> SUFFICES ASSUME NEW c \in Convs
             PROVE  Saves!Spec /\ []Small =>
                      [](Saves!Known(c) /\ (\A t \in Threads : saveConv[t] # c)
                           => []Saves!ExclusiveFor(c))
  BY DEF SettledIsExclusive, Saves!SettledIsExclusive, Small
<1> DEFINE Quiet == Saves!Known(c) /\ (\A t \in Threads : saveConv[t] # c)
<1>1. Saves!Init => SavesInv /\ NoneEvicts
  BY DEF Saves!Init, SavesInv, NoneEvicts, Saves!NoConv, NoConv, Saves!NoLock, NoLock
<1>2. SavesInv /\ NoneEvicts /\ Small /\ [Saves!Next]_(Saves!vars) => SavesInv' /\ NoneEvicts'
  BY SavesStep
<1>3. SavesInv /\ NoneEvicts /\ Small /\ OneLock(c) /\ [Saves!Next]_(Saves!vars) => OneLock(c)'
  BY SavesStep
<1>4. Quiet => OneLock(c)
  BY DEF OneLock
<1>5. SavesInv /\ OneLock(c) => Saves!ExclusiveFor(c)
  BY DEF SavesInv, OneLock, Saves!ExclusiveFor
<1> QED
  BY <1>1, <1>2, <1>3, <1>4, <1>5, PTL DEF Saves!Spec, Quiet

\* A process that has both registries is each of them, and keeps what they promise.
THEOREM BothRegistries == MCSpec => []MergeExclusive /\ SettledIsExclusive
<1>1. MCInit => Init /\ Saves!Init
  BY DEF MCInit
<1>2. [MCNext]_<<vars, saveVars, used>> => [Next]_vars /\ [Saves!Next]_(Saves!vars)
  BY DEF MCNext, vars, saveVars, Saves!vars
<1>3. MCSpec => Spec /\ Saves!Spec
  BY <1>1, <1>2, PTL DEF MCSpec, Spec, Saves!Spec
<1> QED
  BY <1>3, MergesExcludeEachOther, SettledSavesExclude, PTL
=============================================================================
