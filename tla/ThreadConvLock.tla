--------------------------- MODULE ThreadConvLock ---------------------------
(***************************************************************************)
(* The per-conversation threading locks of chat/_conversation_ctx.py, which*)
(* _save_stream_history takes around a save.  It runs in pool threads, and *)
(* nothing protects the dictionary itself, so _get_thread_conv_lock is a   *)
(* sequence of steps that other threads interleave with.  A step ends      *)
(* where the interpreter may switch threads: pyproject.toml asks for       *)
(* Python 3.11 or later, where that is after a call (len, list, pop,       *)
(* Lock()), not between the subscript store and the return that follows.   *)
(* threading.Lock is not fair: any blocked thread may get it.              *)
(***************************************************************************)
EXTENDS LockRegistry, FiniteSets

CONSTANTS Threads     \* pool threads

VARIABLES order,      \* keys of _conv_thread_locks in insertion order
          lockOf,     \* _conv_thread_locks
          pc,         \* where the thread is
          conv,       \* conv_id of the save
          lock,       \* the lock object _get_thread_conv_lock returned
          victims     \* keys the thread has still to pop

vars == <<order, lockOf, pc, conv, lock, victims>>

TypeOK ==
    /\ order \in Seq(Convs)
    /\ lockOf \in [Convs -> Locks \cup {NoLock}]
    /\ \A c \in Convs : Contains(order, c) <=> lockOf[c] # NoLock
    /\ \A i, j \in DOMAIN order : order[i] = order[j] => i = j
    /\ pc \in [Threads -> {"idle", "evict", "pop", "store", "blocked", "saving"}]
    /\ conv \in [Threads -> Convs \cup {NoConv}]
    /\ lock \in [Threads -> Locks \cup {NoLock}]
    /\ victims \in [Threads -> Seq(Convs)]

-----------------------------------------------------------------------------
\* Operators named Faulty... are plausible bugs, never used by Spec: each
\* run's properties must reject the specification in which one replaces the
\* definition that follows it.

Init ==
    /\ order = <<>>
    /\ lockOf = [c \in Convs |-> NoLock]
    /\ pc = [t \in Threads |-> "idle"]
    /\ conv = [t \in Threads |-> NoConv]
    /\ lock = [t \in Threads |-> NoLock]
    /\ victims = [t \in Threads |-> <<>>]

InUse == {lockOf[c] : c \in Convs} \cup {lock[t] : t \in Threads}

Known(c) == lockOf[c] # NoLock

FaultyBegin(t, c) ==
    /\ pc[t] = "idle"
    /\ pc' = [pc EXCEPT ![t] = IF OverLimit(order) THEN "evict" ELSE "store"]
    /\ conv' = [conv EXCEPT ![t] = c]
    /\ UNCHANGED <<order, lockOf, lock, victims>>

\* A save begins: "conv_id not in _conv_thread_locks", then the size test,
\* or the return of the lock that is registered.
Begin(t, c) ==
    /\ pc[t] = "idle"
    /\ \/ /\ Known(c)
          /\ lock' = [lock EXCEPT ![t] = lockOf[c]]
          /\ pc' = [pc EXCEPT ![t] = "blocked"]
       \/ /\ ~Known(c)
          /\ pc' = [pc EXCEPT ![t] = IF OverLimit(order) THEN "evict" ELSE "store"]
          /\ UNCHANGED lock
    /\ conv' = [conv EXCEPT ![t] = c]
    /\ UNCHANGED <<order, lockOf, victims>>

\* keys = list(...keys()): the dictionary may have changed since the test.
Snapshot(t) ==
    /\ pc[t] = "evict"
    /\ victims' = [victims EXCEPT ![t] = OldHalf(order)]
    /\ pc' = [pc EXCEPT ![t] = "pop"]
    /\ UNCHANGED <<order, lockOf, conv, lock>>

\* pop(key, None): the key may be gone, or be back with another lock.
Pop(t) ==
    /\ pc[t] = "pop" /\ victims[t] # <<>>
    /\ LET key == Head(victims[t])
       IN  /\ order' = SelectSeq(order, LAMBDA k : k # key)
           /\ lockOf' = [lockOf EXCEPT ![key] = NoLock]
    /\ victims' = [victims EXCEPT ![t] = Tail(@)]
    /\ UNCHANGED <<pc, conv, lock>>

PopsDone(t) ==
    /\ pc[t] = "pop" /\ victims[t] = <<>>
    /\ pc' = [pc EXCEPT ![t] = "store"]
    /\ UNCHANGED <<order, lockOf, conv, lock, victims>>

\* Storing under a key that is there keeps the key's place.
WithKey(c) == IF Contains(order, c) THEN order ELSE Append(order, c)

\* The new lock replaces whatever another thread registered meanwhile.
Store(t) ==
    /\ pc[t] = "store"
    /\ order' = WithKey(conv[t])
    /\ \E l \in Locks :
          /\ IsNew(l, InUse)
          /\ lockOf' = [lockOf EXCEPT ![conv[t]] = l]
          /\ lock' = [lock EXCEPT ![t] = l]
    /\ pc' = [pc EXCEPT ![t] = "blocked"]
    /\ UNCHANGED <<conv, victims>>

Held(l) == \E t \in Threads : pc[t] = "saving" /\ lock[t] = l

Acquire(t) ==
    /\ pc[t] = "blocked"
    /\ ~Held(lock[t])
    /\ pc' = [pc EXCEPT ![t] = "saving"]
    /\ UNCHANGED <<order, lockOf, conv, lock, victims>>

\* The save returns; its exceptions are caught inside the with block.
Finish(t) ==
    /\ pc[t] = "saving"
    /\ pc' = [pc EXCEPT ![t] = "idle"]
    /\ conv' = [conv EXCEPT ![t] = NoConv]
    /\ lock' = [lock EXCEPT ![t] = NoLock]
    /\ UNCHANGED <<order, lockOf, victims>>

Step(t) == Snapshot(t) \/ Pop(t) \/ PopsDone(t) \/ Store(t) \/ Finish(t)

Next ==
    \E t \in Threads :
        \/ \E c \in Convs : Begin(t, c)
        \/ Step(t)
        \/ Acquire(t)

Spec == Init /\ [][Next]_vars

-----------------------------------------------------------------------------
ExclusiveFor(c) ==
    \A t, u \in Threads :
        /\ conv[t] = c /\ conv[u] = c
        /\ pc[t] = "saving" /\ pc[u] = "saving"
        => t = u

\* "Use a per-conv threading lock to serialize synchronous history saves"
\* (_conversation_ctx.py:190).  The first saves of a conversation can overlap,
\* each under a lock of its own; but as long as nothing is evicted, once its lock
\* is registered and none of its saves is under way, its saves exclude each
\* other for good.
SettledIsExclusive ==
    \A c \in Convs :
        [](Len(order) <= LocksMax) =>
            [](Known(c) /\ (\A t \in Threads : conv[t] # c) => []ExclusiveFor(c))
=============================================================================
