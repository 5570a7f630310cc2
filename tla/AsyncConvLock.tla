---------------------------- MODULE AsyncConvLock ----------------------------
(***************************************************************************)
(* The per-conversation asyncio locks of chat/_conversation_ctx.py, which  *)
(* _merge_and_init_conversation holds while the stored history is merged   *)
(* into a request.  All tasks run on one event loop, so looking up (and    *)
(* evicting and registering) a lock and trying to take it is one step: the *)
(* first await that can suspend is inside acquire().  asyncio.Lock is fair *)
(* (a task that finds waiters queues behind them), and the merge itself    *)
(* runs in a thread while other tasks go on.  Requests are not cancelled   *)
(* in this phase: the handler has not returned a response yet.  A request  *)
(* without a conv_id gets a fresh one and takes no lock; it is left out.   *)
(***************************************************************************)
EXTENDS LockRegistry

CONSTANTS Tasks       \* requests in flight at a time

VARIABLES order,      \* keys of _conv_locks in insertion order
          lockOf,     \* _conv_locks
          pc,         \* "idle", "waiting" in acquire(), "merging"
          conv,       \* the task's conv_id
          lock,       \* the lock object the task got from _get_conv_lock
          queue,      \* waiting tasks in arrival order
          dropped     \* tasks whose lock was evicted while they held it or
                      \* waited for it

vars == <<order, lockOf, pc, conv, lock, queue, dropped>>

TypeOK ==
    /\ order \in Seq(Convs)
    /\ lockOf \in [Convs -> Locks \cup {NoLock}]
    /\ \A c \in Convs : Contains(order, c) <=> lockOf[c] # NoLock
    /\ pc \in [Tasks -> {"idle", "waiting", "merging"}]
    /\ conv \in [Tasks -> Convs \cup {NoConv}]
    /\ lock \in [Tasks -> Locks \cup {NoLock}]
    /\ queue \in Seq(Tasks)
    /\ dropped \subseteq Tasks

-----------------------------------------------------------------------------
\* Operators named Faulty... are plausible bugs, never used by Spec: each
\* run's properties must reject the specification in which one replaces the
\* definition that follows it.

Init ==
    /\ order = <<>>
    /\ lockOf = [c \in Convs |-> NoLock]
    /\ pc = [t \in Tasks |-> "idle"]
    /\ conv = [t \in Tasks |-> NoConv]
    /\ lock = [t \in Tasks |-> NoLock]
    /\ queue = <<>>
    /\ dropped = {}

InUse == {lockOf[c] : c \in Convs} \cup {lock[t] : t \in Tasks}

FaultyUnknown(c) == FALSE

Known(c) == lockOf[c] # NoLock

\* lockOf without the entries that are not in keys.
Forget(keys) == [d \in Convs |-> IF Contains(keys, d) THEN lockOf[d] ELSE NoLock]

Register(c, keys, l) ==
    /\ order' = Append(keys, c)
    /\ lockOf' = [Forget(keys) EXCEPT ![c] = l]

\* _get_conv_lock returns l.  The eviction does not look at whether a lock is
\* held or awaited.
GetLock(c, l) ==
    \/ /\ Known(c)
       /\ l = lockOf[c]
       /\ UNCHANGED <<order, lockOf, dropped>>
    \/ /\ ~Known(c) /\ ~OverLimit(order)
       /\ IsNew(l, InUse)
       /\ Register(c, order, l)
       /\ UNCHANGED dropped
    \/ /\ ~Known(c) /\ OverLimit(order)
       /\ IsNew(l, InUse)
       /\ Register(c, YoungHalf(order), l)
       /\ dropped' = dropped \cup {t \in Tasks : Contains(OldHalf(order), conv[t])}

FaultyHeld(l) == \E t \in Tasks : lock[t] = l

Held(l) == \E t \in Tasks : pc[t] = "merging" /\ lock[t] = l
Awaited(l) == \E t \in Tasks : pc[t] = "waiting" /\ lock[t] = l

\* A request with conv_id c arrives and runs up to its first suspension.
Request(t, c) ==
    /\ pc[t] = "idle"
    /\ \E l \in Locks :
          /\ GetLock(c, l)
          /\ lock' = [lock EXCEPT ![t] = l]
          /\ \/ /\ ~Held(l) /\ ~Awaited(l)
                /\ pc' = [pc EXCEPT ![t] = "merging"]
                /\ UNCHANGED queue
             \/ /\ Held(l) \/ Awaited(l)
                /\ pc' = [pc EXCEPT ![t] = "waiting"]
                /\ queue' = Append(queue, t)
    /\ conv' = [conv EXCEPT ![t] = c]

\* The task at position i is the first that waits for its lock.
First(i) == \A j \in 1 .. i - 1 : lock[queue[j]] # lock[queue[i]]

\* release() wakes the first waiter of a lock, which takes it when it runs.
Acquire(t) ==
    /\ pc[t] = "waiting"
    /\ \E i \in DOMAIN queue :
          /\ queue[i] = t
          /\ First(i)
          /\ queue' = SubSeq(queue, 1, i - 1) \o SubSeq(queue, i + 1, Len(queue))
    /\ ~Held(lock[t])
    /\ pc' = [pc EXCEPT ![t] = "merging"]
    /\ UNCHANGED <<order, lockOf, conv, lock, dropped>>

\* _do_merge returns or raises: async with releases the lock either way.
Finish(t) ==
    /\ pc[t] = "merging"
    /\ pc' = [pc EXCEPT ![t] = "idle"]
    /\ conv' = [conv EXCEPT ![t] = NoConv]
    /\ lock' = [lock EXCEPT ![t] = NoLock]
    /\ dropped' = dropped \ {t}
    /\ UNCHANGED <<order, lockOf, queue>>

Next ==
    \E t \in Tasks :
        \/ \E c \in Convs : Request(t, c)
        \/ Acquire(t)
        \/ Finish(t)

Spec == Init /\ [][Next]_vars

\* The event loop runs a woken task and a merge in a thread ends.
Fairness == \A t \in Tasks : WF_vars(Acquire(t)) /\ WF_vars(Finish(t))
FairSpec == Spec /\ Fairness

-----------------------------------------------------------------------------
\* The purpose of the locks ("per-conv_id lock: prevents the race of history
\* merges by simultaneous requests", _conversation_ctx.py:29): two requests
\* never merge the history of one conversation at the same time.  An eviction
\* breaks it, but only for the requests that used the evicted lock.
MergeExclusive ==
    \A t, u \in Tasks \ dropped :
        pc[t] = "merging" /\ pc[u] = "merging" /\ conv[t] = conv[u] => t = u

\* The dictionary does not grow past its limit, whatever mix of new and known
\* conversations arrives: a new key is added only after the old half is gone.
RegistryBound == Len(order) <= LocksMax + 1

\* A request that waits for its conversation's lock gets to merge, also when
\* the lock was evicted from the dictionary while it waited.
EveryMergeRuns == \A t \in Tasks : pc[t] = "waiting" ~> pc[t] = "merging"
=============================================================================
