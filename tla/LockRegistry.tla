---------------------------- MODULE LockRegistry ----------------------------
(***************************************************************************)
(* What the two lock dictionaries of chat/_conversation_ctx.py share.  A   *)
(* dictionary conv_id -> lock is kept as the sequence of its keys in       *)
(* insertion order together with the function from keys to locks; a lock   *)
(* object is a number, and a number is free again once neither the         *)
(* dictionary nor a caller refers to it (the object is garbage).           *)
(***************************************************************************)
EXTENDS Integers, Sequences

CONSTANTS Convs,      \* conversation ids
          Locks,      \* lock objects
          LocksMax    \* CONV_LOCKS_MAX

NoLock == -1
NoConv == "-"

ASSUME RegistryAssumption ==
    /\ Locks \subseteq Nat
    /\ LocksMax \in Nat \ {0}
    /\ NoConv \notin Convs

\* The size test made before a new lock is registered.
OverLimit(keys) == Len(keys) > LocksMax

\* keys[: len(keys) // 2], the oldest half, and what stays.
OldHalf(keys) == SubSeq(keys, 1, Len(keys) \div 2)
YoungHalf(keys) == SubSeq(keys, Len(keys) \div 2 + 1, Len(keys))

Contains(keys, c) == \E i \in DOMAIN keys : keys[i] = c

\* The lock object a constructor call returns, given the ones in use.
IsNew(l, inUse) == l \notin inUse /\ \A k \in Locks \ inUse : l <= k
=============================================================================
