----------------------------- MODULE MCConvLocks -----------------------------
(***************************************************************************)
(* TLC instance of the two registries of conversation locks.  They share   *)
(* nothing, and a request has released the one's lock before it asks for   *)
(* the other's: a behaviour uses one registry.  Lock objects are numbers:  *)
(* one per registered conversation and per task or thread.                 *)
(***************************************************************************)
EXTENDS AsyncConvLock

CONSTANTS Threads, NLocks
MCLocks == 1 .. NLocks

VARIABLES used, savesOrder, savesLock, savePc, saveConv, saveLock, victims

Saves == INSTANCE ThreadConvLock WITH
    order <- savesOrder, lockOf <- savesLock,
    pc <- savePc, conv <- saveConv, lock <- saveLock

saveVars == <<savesOrder, savesLock, savePc, saveConv, saveLock, victims>>

MCInit ==
    /\ Init /\ Saves!Init
    /\ used \in {"merges", "saves"}

MCNext ==
    \/ used = "merges" /\ Next /\ UNCHANGED <<saveVars, used>>
    \/ used = "saves" /\ Saves!Next /\ UNCHANGED <<vars, used>>

MCSpec ==
    /\ MCInit /\ [][MCNext]_<<vars, saveVars, used>>
    /\ Fairness

\* See ThreadConvLock: only the first saves of a conversation can overlap.
SettledIsExclusive == Saves!SettledIsExclusive
=============================================================================
