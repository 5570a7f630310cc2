----------------------------- MODULE PolicyCache -----------------------------
(***************************************************************************)
(* The cached policy keywords of chat/infra/rag/policy_priority.py: a map  *)
(* loaded from a database table, read by searches and renewed by a refresh *)
(* thread.  Once per interval the first caller compares the version of the *)
(* table, the latest update time of its active rows, with the version it   *)
(* stored, and reloads if they differ.  A caller holds the cache lock from *)
(* the test of the times to its return, database calls included.           *)
(*                                                                         *)
(* The exclude keywords have a cache of their own with the same code and   *)
(* the same lock, which only delays: both are instances of this module.    *)
(* The table is changed by operators, who do not take part in the lock.    *)
(* Time is counted in intervals (POLICY_PRIORITY_CHANGE_CHECK_SEC), and a  *)
(* call takes less than one; update times are counted in seconds.          *)
(***************************************************************************)
EXTENDS Naturals

CONSTANTS Keywords,     \* rows of the table
          Readers,      \* searches that read the keywords
          Refresher,    \* the refresh thread, and the preload before it
          Changes,      \* what operators do: "later", "sameSecond", "deactivate"
          MidReload,    \* whether they may do it during a reload
          Errors,       \* database calls that may fail: "check", "load", "stamp"
          MaxChanges,   \* bound: changes of the table
          MaxErrors     \* bound: failing database calls

ASSUME PolicyAssumption ==
    /\ Refresher \notin Readers
    /\ Changes \subseteq {"later", "sameSecond", "deactivate"}
    /\ MidReload \in BOOLEAN
    /\ Errors \subseteq {"check", "load", "stamp"}
    /\ MaxChanges \in Nat /\ MaxErrors \in Nat

VARIABLES rules,        \* rules[k]: revision of row k's keyword; 0: not active
          updated,      \* updated[k]: updated_at of row k
          second,       \* the latest second in which a row was updated
          changes,      \* changes so far, and the last revision
          cache,        \* _TAG_KEYWORDS_CACHE: the revisions it was built from
          version,      \* _TAG_KEYWORDS_LAST_VERSION; 0: the empty string
          ready,        \* _TAG_KEYWORDS_CACHE_READY
          due,          \* an interval has passed since the last check
          alarm,        \* the refresh thread's wait is over
          pc,           \* pc[c]: the next step of caller c
          sawDue,       \* sawDue[c]: when c read the time a check was due,
                        \* and nobody has checked since
          got,          \* got[c]: what c loaded
          errors,
          unseen        \* since the last good load something happened that
                        \* the version need not show

tableVars == <<rules, updated, second, changes>>
cacheVars == <<cache, version, ready>>
timeVars == <<due, alarm>>
callerVars == <<pc, sawDue, got>>
vars == <<tableVars, cacheVars, timeVars, callerVars, errors, unseen>>

Callers == Readers \cup {Refresher}
Revisions == 0 .. MaxChanges
None == [k \in Keywords |-> 0]

TypeOK ==
    /\ rules \in [Keywords -> Revisions]
    /\ updated \in [Keywords -> Revisions]
    /\ second \in Revisions
    /\ changes \in Revisions
    /\ cache \in [Keywords -> Revisions]
    /\ version \in Revisions
    /\ ready \in BOOLEAN
    /\ due \in BOOLEAN
    /\ alarm \in BOOLEAN
    /\ pc \in [Callers -> {"idle", "wait", "check", "load", "store", "stamp"}]
    /\ sawDue \in [Callers -> BOOLEAN]
    /\ got \in [Callers -> [Keywords -> Revisions]]
    /\ errors \in 0 .. MaxErrors
    /\ unseen \in BOOLEAN

-------------------------------------------------------------------------------
\* Operators named Faulty... are plausible bugs, never used by Spec: each run's
\* properties must reject the specification in which one replaces the
\* definition that follows it.

Init ==
    /\ rules = None /\ updated = None
    /\ second = 0
    /\ changes = 0
    /\ cache = None
    /\ version = 0
    /\ ready = FALSE
    /\ due = FALSE
    /\ alarm = TRUE
    /\ pc = [c \in Callers |-> "idle"]
    /\ sawDue = [c \in Callers |-> FALSE]
    /\ got = [c \in Callers |-> None]
    /\ errors = 0
    /\ unseen = FALSE

Holds(c) == pc[c] \notin {"idle", "wait"}

FaultyFree == TRUE

\* Nobody holds _CACHE_LOCK.
Free == \A c \in Callers : ~Holds(c)

\* MAX(updated_at) of the active rows; 0, the empty string, if there are none.
Version ==
    LET active == {k \in Keywords : rules[k] # 0}
    IN  IF active = {} THEN 0
        ELSE CHOOSE t \in {updated[k] : k \in active} :
                 \A k \in active : updated[k] <= t

Fails(call) ==
    /\ call \in Errors /\ errors < MaxErrors
    /\ errors' = errors + 1

\* The version query; the empty string after an error.
ReadsVersion(call, v) ==
    \/ v = Version /\ UNCHANGED errors
    \/ v = 0 /\ Fails(call)

-------------------------------------------------------------------------------
\* Operators change the table.

MayChange ==
    /\ changes < MaxChanges
    /\ MidReload \/ Free
    /\ changes' = changes + 1
    /\ UNCHANGED <<cacheVars, timeVars, callerVars, errors>>

Rewrite(k, now) ==
    /\ rules' = [rules EXCEPT ![k] = changes + 1]
    /\ updated' = [updated EXCEPT ![k] = now]
    /\ second' = now

\* A row is inserted, switched on or changed.
ChangeLater(k) ==
    /\ "later" \in Changes /\ MayChange
    /\ Rewrite(k, second + 1)
    /\ unseen' = (unseen \/ ~Free)

\* The same within the second of the last update.
ChangeSameSecond(k) ==
    /\ "sameSecond" \in Changes /\ MayChange
    /\ second > 0
    /\ Rewrite(k, second)
    /\ unseen' = TRUE

\* A row is switched off or deleted; its update time no longer counts.
Deactivate(k) ==
    /\ "deactivate" \in Changes /\ MayChange
    /\ rules[k] # 0
    /\ rules' = [rules EXCEPT ![k] = 0]
    /\ unseen' = TRUE
    /\ UNCHANGED <<updated, second>>

-------------------------------------------------------------------------------
\* _get_tag_keywords_map, from the time it reads to its return.

Goto(c, step) == pc' = [pc EXCEPT ![c] = step]

\* An interval passes.
Tick ==
    /\ ~alarm
    /\ due' = TRUE /\ alarm' = TRUE
    /\ UNCHANGED <<tableVars, cacheVars, callerVars, errors, unseen>>

\* The caller reads the time.  The first call is the preload, before the
\* server takes requests; then the refresh thread calls after each wait.
Call(c) ==
    /\ pc[c] = "idle"
    /\ IF c = Refresher THEN alarm /\ alarm' = FALSE ELSE ready /\ UNCHANGED alarm
    /\ Goto(c, "wait")
    /\ sawDue' = [sawDue EXCEPT ![c] = due]
    /\ UNCHANGED <<tableVars, cacheVars, due, got, errors, unseen>>

\* The last check is younger than an interval at the time c read.
IsFresh(c) == ready /\ ~sawDue[c]

\* The time of the last check becomes that of the caller's call.
Checked ==
    /\ due' = FALSE
    /\ sawDue' = [c \in Callers |-> FALSE]

\* With the lock: serve the cache, check the version, or load for the first
\* time.
Enter(c) ==
    /\ pc[c] = "wait" /\ Free
    /\ Goto(c, IF IsFresh(c) THEN "idle" ELSE IF ready THEN "check" ELSE "load")
    /\ UNCHANGED <<tableVars, cacheVars, timeVars, sawDue, got, errors, unseen>>

Unchanged(v) == v # 0 /\ v = version

Check(c) ==
    /\ pc[c] = "check"
    /\ \E v \in Revisions :
        /\ ReadsVersion("check", v)
        /\ Goto(c, IF Unchanged(v) THEN "idle" ELSE "load")
    /\ Checked
    /\ UNCHANGED <<tableVars, cacheVars, alarm, got, unseen>>

\* _load_policy_keywords_from_db: the active rows, or nothing after an error.
Load(c) ==
    /\ pc[c] = "load"
    /\ \/ /\ got' = [got EXCEPT ![c] = rules]
          /\ unseen' = FALSE
          /\ UNCHANGED errors
       \/ /\ got' = [got EXCEPT ![c] = None]
          /\ unseen' = TRUE
          /\ Fails("load")
    /\ Goto(c, "store")
    /\ UNCHANGED <<tableVars, cacheVars, timeVars, sawDue>>

FaultyMerged(c) == IF ready THEN cache ELSE got[c]
\* The default keywords, none, overlaid with the loaded ones.
Merged(c) == got[c]

Store(c) ==
    /\ pc[c] = "store"
    /\ cache' = Merged(c)
    /\ Checked
    /\ Goto(c, "stamp")
    /\ UNCHANGED <<tableVars, version, ready, alarm, got, errors, unseen>>

\* The version of what was loaded is asked for after the load.
Stamp(c) ==
    /\ pc[c] = "stamp"
    /\ \E v \in Revisions :
        /\ ReadsVersion("stamp", v)
        /\ version' = v
    /\ ready' = TRUE
    /\ Goto(c, "idle")
    /\ UNCHANGED <<tableVars, cache, timeVars, sawDue, got, unseen>>

-------------------------------------------------------------------------------
Operator ==
    \E k \in Keywords : ChangeLater(k) \/ ChangeSameSecond(k) \/ Deactivate(k)

Refresh(c) == Check(c) \/ Load(c) \/ Store(c) \/ Stamp(c)

Next ==
    \/ Operator
    \/ Tick
    \/ \E c \in Callers : Call(c) \/ Enter(c) \/ Refresh(c)

Spec == Init /\ [][Next]_vars

\* Time passes, the refresh thread wakes up, database calls return or fail.
\* The lock is not fair, but searches that leave it free again and again do
\* not keep the refresh thread out for ever.  Operators and searches may stay
\* away.
Fairness ==
    /\ WF_vars(Tick)
    /\ WF_vars(Call(Refresher))
    /\ SF_vars(Enter(Refresher))
    /\ \A c \in Callers : WF_vars(Refresh(c))
FairSpec == Spec /\ Fairness

-------------------------------------------------------------------------------
\* What the change check relies on: as long as the table's version is the
\* stored one, the cached keywords are the table's ("if the versions are the
\* same, keep the cache", policy_priority.py:191).
SameVersionSameRules ==
    ready /\ Free /\ version # 0 /\ version = Version => cache = rules

\* It holds unless, since the last good load, a row was switched off, changed
\* within the second of an earlier change or during the reload, or a load
\* failed.
SeenIsCurrent == ~unseen => SameVersionSameRules

\* A reload never brings back an earlier revision of a keyword, however
\* searches and the refresh thread overlap.
NeverBackward ==
    [][\A k \in Keywords : cache'[k] = 0 \/ cache'[k] >= cache[k]]_vars

\* When the table stays as it is, the cached keywords become the table's, without
\* any search and after any number of failing calls, unless the last load or a
\* later change was one of those that the version need not show.
CacheCatchesUp == <>[](cache = rules \/ unseen)
=============================================================================
