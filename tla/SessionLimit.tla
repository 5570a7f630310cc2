----------------------------- MODULE SessionLimit -----------------------------
(***************************************************************************)
(* The concurrent-user limit of chat/user_session.py as the chat router    *)
(* calls it.  All server processes share one MySQL table with one row per  *)
(* user (user_identifier is UNIQUE).  check_user_limit is a sequence of    *)
(* separate autocommit statements: delete expired rows, look up the user's *)
(* own row, then either refresh it or count the active rows and insert.    *)
(* Within one process the call is synchronous on the event loop, so a      *)
(* worker runs one check at a time; different workers interleave between   *)
(* any two statements.                                                     *)
(*                                                                         *)
(* Time is kept relative: age[u] is the time since last_activity of u's    *)
(* row and lag[w] the time since worker w evaluated expiry_threshold, so   *)
(* the clock itself is unbounded and only these two are capped.            *)
(***************************************************************************)
EXTENDS Integers, FiniteSets

CONSTANTS Users,      \* user identifiers
          Workers,    \* server processes, each checking one request at a time
          MaxUsers,   \* MAX_CONCURRENT_USERS
          Timeout,    \* SESSION_TIMEOUT_MINUTES, in ticks
          MaxDelay    \* bound: ticks that may pass while a check is running

ASSUME SessionAssumption ==
    /\ IsFiniteSet(Users)
    /\ IsFiniteSet(Workers)
    /\ Workers # {}
    /\ MaxUsers \in Nat \ {0}
    /\ Timeout \in Nat \ {0}
    /\ MaxDelay \in Nat

VARIABLES rows,     \* users that have a row in the session table
          age,      \* age[u]: ticks since last_activity of u's row
          pc,       \* pc[w]: the statement worker w executes next
          user,     \* user[w]: user_identifier of the check w runs or ran last
          lag,      \* lag[w]: ticks since w computed expiry_threshold
          result    \* result[w]: what the last check of w returned

vars == <<rows, age, pc, user, lag, result>>

\* Rows older than this are expired whatever threshold a check still holds.
AgeCap == Timeout + MaxDelay + 1

Statements == {"cleanup", "select", "refresh", "count", "insert"}
Results == {"none", "allowed", "denied", "failopen"}

TypeOK ==
    /\ rows \in SUBSET Users
    /\ age \in [Users -> 0 .. AgeCap]
    /\ pc \in [Workers -> Statements \cup {"idle"}]
    /\ user \in [Workers -> Users]
    /\ lag \in [Workers -> 0 .. MaxDelay]
    /\ result \in [Workers -> Results]

-------------------------------------------------------------------------------
\* Operators named Faulty... are plausible bugs, never used by Spec: each run's
\* properties must reject the specification in which one replaces the
\* definition that follows it.
FaultyAllRowsActive(d) == rows

\* last_activity > threshold, for a threshold computed d ticks ago.
ActiveSince(d) == {u \in rows : age[u] - d < Timeout}
Active == ActiveSince(0)

Init ==
    /\ rows = {}
    /\ age = [u \in Users |-> 0]
    /\ pc = [w \in Workers |-> "idle"]
    /\ user \in [Workers -> Users]
    /\ lag = [w \in Workers |-> 0]
    /\ result = [w \in Workers |-> "none"]

Return(w, r) ==
    /\ pc' = [pc EXCEPT ![w] = "idle"]
    /\ result' = [result EXCEPT ![w] = r]
    /\ lag' = [lag EXCEPT ![w] = 0]
    /\ UNCHANGED user

Goto(w, statement) ==
    /\ pc' = [pc EXCEPT ![w] = statement]
    /\ UNCHANGED <<user, result>>

\* A request that is no clarification answer reaches the check; the worker
\* opens its own connection.
Connect(w, u) ==
    /\ pc[w] = "idle"
    /\ pc' = [pc EXCEPT ![w] = "cleanup"]
    /\ user' = [user EXCEPT ![w] = u]
    /\ result' = [result EXCEPT ![w] = "none"]
    /\ lag' = [lag EXCEPT ![w] = 0]
    /\ UNCHANGED <<rows, age>>

\* DELETE ... WHERE last_activity < threshold.  The comparison is strict: a
\* row exactly Timeout old stays.
Cleanup(w) ==
    /\ pc[w] = "cleanup"
    /\ rows' = {u \in rows : age[u] <= Timeout}
    /\ age' = [u \in Users |-> IF u \in rows' THEN age[u] ELSE 0]
    /\ Goto(w, "select")
    /\ UNCHANGED lag

\* _cleanup_expired_sessions logs a MySQLError and the check goes on.
CleanupFails(w) ==
    /\ pc[w] = "cleanup"
    /\ Goto(w, "select")
    /\ UNCHANGED <<rows, age, lag>>

FaultyNoLookup(w) == FALSE

\* The SELECT for the user's own active row.
HasSession(w) == user[w] \in Active

\* expiry_threshold is computed here and reused by the count.
Select(w) ==
    /\ pc[w] = "select"
    /\ lag' = [lag EXCEPT ![w] = 0]
    /\ Goto(w, IF HasSession(w) THEN "refresh" ELSE "count")
    /\ UNCHANGED <<rows, age>>

Touch(u) == IF u \in rows THEN [age EXCEPT ![u] = 0] ELSE age

\* UPDATE ... SET last_activity = now: no row, no effect, still allowed.
Refresh(w) ==
    /\ pc[w] = "refresh"
    /\ age' = Touch(user[w])
    /\ Return(w, "allowed")
    /\ UNCHANGED rows

FaultyRoomForOneMore(w) == Cardinality(ActiveSince(lag[w])) <= MaxUsers

HasRoom(w) == Cardinality(ActiveSince(lag[w])) < MaxUsers

Count(w) ==
    /\ pc[w] = "count"
    /\ \/ /\ HasRoom(w)
          /\ Goto(w, "insert")
          /\ UNCHANGED lag
       \/ /\ ~HasRoom(w)
          /\ Return(w, "denied")
    /\ UNCHANGED <<rows, age>>

Insert(w) ==
    /\ pc[w] = "insert"
    /\ user[w] \notin rows
    /\ rows' = rows \cup {user[w]}
    /\ age' = [age EXCEPT ![user[w]] = 0]
    /\ Return(w, "allowed")

\* The row exists (inserted meanwhile, or expired but not deleted): the
\* UNIQUE key makes the INSERT fail and the error lets the request through.
InsertDuplicate(w) ==
    /\ pc[w] = "insert"
    /\ user[w] \in rows
    /\ Return(w, "failopen")
    /\ UNCHANGED <<rows, age>>

\* Connecting or any statement but the clean-up raises MySQLError.
DbError(w) ==
    /\ pc[w] \in Statements
    /\ Return(w, "failopen")
    /\ UNCHANGED <<rows, age>>

Running == {w \in Workers : pc[w] \in Statements}

Older(a) == IF a < AgeCap THEN a + 1 ELSE a

\* MaxDelay bounds how long a check may have been holding its threshold.
Tick ==
    /\ \A w \in Running : lag[w] < MaxDelay
    /\ age' = [u \in Users |-> IF u \in rows THEN Older(age[u]) ELSE age[u]]
    /\ lag' = [w \in Workers |-> IF w \in Running THEN lag[w] + 1 ELSE lag[w]]
    /\ UNCHANGED <<rows, pc, user, result>>

Check(w) ==
    \/ Cleanup(w) \/ CleanupFails(w)
    \/ Select(w) \/ Refresh(w) \/ Count(w)
    \/ Insert(w) \/ InsertDuplicate(w)
    \/ DbError(w)

Next ==
    \/ \E w \in Workers, u \in Users : Connect(w, u)
    \/ \E w \in Workers : Check(w)
    \/ Tick

Spec == Init /\ [][Next]_vars

\* A check that was started runs to its end and time passes.  Nothing is
\* assumed about requests arriving or about the database recovering.
Fairness == (\A w \in Workers : WF_vars(Check(w))) /\ WF_vars(Tick)
FairSpec == Spec /\ Fairness

-------------------------------------------------------------------------------
\* Users that are active or that a worker has already decided to make so.
Committed ==
    Active \cup {user[w] : w \in {v \in Workers : pc[v] \in {"refresh", "insert"}}}

\* "enforcing the 50-user concurrent limit" (user_session.py, module doc):
\* there are never more active users than MAX_CONCURRENT_USERS.
LimitEnforced == Cardinality(Active) <= MaxUsers

\* The count and the INSERT are separate statements, so several workers can
\* pass the same last free slot.  The excess is at most one user per worker
\* beyond the first, however the checks, clean-ups, expiries and database
\* errors interleave; with one worker this is LimitEnforced.
OverAdmissionBound == Cardinality(Active) <= MaxUsers + Cardinality(Workers) - 1

\* The inductive form: a user whose refresh or insert is already decided
\* takes up a slot too.
CommittedBound == Cardinality(Committed) <= MaxUsers + Cardinality(Workers) - 1

\* A user whose session is active when the count runs is not turned away: the
\* router must not cut off a dialogue that holds a slot.  Only a session that
\* another worker wrote after this check had looked it up may be overlooked.
SessionHolderServed ==
    [][\A w \in Workers :
          pc[w] = "count" /\ result'[w] = "denied" /\ user[w] \in Active
          => age[user[w]] <= lag[w]]_vars

\* Slots of users that went away are reclaimed by expiry alone (nobody
\* calls cleanup_user_session): if from some point on only u keeps asking, u is
\* let through again and again, even when every clean-up DELETE fails.
SlotReclaimed ==
    \A u \in Users :
        /\ <>[](\A w \in Workers : pc[w] # "idle" => user[w] = u)
        /\ []<>(\E w \in Workers : pc[w] = "cleanup")
        => []<>(\E w \in Workers : user[w] = u /\ result[w] \in {"allowed", "failopen"})
===============================================================================
