------------------------------ MODULE Lifespan ------------------------------
(***************************************************************************)
(* Start-up and shutdown of a server process (core/lifespan.py), around    *)
(* the calls of LlmCalls.  Start-up makes the HTTP clients (Startup is the *)
(* one of LlmCalls), the pool of database connections, what searches need  *)
(* (left out: it may fail, and nothing else depends on it) and the thread  *)
(* that refreshes the policy keywords; only the reading of the prompts may *)
(* make it fail.  The shutdown begins when all requests are over, closes   *)
(* the clients of the application's state, takes connections out of the    *)
(* pool until it gets none, and stops the thread.                          *)
(*                                                                         *)
(* No request uses the pool (get_db has no user): a connection is in the   *)
(* pool, or held by the shutdown.  Everything but the thread runs on the   *)
(* event loop.  The database comes and goes at any time.                   *)
(***************************************************************************)
EXTENDS LlmCalls

VARIABLES life,       \* the next step of start-up or shutdown, "serve", or the
                      \* end: "failed", "stopped"
          database,   \* whether the database answers
          pool,       \* app.state.db_pool is there (DB_HOST is set, and it answered)
          refresher,  \* the refresh thread: "none", "waits", "loads" or "over"
          stopping    \* _REFRESH_STOP_EVENT

lifeVars == <<life, database, pool, refresher, stopping>>

LifeSteps == {"pool", "prompts", "refresh", "serve", "close", "take", "give",
              "stop", "join", "failed", "stopped"}

LifeTypeOK ==
    /\ life \in LifeSteps
    /\ {database, pool, stopping} \subseteq BOOLEAN
    /\ refresher \in {"none", "waits", "loads", "over"}

-------------------------------------------------------------------------------
\* From when the clients are made.
LifeInit ==
    /\ life = "pool" /\ database \in BOOLEAN
    /\ pool = FALSE /\ refresher = "none" /\ stopping = FALSE

Proceed(from, to) == life = from /\ life' = to

\* Without a DB_HOST, or when it fails, every request connects by itself.
InitPool ==
    /\ Proceed("pool", "prompts")
    /\ pool' \in {FALSE, database}
    /\ UNCHANGED <<llmVars, database, refresher, stopping>>

\* Any failure of the others is logged and start-up goes on.
PreloadPrompts ==
    /\ Proceed("prompts", "refresh") \/ Proceed("prompts", "failed")
    /\ UNCHANGED <<llmVars, database, pool, refresher, stopping>>

\* The thread is switched off by an interval of 0 or without the keyword table.
StartRefresher ==
    /\ Proceed("refresh", "serve")
    /\ refresher' \in {"none", "waits"}
    /\ UNCHANGED <<llmVars, database, pool, stopping>>

\* _worker: it loads whenever an interval is over, until the event is set.
Refresh ==
    /\ \/ refresher = "waits" /\ refresher' = IF stopping THEN "over" ELSE "loads"
       \/ refresher = "loads" /\ refresher' = "waits"
    /\ UNCHANGED <<llmVars, life, database, pool, stopping>>

Database ==
    /\ database' = ~database
    /\ UNCHANGED <<llmVars, life, pool, refresher, stopping>>

\* The server accepts no more requests, and those it has are over.
Terminate ==
    /\ Proceed("serve", "close")
    /\ \A c \in Calls : pc[c] \in {"new", "done"}
    /\ UNCHANGED <<llmVars, database, pool, refresher, stopping>>

-------------------------------------------------------------------------------
\* _close_http_client: a client is closed unless a reset has closed it.
CloseClients ==
    /\ Proceed("close", IF pool THEN "take" ELSE "stop")
    /\ closed' = closed \cup {Startup}
    /\ UNCHANGED <<client, made, callVars, database, pool, refresher, stopping>>

FaultyOnError == "take"

\* The loop of _close_db_pool is left by any exception.
OnError == "stop"

\* pool.get_connection() connects anew if the connection is lost.
TakeConnection ==
    /\ Proceed("take", IF database THEN "give" ELSE OnError)
    /\ UNCHANGED <<llmVars, database, pool, refresher, stopping>>

\* conn.close() resets the connection and puts it back into the pool.
GiveConnection ==
    /\ Proceed("give", IF database THEN "take" ELSE OnError)
    /\ UNCHANGED <<llmVars, database, pool, refresher, stopping>>

StopRefresher ==
    /\ Proceed("stop", IF refresher = "none" THEN "stopped" ELSE "join")
    /\ stopping' = (refresher # "none")
    /\ UNCHANGED <<llmVars, database, pool, refresher>>

\* The thread is over, or the two seconds of the join are.
JoinRefresher ==
    /\ Proceed("join", "stopped")
    /\ UNCHANGED <<llmVars, database, pool, refresher, stopping>>

Shutdown ==
    \/ CloseClients \/ TakeConnection \/ GiveConnection
    \/ StopRefresher \/ JoinRefresher

LifeNext ==
    \/ InitPool \/ PreloadPrompts \/ StartRefresher
    \/ Refresh \/ Database \/ Terminate \/ Shutdown

\* The event loop goes on with the shutdown; waits and database calls of the
\* thread have limits.  Nothing is assumed about the database.
LifeFairness == WF_lifeVars(Shutdown) /\ WF_lifeVars(Refresh)

\* Requests are answered only between start-up and shutdown.
LifeSpec ==
    /\ LlmInit /\ LifeInit
    /\ [][LifeNext \/ (life = "serve" /\ LlmNext /\ UNCHANGED lifeVars)]_<<llmVars, lifeVars>>
    /\ LlmFairness /\ LifeFairness

-------------------------------------------------------------------------------
\* The clients, the pool and the thread are released at shutdown
\* (core/lifespan.py:5); left open may be only the client that was made last,
\* if it replaced the one of the application's state.
ClientsReleased == (1 .. made) \ closed \subseteq {client} \ {Startup}

Released == life = "stopped" /\ refresher \in {"none", "over"} /\ ClientsReleased

\* A shutdown comes to its end, however calls replaced clients, whatever the
\* thread is doing, and when the database fails under it: unless the database
\* answers again and again, which keeps the shutdown in the loop that empties the
\* pool.
ShutdownReleases ==
    []<>(life = "give" /\ database) \/ (life = "close" ~> Released)
=============================================================================
