------------------------------ MODULE LlmCalls ------------------------------
(***************************************************************************)
(* Calls of language models through the shared HTTP client of a server     *)
(* process (chat/infra/llm, chat/infra/deepserver).  The client is made at *)
(* startup, kept by the application's state and by a module variable, and  *)
(* used by all calls at once.  A call whose connection breaks closes the   *)
(* client of the module variable, has another made, and posts once more.   *)
(* All calls run on one event loop: they interleave where they await the   *)
(* answer or the closing of a client.                                      *)
(*                                                                         *)
(* Ways to call: "ask" (call_llm_api), "stream" (the same, streaming),     *)
(* "classify" (a small model, then the large one), "suggest" (with the     *)
(* client of the application's state), or "post" (_ds_post).  The language *)
(* models and DeepServer have a client each, with the same functions: a    *)
(* behaviour has calls of the one or of the other.  What is asked and      *)
(* answered is left out.                                                   *)
(***************************************************************************)
EXTENDS Integers, FiniteSets

CONSTANTS Calls,
          MaxBreaks   \* bound: connections that break by themselves

ASSUME CallsAssumption == MaxBreaks \in Nat

VARIABLES client,     \* the module's client, a number; 0: None
          made,       \* clients made so far
          closed,     \* clients that are closed
          how,        \* how[c]: the way of call c
          pc,         \* "new", "held", "wait", "closing" or "done"
          using,      \* using[c]: the client c posted with
          left,       \* left[c]: what c can still try
          result,     \* "none", "answer", "error", or "refused" with a 503
          faulted,    \* calls to which the server did not give an answer
          hit,        \* calls whose client another call closed
          breaks      \* breaks[c]: connections of c that broke by themselves

clientVars == <<client, made, closed>>
callVars == <<how, pc, using, left, result, faulted, hit, breaks>>
llmVars == <<clientVars, callVars>>

Startup == 1
LlmWays == {"ask", "stream", "classify", "suggest"}
Tries == {"reset", "outer", "shorten", "fallback"}

LlmTypeOK ==
    /\ client \in 0 .. made /\ made \in Nat
    /\ closed \subseteq 1 .. made
    /\ how \in [Calls -> LlmWays \cup {"post"}]
    /\ pc \in [Calls -> {"new", "held", "wait", "closing", "done"}]
    /\ using \in [Calls -> 0 .. made]
    /\ left \in [Calls -> SUBSET Tries]
    /\ result \in [Calls -> {"none", "answer", "error", "refused"}]
    /\ faulted \subseteq Calls /\ hit \subseteq Calls
    /\ breaks \in [Calls -> 0 .. MaxBreaks]

-------------------------------------------------------------------------------
LlmInit ==
    /\ client = Startup /\ made = Startup /\ closed = {}
    /\ how \in [Calls -> LlmWays] \cup [Calls -> {"post"}]
    /\ pc = [c \in Calls |-> "new"]
    /\ using = [c \in Calls |-> 0]
    /\ left = [c \in Calls |-> {}]
    /\ result = [c \in Calls |-> "none"]
    /\ faulted = {} /\ hit = {}
    /\ breaks = [c \in Calls |-> 0]

\* What a post may still lead to.  An injected client is never replaced.
Fresh(way) ==
    CASE way = "ask"      -> {"reset", "shorten"}
      [] way = "classify" -> {"reset", "shorten", "fallback"}
      [] way = "stream"   -> {"reset", "fallback"}
      [] way = "suggest"  -> {"shorten"}
      [] way = "post"     -> {"reset"}

\* _get_llm_client, _get_ds_client: the client, or a new one.  now is the
\* module's client and gone the closed ones when it is called.
GetClient(now, gone) ==
    IF now # 0 /\ now \notin gone
    THEN client' = now /\ UNCHANGED made
    ELSE made' = made + 1 /\ client' = made + 1

Waits(c) == pc' = [pc EXCEPT ![c] = "wait"] /\ UNCHANGED result

Ends(c, r) ==
    /\ pc' = [pc EXCEPT ![c] = "done"]
    /\ result' = [result EXCEPT ![c] = r]

\* The call gets the client and posts with it.
Post(c, now, gone) ==
    /\ GetClient(now, gone)
    /\ using' = [using EXCEPT ![c] = client']
    /\ Waits(c)

Start(c) ==
    /\ pc[c] = "new" /\ how[c] # "suggest"
    /\ Post(c, client, closed)
    /\ left' = [left EXCEPT ![c] = Fresh(how[c])]
    /\ UNCHANGED <<closed, how, faulted, hit, breaks>>

\* get_llm_client: the client of the application's state, the one that was made
\* at startup; then the body of the request is awaited.
Depend(c) ==
    /\ pc[c] = "new" /\ how[c] = "suggest"
    /\ IF Startup \in closed
       THEN Ends(c, "refused") /\ UNCHANGED using
       ELSE /\ pc' = [pc EXCEPT ![c] = "held"]
            /\ using' = [using EXCEPT ![c] = Startup]
            /\ UNCHANGED result
    /\ UNCHANGED <<clientVars, how, left, faulted, hit, breaks>>

Suggest(c) ==
    /\ pc[c] = "held"
    /\ Waits(c)
    /\ left' = [left EXCEPT ![c] = Fresh("suggest")]
    /\ UNCHANGED <<clientVars, how, using, faulted, hit, breaks>>

-------------------------------------------------------------------------------
\* The server's part.

Reachable(c) == pc[c] = "wait" /\ using[c] \notin closed

Answer(c) ==
    /\ Reachable(c)
    /\ Ends(c, "answer")
    /\ UNCHANGED <<clientVars, how, using, left, faulted, hit, breaks>>

\* allow_context_retry
MayShorten(c) == "shorten" \in left[c]

\* "maximum context length": the same call with less text, inside the first,
\* which handles a connection that breaks in the retry of the second.
TooLong(c) ==
    /\ Reachable(c) /\ MayShorten(c)
    /\ IF how[c] = "suggest"
       THEN /\ left' = [left EXCEPT ![c] = @ \ {"shorten"}]
            /\ UNCHANGED <<client, made, using, pc, result>>
       ELSE /\ left' = [left EXCEPT ![c] = (@ \ {"shorten"}) \cup {"outer"}]
            /\ Post(c, client, closed)
    /\ UNCHANGED <<closed, how, faulted, hit, breaks>>

\* The call is over, or goes on with another model or without streaming.
FallsBack(c, ways) ==
    IF "fallback" \in left[c] /\ how[c] \in ways
    THEN /\ left' = [left EXCEPT ![c] = Fresh("ask")]
         /\ Post(c, client, closed)
    ELSE Ends(c, "error") /\ UNCHANGED <<client, made, using, left>>

\* A status other than 200, no content, or for a classifier no valid JSON.
BadReply(c) ==
    /\ Reachable(c)
    /\ faulted' = faulted \cup {c}
    /\ FallsBack(c, {"stream", "classify"})
    /\ UNCHANGED <<closed, how, hit, breaks>>

\* ReadTimeout, ConnectError: a stream does not fall back.
NoReply(c) ==
    /\ Reachable(c)
    /\ faulted' = faulted \cup {c}
    /\ FallsBack(c, {"classify"})
    /\ UNCHANGED <<closed, how, hit, breaks>>

-------------------------------------------------------------------------------
\* Broken connections.

MayReset(c) == {"reset", "outer"} \cap left[c] # {}

\* The retry of a reset is made in the handler of the error, where only the
\* call around it can go on.
AfterReset(c) ==
    left[c] \cap ((IF "reset" \in left[c] THEN {"outer"} ELSE {})
                  \cup (IF how[c] = "classify" THEN {"fallback"} ELSE {}))

\* _reset_llm_client, _reset_ds_client: the module's client is replaced, and
\* closed, whether or not it is the one that c posted with.
Reset(c) ==
    /\ left' = [left EXCEPT ![c] = AfterReset(c)]
    /\ IF client # 0 /\ client \notin closed
       THEN /\ client' = 0
            /\ closed' = closed \cup {client}
            /\ hit' = hit \cup {d \in Calls \ {c} :
                                  pc[d] \in {"held", "wait"} /\ using[d] = client}
            /\ pc' = [pc EXCEPT ![c] = "closing"]
            /\ UNCHANGED <<made, using, result>>
       ELSE Post(c, 0, closed) /\ UNCHANGED <<closed, hit>>

\* _POOL_RETRY_ERRORS: RuntimeError, RemoteProtocolError.
PoolError(c) ==
    IF MayReset(c) THEN Reset(c)
    ELSE FallsBack(c, {"classify"}) /\ UNCHANGED <<closed, hit>>

\* The server closed a connection that was kept open, or broke it off.
Break(c) ==
    /\ Reachable(c)
    /\ breaks[c] < MaxBreaks
    /\ breaks' = [breaks EXCEPT ![c] = @ + 1]
    /\ PoolError(c)
    /\ UNCHANGED <<how, faulted>>

\* The client was closed under the call: a RuntimeError, or a ReadError, which
\* is not one of the errors that are retried.
Cut(c) ==
    /\ pc[c] = "wait" /\ using[c] \in closed
    /\ PoolError(c) \/ (FallsBack(c, {"classify"}) /\ UNCHANGED <<closed, hit>>)
    /\ UNCHANGED <<how, faulted, breaks>>

FaultyRetry(c) ==
    /\ pc[c] = "closing"
    /\ Waits(c)
    /\ UNCHANGED <<clientVars, how, using, left, faulted, hit, breaks>>

\* The client is closed, and the call posts once more, with a new one.
Retry(c) ==
    /\ pc[c] = "closing"
    /\ Post(c, client, closed)
    /\ UNCHANGED <<closed, how, left, faulted, hit, breaks>>

CallGoesOn(c) ==
    \/ Suggest(c) \/ Retry(c)
    \/ Answer(c) \/ TooLong(c) \/ BadReply(c) \/ NoReply(c)
    \/ Break(c) \/ Cut(c)

LlmNext == \E c \in Calls : Start(c) \/ Depend(c) \/ CallGoesOn(c)

\* Every request has a time limit (LLM_API_TIMEOUT, DEEPSERVER_TIMEOUT).
LlmFairness == \A c \in Calls : WF_llmVars(CallGoesOn(c))

LlmSpec == LlmInit /\ [][LlmNext]_llmVars /\ LlmFairness

-------------------------------------------------------------------------------
\* One broken connection is not an error: a call fails only if the server gave
\* it no answer, if another call closed its client, or if a second connection
\* of its own broke.  A suggestion, whose client is injected, gets no retry.
EndsForAReason ==
    \A c \in Calls : result[c] = "error" =>
        c \in faulted \cup hit \/ breaks[c] >= IF how[c] = "suggest" THEN 1 ELSE 2

\* Suggestions are not refused while the server runs.
SuggestServed == \A c \in Calls : result[c] # "refused"
=============================================================================
