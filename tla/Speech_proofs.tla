---------------------------- MODULE Speech_proofs ----------------------------
(***************************************************************************)
(* Proofs about the calls of language models, for any number of calls and  *)
(* of connections that break; about the clients that a server process      *)
(* leaves open; about a session of speech input with any number of         *)
(* transcripts; and about spoken replies: the segments that a text of any  *)
(* length is cut into, and the order in which both endpoints speak them.   *)
(***************************************************************************)
EXTENDS Speech, Lifespan, SequenceTheorems, WellFoundedInduction, TLAPS

-----------------------------------------------------------------------------
(* Calls (LlmCalls).                                                        *)

\* A client that is closed under a call was closed by another call, which has
\* said so.
CutIsHit ==
    \A c \in Calls : pc[c] \in {"held", "wait"} /\ using[c] \in closed => c \in hit

\* A call that may not get another client has lost one already, or had none to
\* lose: it is a suggestion.
OneReset ==
    \A c \in Calls :
        pc[c] \in {"wait", "closing"} /\ how[c] # "suggest" /\ {"reset", "outer"} \cap left[c] = {}
            => c \in faulted \cup hit \/ breaks[c] >= 1

\* Only suggestions hold a client before they post.
HeldToSuggest == \A c \in Calls : pc[c] = "held" => how[c] = "suggest"

\* A client that was replaced is closed.
ReplacedIsClosed == (1 .. made) \ closed \subseteq {client}

CallsInv ==
    /\ LlmTypeOK /\ Startup <= made
    /\ CutIsHit /\ OneReset /\ HeldToSuggest /\ EndsForAReason /\ ReplacedIsClosed

\* What a call has to give as the reason of an error.
Reason(c) ==
    c \in faulted \cup hit \/ breaks[c] >= IF how[c] = "suggest" THEN 1 ELSE 2

\* What a step of call c never takes away from any call, and what it leaves alone.
OthersKept(c) ==
    /\ how' = how
    /\ faulted' \in {faulted, faulted \cup {c}}
    /\ breaks' = [breaks EXCEPT ![c] = breaks'[c]]
    /\ breaks'[c] \in 0 .. MaxBreaks /\ breaks'[c] >= breaks[c]
    /\ left' = [left EXCEPT ![c] = left'[c]]
    /\ left'[c] \subseteq Tries

\* c has posted, with a client that is not closed.
Posted(c) ==
    /\ pc' = [pc EXCEPT ![c] = "wait"]
    /\ using' = [using EXCEPT ![c] = client']
    /\ result' = result
    /\ closed' = closed /\ hit' = hit
    /\ made' \in Nat /\ made <= made'
    /\ client' \in 1 .. made' /\ client' \notin closed
    /\ ReplacedIsClosed'

LEMMA CallTypes ==
  ASSUME LlmTypeOK, NEW c \in Calls
  PROVE  /\ how[c] \in LlmWays \cup {"post"}
         /\ left[c] \subseteq Tries
         /\ breaks[c] \in 0 .. MaxBreaks /\ breaks[c] \in Nat
         /\ using[c] \in 0 .. made /\ made \in Nat
  BY CallsAssumption DEF LlmTypeOK

LEMMA PostsAClient ==
  ASSUME LlmTypeOK, ReplacedIsClosed, NEW c \in Calls, NEW now \in {0, client},
         now = 0 => client = 0 \/ client \in closed,
         Post(c, now, closed), closed' = closed, hit' = hit
  PROVE  Posted(c)
<1>1. /\ made \in Nat /\ client \in 0 .. made /\ closed \subseteq 1 .. made
      /\ (1 .. made) \ closed \subseteq {client}
  BY DEF LlmTypeOK, ReplacedIsClosed
<1>2. CASE now # 0 /\ now \notin closed
  <2>1. client' = client /\ made' = made /\ client # 0 /\ client \notin closed
    BY <1>2 DEF Post, GetClient
  <2> QED
    BY <1>1, <2>1 DEF Post, Waits, Posted, ReplacedIsClosed
<1>3. CASE ~(now # 0 /\ now \notin closed)
  <2>1. client' = made + 1 /\ made' = made + 1
    BY <1>3 DEF Post, GetClient
  <2>2. client = 0 \/ client \in closed
    BY <1>3
  <2>3. ReplacedIsClosed'
    BY <1>1, <2>1, <2>2 DEF ReplacedIsClosed
  <2> QED
    BY <1>1, <2>1, <2>3 DEF Post, Waits, Posted
<1> QED
  BY <1>2, <1>3

LEMMA PostedKeeps ==
  ASSUME CallsInv, NEW c \in Calls, OthersKept(c), Posted(c), pc[c] # "done",
         how[c] # "suggest" /\ {"reset", "outer"} \cap left'[c] = {}
             => c \in faulted \cup hit \/ breaks'[c] >= 1
  PROVE  CallsInv'
<1> USE CallsAssumption DEF CallsInv
<1>1. LlmTypeOK' /\ Startup <= made'
  BY DEF LlmTypeOK, OthersKept, Posted, Startup
<1>2. CutIsHit'
  BY DEF LlmTypeOK, CutIsHit, Posted
<1>3. OneReset'
  <2> SUFFICES ASSUME NEW d \in Calls, pc'[d] \in {"wait", "closing"}, how'[d] # "suggest",
                      {"reset", "outer"} \cap left'[d] = {}
               PROVE  d \in faulted' \cup hit' \/ breaks'[d] >= 1
    BY DEF OneReset
  <2>1. CASE d = c
    BY <2>1 DEF OthersKept, Posted
  <2>2. CASE d # c
    BY <2>2 DEF LlmTypeOK, OneReset, OthersKept, Posted
  <2> QED
    BY <2>1, <2>2
<1>4. EndsForAReason'
  <2> SUFFICES ASSUME NEW d \in Calls, result'[d] = "error"
               PROVE  d \in faulted' \cup hit' \/ breaks'[d] >= IF how'[d] = "suggest" THEN 1 ELSE 2
    BY DEF EndsForAReason
  <2>1. d \in faulted \cup hit \/ breaks[d] >= IF how[d] = "suggest" THEN 1 ELSE 2
    BY DEF EndsForAReason, Posted
  <2>2. breaks'[d] >= breaks[d] /\ breaks'[d] \in Nat /\ breaks[d] \in Nat
    BY CallTypes DEF LlmTypeOK, OthersKept
  <2> QED
    BY <2>1, <2>2 DEF OthersKept, Posted
<1>5. ReplacedIsClosed'
  BY DEF Posted
<1>6. HeldToSuggest'
  BY DEF LlmTypeOK, HeldToSuggest, OthersKept, Posted
<1> QED
  BY <1>1, <1>2, <1>3, <1>4, <1>5, <1>6

\* c is over.
LEMMA EndedKeeps ==
  ASSUME CallsInv, NEW c \in Calls, OthersKept(c),
         NEW r \in {"answer", "error", "refused"}, Ends(c, r),
         UNCHANGED <<clientVars, using, hit>>,
         r = "error" => c \in faulted' \cup hit
                        \/ breaks'[c] >= IF how[c] = "suggest" THEN 1 ELSE 2
  PROVE  CallsInv'
<1> USE CallsAssumption DEF CallsInv, clientVars
<1>1. LlmTypeOK' /\ Startup <= made'
  BY DEF LlmTypeOK, OthersKept, Ends
<1>2. CutIsHit'
  BY DEF LlmTypeOK, CutIsHit, Ends
<1>3. OneReset'
  BY DEF LlmTypeOK, OneReset, OthersKept, Ends
<1>4. EndsForAReason'
  <2> SUFFICES ASSUME NEW d \in Calls, result'[d] = "error"
               PROVE  d \in faulted' \cup hit' \/ breaks'[d] >= IF how'[d] = "suggest" THEN 1 ELSE 2
    BY DEF EndsForAReason
  <2>1. CASE d = c
    BY <2>1 DEF LlmTypeOK, Ends, OthersKept
  <2>2. CASE d # c
    BY <2>2 DEF LlmTypeOK, EndsForAReason, Ends, OthersKept
  <2> QED
    BY <2>1, <2>2
<1>5. ReplacedIsClosed'
  BY DEF ReplacedIsClosed
<1>6. HeldToSuggest'
  BY DEF LlmTypeOK, HeldToSuggest, OthersKept, Ends
<1> QED
  BY <1>1, <1>2, <1>3, <1>4, <1>5, <1>6

\* c closes the client under the other calls, and awaits that.
LEMMA ClosedKeeps ==
  ASSUME CallsInv, NEW c \in Calls, OthersKept(c), pc[c] = "wait",
         client # 0, client' = 0, closed' = closed \cup {client},
         hit' = hit \cup {d \in Calls \ {c} : pc[d] \in {"held", "wait"} /\ using[d] = client},
         pc' = [pc EXCEPT ![c] = "closing"], UNCHANGED <<made, using, result>>,
         how[c] # "suggest" => c \in faulted \cup hit \/ breaks'[c] >= 1
  PROVE  CallsInv'
<1> USE CallsAssumption DEF CallsInv
<1>1. LlmTypeOK' /\ Startup <= made'
  BY DEF LlmTypeOK, OthersKept
<1>2. CutIsHit'
  BY DEF LlmTypeOK, CutIsHit
<1>3. OneReset'
  <2> SUFFICES ASSUME NEW d \in Calls, pc'[d] \in {"wait", "closing"}, how'[d] # "suggest",
                      {"reset", "outer"} \cap left'[d] = {}
               PROVE  d \in faulted' \cup hit' \/ breaks'[d] >= 1
    BY DEF OneReset
  <2>1. CASE d = c
    BY <2>1 DEF OthersKept
  <2>2. CASE d # c
    BY <2>2 DEF LlmTypeOK, OneReset, OthersKept
  <2> QED
    BY <2>1, <2>2
<1>4. EndsForAReason'
  <2> SUFFICES ASSUME NEW d \in Calls, result'[d] = "error"
               PROVE  d \in faulted' \cup hit' \/ breaks'[d] >= IF how'[d] = "suggest" THEN 1 ELSE 2
    BY DEF EndsForAReason
  <2>1. d \in faulted \cup hit \/ breaks[d] >= IF how[d] = "suggest" THEN 1 ELSE 2
    BY DEF EndsForAReason
  <2>2. breaks'[d] >= breaks[d] /\ breaks'[d] \in Nat /\ breaks[d] \in Nat
    BY CallTypes DEF LlmTypeOK, OthersKept
  <2> QED
    BY <2>1, <2>2 DEF OthersKept
<1>5. ReplacedIsClosed'
  BY DEF ReplacedIsClosed
<1>6. HeldToSuggest'
  BY DEF LlmTypeOK, HeldToSuggest, OthersKept, Ends
<1> QED
  BY <1>1, <1>2, <1>3, <1>4, <1>5, <1>6

\* FallsBack, where an error has a reason: the call posts anew, or is over.
LEMMA FallsBackKeeps ==
  ASSUME CallsInv, NEW c \in Calls, NEW ways, FallsBack(c, ways), pc[c] = "wait",
         UNCHANGED <<closed, how, hit>>, faulted' \in {faulted, faulted \cup {c}},
         breaks' = [breaks EXCEPT ![c] = breaks'[c]],
         breaks'[c] \in 0 .. MaxBreaks, breaks'[c] >= breaks[c],
         c \in faulted' \cup hit \/ breaks'[c] >= IF how[c] = "suggest" THEN 1 ELSE 2
  PROVE  CallsInv'
<1>1. CASE "fallback" \in left[c] /\ how[c] \in ways
  <2>1. left' = [left EXCEPT ![c] = Fresh("ask")] /\ Post(c, client, closed)
    BY <1>1 DEF FallsBack
  <2>2. Fresh("ask") = {"reset", "shorten"}
    BY DEF Fresh
  <2>3. left'[c] = {"reset", "shorten"} /\ left' = [left EXCEPT ![c] = left'[c]]
    BY <2>1, <2>2 DEF CallsInv, LlmTypeOK
  <2>4. OthersKept(c)
    BY <2>3 DEF OthersKept, Tries
  <2>5. client = 0 => client = 0 \/ client \in closed
    OBVIOUS
  <2>6. Posted(c)
    BY <2>1, PostsAClient DEF CallsInv
  <2> QED
    BY <2>3, <2>4, <2>6, PostedKeeps
<1>2. CASE ~("fallback" \in left[c] /\ how[c] \in ways)
  <2>1. Ends(c, "error") /\ UNCHANGED <<clientVars, using, left, hit>>
    BY <1>2 DEF FallsBack, clientVars
  <2>2. OthersKept(c)
    BY <2>1, CallTypes DEF CallsInv, LlmTypeOK, OthersKept
  <2> QED
    BY <2>1, <2>2, EndedKeeps
<1> QED
  BY <1>1, <1>2

\* PoolError, in Break and in Cut.
LEMMA PoolErrorKeeps ==
  ASSUME CallsInv, NEW c \in Calls, PoolError(c), pc[c] = "wait",
         UNCHANGED <<how, faulted>>,
         breaks' = [breaks EXCEPT ![c] = breaks'[c]],
         breaks'[c] \in 0 .. MaxBreaks, breaks'[c] >= breaks[c],
         c \in hit \/ breaks'[c] = breaks[c] + 1
  PROVE  CallsInv'
<1>1. breaks[c] \in Nat /\ breaks'[c] \in Nat /\ left[c] \subseteq Tries
  BY CallTypes DEF CallsInv
<1>2. c \in hit \/ breaks'[c] >= 1
  BY <1>1
<1>3. CASE MayReset(c)
  <2>1. Reset(c)
    BY <1>3 DEF PoolError
  <2>2. left' = [left EXCEPT ![c] = AfterReset(c)] /\ AfterReset(c) \subseteq left[c]
    BY <2>1 DEF Reset, AfterReset
  <2>3. left'[c] = AfterReset(c)
    BY <2>2 DEF CallsInv, LlmTypeOK
  <2>4. OthersKept(c)
    BY <1>1, <2>2, <2>3 DEF OthersKept
  <2>5. CASE client # 0 /\ client \notin closed
    <3>1. /\ client' = 0 /\ closed' = closed \cup {client}
          /\ hit' = hit \cup {d \in Calls \ {c} : pc[d] \in {"held", "wait"} /\ using[d] = client}
          /\ pc' = [pc EXCEPT ![c] = "closing"] /\ UNCHANGED <<made, using, result>>
      BY <2>1, <2>5 DEF Reset
    <3> QED
      BY <1>2, <2>4, <2>5, <3>1, ClosedKeeps
  <2>6. CASE ~(client # 0 /\ client \notin closed)
    <3>1. Post(c, 0, closed) /\ closed' = closed /\ hit' = hit
      BY <2>1, <2>6 DEF Reset
    <3>2. 0 \in {0, client} /\ (0 = 0 => client = 0 \/ client \in closed)
      BY <2>6
    <3>3. Posted(c)
      BY <3>1, <3>2, PostsAClient DEF CallsInv
    <3> QED
      BY <1>2, <2>4, <3>3, PostedKeeps
  <2> QED
    BY <2>5, <2>6
<1>4. CASE ~MayReset(c)
  <2>1. FallsBack(c, {"classify"}) /\ UNCHANGED <<closed, hit>>
    BY <1>4 DEF PoolError
  <2>2. how[c] # "suggest" => c \in faulted \cup hit \/ breaks[c] >= 1
    BY <1>4 DEF CallsInv, OneReset, MayReset
  <2>3. c \in faulted' \cup hit \/ breaks'[c] >= IF how[c] = "suggest" THEN 1 ELSE 2
    BY <1>1, <2>2
  <2> QED
    BY <2>1, <2>3, FallsBackKeeps
<1> QED
  BY <1>3, <1>4

LEMMA CallsInvInit == LlmInit => CallsInv
<1> SUFFICES ASSUME LlmInit PROVE CallsInv
  OBVIOUS
<1> USE CallsAssumption DEF LlmInit, Startup
<1>1. how \in [Calls -> LlmWays \cup {"post"}]
  BY DEF LlmWays
<1>2. LlmTypeOK /\ Startup <= made
  BY <1>1 DEF LlmTypeOK
<1>3. CutIsHit /\ OneReset /\ HeldToSuggest /\ EndsForAReason /\ ReplacedIsClosed
  BY DEF CutIsHit, OneReset, HeldToSuggest, EndsForAReason, ReplacedIsClosed
<1> QED
  BY <1>2, <1>3 DEF CallsInv

LEMMA CallsInvStep == CallsInv /\ (LlmNext \/ UNCHANGED llmVars) => CallsInv'
<1> SUFFICES ASSUME CallsInv, LlmNext \/ UNCHANGED llmVars PROVE CallsInv'
  OBVIOUS
<1>1. ASSUME NEW c \in Calls, Start(c) PROVE CallsInv'
  <2>1. pc[c] = "new" /\ how[c] # "suggest" /\ Post(c, client, closed)
        /\ left' = [left EXCEPT ![c] = Fresh(how[c])]
        /\ UNCHANGED <<closed, how, faulted, hit, breaks>>
    BY <1>1 DEF Start
  <2>2. how[c] \in {"ask", "classify", "stream", "post"}
    BY <2>1, CallTypes DEF CallsInv, LlmWays
  <2>3. Fresh(how[c]) \subseteq Tries /\ "reset" \in Fresh(how[c])
    BY <2>2 DEF Fresh, Tries
  <2>4. left'[c] = Fresh(how[c])
    BY <2>1 DEF CallsInv, LlmTypeOK
  <2>5. OthersKept(c)
    BY <2>1, <2>3, <2>4, CallTypes DEF CallsInv, LlmTypeOK, OthersKept
  <2>6. Posted(c)
    BY <2>1, PostsAClient DEF CallsInv
  <2> QED
    BY <2>1, <2>3, <2>4, <2>5, <2>6, PostedKeeps
<1>2. ASSUME NEW c \in Calls, Depend(c) PROVE CallsInv'
  <2>1. /\ pc[c] = "new" /\ how[c] = "suggest"
        /\ UNCHANGED <<clientVars, how, left, faulted, hit, breaks>>
    BY <1>2 DEF Depend
  <2>2. OthersKept(c)
    BY <2>1, CallTypes DEF CallsInv, LlmTypeOK, OthersKept
  <2>3. CASE Startup \in closed
    <3>1. Ends(c, "refused") /\ UNCHANGED using
      BY <1>2, <2>3 DEF Depend
    <3> QED
      BY <2>1, <2>2, <3>1, EndedKeeps
  <2>4. CASE Startup \notin closed
    <3>1. /\ pc' = [pc EXCEPT ![c] = "held"] /\ using' = [using EXCEPT ![c] = Startup]
          /\ UNCHANGED <<client, made, closed, how, left, result, faulted, hit, breaks>>
      BY <1>2, <2>4 DEF Depend, clientVars
    <3>2. LlmTypeOK' /\ Startup <= made'
      BY <3>1 DEF CallsInv, LlmTypeOK, Startup
    <3>3. CutIsHit'
      BY <2>4, <3>1 DEF CallsInv, LlmTypeOK, CutIsHit
    <3>4. OneReset' /\ HeldToSuggest' /\ EndsForAReason' /\ ReplacedIsClosed'
      BY <2>1, <3>1 DEF CallsInv, LlmTypeOK, OneReset, HeldToSuggest, EndsForAReason,
         ReplacedIsClosed
    <3> QED
      BY <3>2, <3>3, <3>4 DEF CallsInv
  <2> QED
    BY <2>3, <2>4
<1>3. ASSUME NEW c \in Calls, Suggest(c) PROVE CallsInv'
  <2>1. /\ pc[c] = "held" /\ pc' = [pc EXCEPT ![c] = "wait"]
        /\ left' = [left EXCEPT ![c] = {"shorten"}]
        /\ UNCHANGED <<client, made, closed, how, using, result, faulted, hit, breaks>>
    BY <1>3 DEF Suggest, Waits, Fresh, clientVars
  <2>2. how[c] = "suggest" /\ {"shorten"} \subseteq Tries
    BY <2>1 DEF CallsInv, HeldToSuggest, Tries
  <2>3. LlmTypeOK' /\ Startup <= made'
    BY <2>1, <2>2 DEF CallsInv, LlmTypeOK
  <2>4. CutIsHit' /\ HeldToSuggest'
    BY <2>1 DEF CallsInv, LlmTypeOK, CutIsHit, HeldToSuggest
  <2>5. OneReset'
    BY <2>1, <2>2 DEF CallsInv, LlmTypeOK, OneReset
  <2>6. EndsForAReason' /\ ReplacedIsClosed'
    BY <2>1 DEF CallsInv, EndsForAReason, ReplacedIsClosed
  <2> QED
    BY <2>3, <2>4, <2>5, <2>6 DEF CallsInv
<1>4. ASSUME NEW c \in Calls, Answer(c) PROVE CallsInv'
  <2>1. Ends(c, "answer") /\ UNCHANGED <<clientVars, how, using, left, faulted, hit, breaks>>
    BY <1>4 DEF Answer
  <2>2. OthersKept(c)
    BY <2>1, CallTypes DEF CallsInv, LlmTypeOK, OthersKept
  <2> QED
    BY <2>1, <2>2, EndedKeeps
<1>5. ASSUME NEW c \in Calls, TooLong(c) PROVE CallsInv'
  <2>1. /\ pc[c] = "wait" /\ using[c] \notin closed
        /\ UNCHANGED <<closed, how, faulted, hit, breaks>>
    BY <1>5 DEF TooLong, Reachable
  <2>2. CASE how[c] = "suggest"
    <3>1. /\ left' = [left EXCEPT ![c] = left[c] \ {"shorten"}]
          /\ UNCHANGED <<client, made, closed, how, using, pc, result, faulted, hit, breaks>>
      BY <1>5, <2>1, <2>2 DEF TooLong
    <3>2. LlmTypeOK' /\ Startup <= made'
      BY <3>1 DEF CallsInv, LlmTypeOK
    <3>3. CutIsHit' /\ HeldToSuggest' /\ EndsForAReason' /\ ReplacedIsClosed'
      BY <3>1 DEF CallsInv, CutIsHit, HeldToSuggest, EndsForAReason, ReplacedIsClosed
    <3>4. OneReset'
      BY <2>2, <3>1 DEF CallsInv, LlmTypeOK, OneReset
    <3> QED
      BY <3>2, <3>3, <3>4 DEF CallsInv
  <2>3. CASE how[c] # "suggest"
    <3>1. /\ left' = [left EXCEPT ![c] = (left[c] \ {"shorten"}) \cup {"outer"}]
          /\ Post(c, client, closed)
      BY <1>5, <2>3 DEF TooLong
    <3>2. left'[c] = (left[c] \ {"shorten"}) \cup {"outer"}
      BY <3>1 DEF CallsInv, LlmTypeOK
    <3>3. left'[c] \subseteq Tries
      BY <3>2, CallTypes DEF CallsInv, Tries
    <3>4. OthersKept(c)
      BY <2>1, <3>1, <3>2, <3>3, CallTypes DEF CallsInv, LlmTypeOK, OthersKept
    <3>5. Posted(c)
      BY <2>1, <3>1, PostsAClient DEF CallsInv
    <3> QED
      BY <2>1, <3>2, <3>4, <3>5, PostedKeeps
  <2> QED
    BY <2>2, <2>3
<1>6. ASSUME NEW c \in Calls, BadReply(c) \/ NoReply(c) PROVE CallsInv'
  <2>1. /\ pc[c] = "wait" /\ faulted' = faulted \cup {c}
        /\ UNCHANGED <<closed, how, hit, breaks>>
        /\ FallsBack(c, {"stream", "classify"}) \/ FallsBack(c, {"classify"})
    BY <1>6 DEF BadReply, NoReply, Reachable
  <2>2. /\ breaks' = [breaks EXCEPT ![c] = breaks'[c]]
        /\ breaks'[c] \in 0 .. MaxBreaks /\ breaks'[c] >= breaks[c]
    BY <2>1, CallTypes DEF CallsInv, LlmTypeOK
  <2> QED
    BY <2>1, <2>2, FallsBackKeeps
<1>7. ASSUME NEW c \in Calls, Break(c) PROVE CallsInv'
  <2>1. /\ pc[c] = "wait" /\ breaks[c] < MaxBreaks
        /\ breaks' = [breaks EXCEPT ![c] = breaks[c] + 1]
        /\ PoolError(c) /\ UNCHANGED <<how, faulted>>
    BY <1>7 DEF Break, Reachable
  <2>2. breaks'[c] = breaks[c] + 1
    BY <2>1 DEF CallsInv, LlmTypeOK
  <2>3. /\ breaks' = [breaks EXCEPT ![c] = breaks'[c]]
        /\ breaks'[c] \in 0 .. MaxBreaks /\ breaks'[c] >= breaks[c]
    <3>1. breaks[c] \in 0 .. MaxBreaks /\ MaxBreaks \in Nat
      BY CallTypes, CallsAssumption DEF CallsInv
    <3>2. breaks' = [breaks EXCEPT ![c] = breaks'[c]]
      BY <2>1, <2>2, Zenon
    <3>3. breaks[c] < MaxBreaks
      BY <2>1
    <3>4. breaks'[c] \in 0 .. MaxBreaks /\ breaks'[c] >= breaks[c]
      BY <2>2, <3>1, <3>3
    <3> QED
      BY <3>2, <3>4
  <2> QED
    BY <2>1, <2>2, <2>3, PoolErrorKeeps
<1>8. ASSUME NEW c \in Calls, Cut(c) PROVE CallsInv'
  <2>1. pc[c] = "wait" /\ using[c] \in closed /\ UNCHANGED <<how, faulted, breaks>>
    BY <1>8 DEF Cut
  <2>2. c \in hit
    BY <2>1 DEF CallsInv, CutIsHit
  <2>3. /\ breaks' = [breaks EXCEPT ![c] = breaks'[c]]
        /\ breaks'[c] \in 0 .. MaxBreaks /\ breaks'[c] >= breaks[c]
    BY <2>1, CallTypes DEF CallsInv, LlmTypeOK
  <2>4. CASE PoolError(c)
    BY <2>1, <2>2, <2>3, <2>4, PoolErrorKeeps
  <2>5. CASE FallsBack(c, {"classify"}) /\ UNCHANGED <<closed, hit>>
    BY <2>1, <2>2, <2>3, <2>5, FallsBackKeeps
  <2> QED
    BY <1>8, <2>4, <2>5 DEF Cut
<1>9. ASSUME NEW c \in Calls, Retry(c) PROVE CallsInv'
  <2>1. /\ pc[c] = "closing" /\ Post(c, client, closed)
        /\ UNCHANGED <<closed, how, left, faulted, hit, breaks>>
    BY <1>9 DEF Retry
  <2>2. OthersKept(c)
    BY <2>1, CallTypes DEF CallsInv, LlmTypeOK, OthersKept
  <2>3. Posted(c)
    BY <2>1, PostsAClient DEF CallsInv
  <2>4. how[c] # "suggest" /\ {"reset", "outer"} \cap left'[c] = {}
          => c \in faulted \cup hit \/ breaks'[c] >= 1
    BY <2>1 DEF CallsInv, OneReset
  <2> QED
    BY <2>1, <2>2, <2>3, <2>4, PostedKeeps
<1>10. ASSUME UNCHANGED llmVars PROVE CallsInv'
  BY <1>10 DEF llmVars, clientVars, callVars, CallsInv, LlmTypeOK, CutIsHit, OneReset,
     HeldToSuggest, EndsForAReason, ReplacedIsClosed
<1> QED
  BY <1>1, <1>2, <1>3, <1>4, <1>5, <1>6, <1>7, <1>8, <1>9, <1>10 DEF LlmNext, CallGoesOn

\* Whatever the calls of a process do to each other's clients, a call fails only
\* for a reason (call_llm_api, _ds_post and the classifiers).
THEOREM CallsFailForAReason == LlmSpec => []EndsForAReason
<1>1. CallsInv => EndsForAReason
  BY DEF CallsInv
<1>2. CallsInv /\ [LlmNext]_llmVars => CallsInv'
  BY CallsInvStep
<1> QED
  BY <1>1, <1>2, CallsInvInit, PTL DEF LlmSpec

\* All variables of the calls keep their types: no client is used or closed that
\* was not made.
THEOREM CallTypesKept == LlmSpec => []LlmTypeOK
<1>1. CallsInv => LlmTypeOK
  BY DEF CallsInv
<1>2. CallsInv /\ [LlmNext]_llmVars => CallsInv'
  BY CallsInvStep
<1> QED
  BY <1>1, <1>2, CallsInvInit, PTL DEF LlmSpec

-----------------------------------------------------------------------------
(* The life of the process (Lifespan).                                      *)

\* No call is on its way when the clients are closed, nor after that.
LifeInv ==
    /\ CallsInv
    /\ life \in LifeSteps
    /\ life = "close" => \A c \in Calls : pc[c] \in {"new", "done"}
    /\ life \in {"take", "give", "stop", "join", "stopped"} => Startup \in closed

\* Steps of the process that leave the calls alone.
LEMMA ProcessKeeps ==
  ASSUME LifeInv, UNCHANGED llmVars, life' \in LifeSteps,
         life' = "close" => life = "close" \/ \A c \in Calls : pc[c] \in {"new", "done"},
         life' \in {"take", "give", "stop", "join", "stopped"}
             => life \in {"take", "give", "stop", "join", "stopped"}
  PROVE  LifeInv'
<1>1. CallsInv'
  BY CallsInvStep DEF LifeInv
<1>2. pc' = pc /\ closed' = closed
  BY DEF llmVars, clientVars, callVars
<1> QED
  BY <1>1, <1>2 DEF LifeInv

LEMMA CloseClientsKeeps == LifeInv /\ CloseClients => LifeInv'
<1> SUFFICES ASSUME LifeInv, CloseClients PROVE LifeInv'
  OBVIOUS
<1>1. /\ \A c \in Calls : pc[c] \in {"new", "done"}
      /\ closed' = closed \cup {Startup} /\ life' \in {"take", "stop"}
      /\ UNCHANGED <<client, made, how, pc, using, left, result, faulted, hit, breaks>>
  BY DEF LifeInv, CloseClients, Proceed, callVars
<1>2. LlmTypeOK' /\ Startup <= made'
  BY <1>1 DEF LifeInv, CallsInv, LlmTypeOK, Startup
<1>3. CutIsHit'
  BY <1>1 DEF CutIsHit
<1>4. OneReset' /\ HeldToSuggest' /\ EndsForAReason' /\ ReplacedIsClosed'
  BY <1>1 DEF LifeInv, CallsInv, OneReset, HeldToSuggest, EndsForAReason, ReplacedIsClosed
<1>5. CallsInv'
  BY <1>2, <1>3, <1>4 DEF CallsInv
<1> QED
  BY <1>1, <1>5 DEF LifeInv, LifeSteps

LEMMA LifeInvInit == LlmInit /\ LifeInit => LifeInv
  BY CallsInvInit DEF LifeInit, LifeInv, LifeSteps

LEMMA LifeInvStep ==
  LifeInv /\ [LifeNext \/ (life = "serve" /\ LlmNext /\ UNCHANGED lifeVars)]_<<llmVars, lifeVars>>
    => LifeInv'
<1> SUFFICES ASSUME LifeInv,
                    [LifeNext \/ (life = "serve" /\ LlmNext /\ UNCHANGED lifeVars)]_<<llmVars, lifeVars>>
             PROVE  LifeInv'
  OBVIOUS
<1>1. CASE CloseClients
  BY <1>1, CloseClientsKeeps
<1>2. CASE InitPool \/ PreloadPrompts \/ StartRefresher \/ Terminate
  <2>1. /\ UNCHANGED llmVars /\ life' \in LifeSteps
        /\ life' \notin {"take", "give", "stop", "join", "stopped"}
        /\ life' = "close" => \A c \in Calls : pc[c] \in {"new", "done"}
    BY <1>2 DEF InitPool, PreloadPrompts, StartRefresher, Terminate, Proceed, LifeSteps
  <2> QED
    BY <2>1, ProcessKeeps
<1>3. CASE Refresh \/ Database \/ UNCHANGED <<llmVars, lifeVars>>
  <2>1. UNCHANGED llmVars /\ life' = life
    BY <1>3 DEF Refresh, Database, lifeVars
  <2> QED
    BY <2>1, ProcessKeeps DEF LifeInv
<1>4. CASE TakeConnection \/ GiveConnection \/ StopRefresher \/ JoinRefresher
  <2>1. /\ UNCHANGED llmVars
        /\ life \in {"take", "give", "stop", "join"}
        /\ life' \in {"take", "give", "stop", "join", "stopped"}
    BY <1>4 DEF TakeConnection, GiveConnection, StopRefresher, JoinRefresher, Proceed, OnError
  <2>2. life' \in LifeSteps /\ life' # "close"
    BY <2>1 DEF LifeSteps
  <2> QED
    BY <2>1, <2>2, ProcessKeeps
<1>5. CASE life = "serve" /\ LlmNext /\ UNCHANGED lifeVars
  <2>1. CallsInv' /\ life' = "serve"
    BY <1>5, CallsInvStep DEF LifeInv, lifeVars
  <2> QED
    BY <2>1 DEF LifeInv, LifeSteps
<1> QED
  BY <1>1, <1>2, <1>3, <1>4, <1>5 DEF LifeNext, Shutdown

\* Also in a process that starts, serves and shuts down, no call fails without a
\* reason: the shutdown closes the clients under nobody (lifespan.py).
THEOREM ServedCallsFailForAReason == LifeSpec => []EndsForAReason
<1>1. LifeInv => EndsForAReason
  BY DEF LifeInv, CallsInv
<1> QED
  BY <1>1, LifeInvInit, LifeInvStep, PTL DEF LifeSpec

\* When the process has stopped, at most the client made last is open, and the
\* one made at startup is not: however often and by how many calls it was
\* replaced (_close_http_client, _reset_llm_client).
THEOREM StoppedReleasesClients == LifeSpec => [](life = "stopped" => ClientsReleased)
<1>1. LifeInv => (life = "stopped" => ClientsReleased)
  BY DEF LifeInv, CallsInv, ReplacedIsClosed, ClientsReleased
<1> QED
  BY <1>1, LifeInvInit, LifeInvStep, PTL DEF LifeSpec

-----------------------------------------------------------------------------
(* Speech input (Speech).                                                   *)

\* What the client got, and then what is on its way to it, is what was heard.
Lined ==
    /\ Len(shown) + Len(tasks) = heard
    /\ \A i \in 1 .. Len(shown) : shown[i] = i
    /\ \A i \in 1 .. Len(tasks) : tasks[i] = Len(shown) + i

SttTypes ==
    /\ session \in {"new", "connecting", "open", "closing", "closed"}
    /\ listening \in {"none", "running", "cancelled", "over"}
    /\ heard \in 0 .. MaxHeard
    /\ tasks \in Seq(1 .. MaxHeard) /\ shown \in Seq(1 .. MaxHeard)

\* Nothing awaits the forwarding tasks, but when the receive task that was
\* cancelled is over they have run; so they have when the session closes.
HeardInv ==
    /\ SttTypes
    /\ session \in {"new", "connecting"} => listening = "none"
    /\ session \in {"new", "connecting", "open"} => here = "talks"
    /\ session = "closed" => listening \in {"none", "over"}
    /\ listening = "over" /\ server => tasks = << >>
    /\ here # "gone" /\ session # "closed" => Lined
    /\ session = "closed" /\ here = "eos" /\ server => Lined /\ tasks = << >>

LEMMA HeardInvInit == SttInit => HeardInv
<1> SUFFICES ASSUME SttInit PROVE HeardInv
  OBVIOUS
<1>1. << >> \in Seq(1 .. MaxHeard) /\ Len(<< >>) = 0
  OBVIOUS
<1>2. SttTypes
  BY <1>1, SpeechAssumption DEF SttInit, SttTypes
<1>3. Lined
  BY <1>1 DEF SttInit, Lined
<1> QED
  BY <1>2, <1>3 DEF SttInit, HeardInv

LEMMA HearKeeps == HeardInv /\ Hear => HeardInv'
<1> SUFFICES ASSUME HeardInv, Hear PROVE HeardInv'
  OBVIOUS
<1> DEFINE S == 1 .. MaxHeard
<1>1. /\ listening = "running" /\ heard < MaxHeard /\ heard' = heard + 1
      /\ tasks' = Append(tasks, heard + 1)
      /\ UNCHANGED <<session, listening, connected, server, here, shown>>
  BY DEF Hear
<1>2. heard \in 0 .. MaxHeard /\ MaxHeard \in Nat /\ tasks \in Seq(S) /\ shown \in Seq(S)
  BY SpeechAssumption DEF HeardInv, SttTypes
<1>3. heard + 1 \in S
  BY <1>1, <1>2
<1> HIDE DEF S
<1>4. /\ tasks' \in Seq(S) /\ Len(tasks') = Len(tasks) + 1
      /\ \A i \in 1 .. Len(tasks) : tasks'[i] = tasks[i]
      /\ tasks'[Len(tasks) + 1] = heard + 1
  BY <1>1, <1>2, <1>3, AppendProperties
<1>5. Len(tasks) \in Nat /\ Len(shown) \in Nat
  BY <1>2, LenProperties
<1>6. SttTypes'
  BY <1>1, <1>2, <1>3, <1>4 DEF HeardInv, SttTypes, S
<1>7. Lined => Lined'
  <2> SUFFICES ASSUME Lined PROVE Lined'
    OBVIOUS
  <2>1. Len(shown') + Len(tasks') = heard'
    BY <1>1, <1>4, <1>5 DEF Lined
  <2>2. \A i \in 1 .. Len(shown') : shown'[i] = i
    BY <1>1 DEF Lined
  <2>3. ASSUME NEW i \in 1 .. Len(tasks') PROVE tasks'[i] = Len(shown') + i
    <3>1. CASE i = Len(tasks) + 1
      <4>1. heard + 1 = Len(shown) + (Len(tasks) + 1)
        BY <1>5 DEF Lined
      <4> QED
        BY <1>1, <1>4, <3>1, <4>1
    <3>2. CASE i # Len(tasks) + 1
      <4>1. i \in 1 .. Len(tasks)
        BY <1>4, <1>5, <3>2
      <4> QED
        BY <1>1, <1>4, <4>1 DEF Lined
    <3> QED
      BY <3>1, <3>2
  <2> QED
    BY <2>1, <2>2, <2>3 DEF Lined
<1> QED
  BY <1>1, <1>6, <1>7 DEF HeardInv

LEMMA ForwardKeeps == HeardInv /\ Forward => HeardInv'
<1> SUFFICES ASSUME HeardInv, Forward PROVE HeardInv'
  OBVIOUS
<1> DEFINE S == 1 .. MaxHeard
<1>1. /\ tasks # << >> /\ tasks' = Tail(tasks)
      /\ UNCHANGED <<session, listening, connected, server, here, heard>>
  BY DEF Forward
<1>2. heard \in 0 .. MaxHeard /\ tasks \in Seq(S) /\ shown \in Seq(S)
  BY DEF HeardInv, SttTypes
<1> HIDE DEF S
<1>3. /\ tasks' \in Seq(S) /\ Len(tasks') = Len(tasks) - 1
      /\ \A i \in 1 .. Len(tasks) - 1 : tasks'[i] = tasks[i + 1]
      /\ Head(tasks) \in S /\ Head(tasks) = tasks[1]
  BY <1>1, <1>2, HeadTailProperties
<1>4. Len(tasks) \in Nat \ {0} /\ Len(shown) \in Nat
  BY <1>1, <1>2, LenProperties, EmptySeq
<1>5. shown' = shown \/ shown' = Append(shown, Head(tasks))
  BY DEF Forward
<1>6. shown' \in Seq(S)
  <2>1. Append(shown, Head(tasks)) \in Seq(S)
    BY <1>2, <1>3, AppendProperties
  <2> QED
    BY <1>2, <1>5, <2>1, Zenon
<1>7. SttTypes'
  BY <1>1, <1>3, <1>6 DEF HeardInv, SttTypes, S
<1>8. ASSUME here # "gone", session # "closed", Lined PROVE Lined'
  <2>1. shown' = Append(shown, Head(tasks))
    BY <1>8 DEF Forward
  <2>2. /\ Len(shown') = Len(shown) + 1
        /\ \A i \in 1 .. Len(shown) : shown'[i] = shown[i]
        /\ shown'[Len(shown) + 1] = Head(tasks)
    BY <1>2, <1>3, <2>1, AppendProperties
  <2>3. Len(shown') + Len(tasks') = heard'
    BY <1>1, <1>3, <1>4, <1>8, <2>2 DEF Lined
  <2>4. ASSUME NEW i \in 1 .. Len(shown') PROVE shown'[i] = i
    <3>1. CASE i = Len(shown) + 1
      <4>1. Head(tasks) = Len(shown) + 1
        BY <1>3, <1>4, <1>8 DEF Lined
      <4> QED
        BY <2>2, <3>1, <4>1
    <3>2. CASE i # Len(shown) + 1
      <4>1. i \in 1 .. Len(shown)
        BY <1>4, <2>2, <3>2
      <4> QED
        BY <1>8, <2>2, <4>1 DEF Lined
    <3> QED
      BY <3>1, <3>2
  <2>5. \A i \in 1 .. Len(tasks') : tasks'[i] = Len(shown') + i
    BY <1>3, <1>4, <1>8, <2>2 DEF Lined
  <2> QED
    BY <2>3, <2>4, <2>5 DEF Lined
<1> QED
  BY <1>1, <1>7, <1>8 DEF HeardInv

LEMMA HeardInvStep == HeardInv /\ [SttNext]_sttVars => HeardInv'
<1> SUFFICES ASSUME HeardInv, [SttNext]_sttVars PROVE HeardInv'
  OBVIOUS
<1>1. CASE Hear
  BY <1>1, HearKeeps
<1>2. CASE Forward
  BY <1>2, ForwardKeeps
<1>3. ASSUME UNCHANGED <<heard, tasks, shown>>,
             session' \in {"new", "connecting", "open", "closing", "closed"},
             listening' \in {"none", "running", "cancelled", "over"}
      PROVE  SttTypes' /\ (Lined => Lined')
  BY <1>3 DEF HeardInv, SttTypes, Lined
<1>4. CASE Connect \/ Connected
  <2>1. /\ UNCHANGED <<heard, tasks, shown, server>>
        /\ session \in {"new", "connecting"} /\ session' \in {"connecting", "open", "closed"}
        /\ session' = "connecting" => UNCHANGED <<listening, here>>
        /\ session' = "open" => listening' = "running" /\ here' = here
        /\ session' = "closed" => listening' = listening /\ here' = "refused"
    BY <1>4 DEF Connect, Connected
  <2>2. here = "talks" /\ listening = "none"
    BY <2>1 DEF HeardInv
  <2>3. SttTypes' /\ (Lined => Lined')
    BY <1>3, <2>1, <2>2
  <2> QED
    BY <2>1, <2>2, <2>3 DEF HeardInv
<1>5. CASE ServerGoes \/ StopListening
  <2>1. UNCHANGED <<heard, tasks, shown, session, here>> /\ ~server'
    <3>1. UNCHANGED <<heard, tasks, shown, session, here>>
      BY <1>5 DEF ServerGoes, StopListening
    <3>2. CASE ServerGoes
      BY <3>1, <3>2, Zenon DEF ServerGoes
    <3>3. CASE StopListening
      <4>1. ~server /\ server' = server
        BY <3>3 DEF StopListening
      <4> QED
        BY <3>1, <4>1, Zenon
    <3> QED
      BY <1>5, <3>2, <3>3
  <2>2. \/ listening' = listening /\ session \notin {"new", "connecting"}
        \/ listening = "running" /\ listening' = "over"
    BY <1>5, Zenon DEF ServerGoes, StopListening
  <2>3. SttTypes' /\ (Lined => Lined')
    BY <1>3, <2>1, <2>2 DEF HeardInv, SttTypes
  <2> QED
    BY <2>1, <2>2, <2>3 DEF HeardInv
<1>6. CASE StopTalking
  <2>1. /\ UNCHANGED <<heard, tasks, shown, listening, server>>
        /\ session = "open" /\ session' = "closing"
    BY <1>6 DEF StopTalking
  <2>2. SttTypes' /\ (Lined => Lined')
    BY <1>3, <2>1 DEF HeardInv, SttTypes
  <2> QED
    BY <2>1, <2>2 DEF HeardInv
<1>7. CASE CancelListening
  <2>1. /\ UNCHANGED <<heard, tasks, shown, session, here, server>>
        /\ session = "closing" /\ listening' = "cancelled"
    BY <1>7 DEF CancelListening
  <2>2. SttTypes' /\ (Lined => Lined')
    BY <1>3, <2>1 DEF HeardInv, SttTypes
  <2> QED
    BY <2>1, <2>2 DEF HeardInv
<1>8. CASE AwaitListening
  <2>1. /\ UNCHANGED <<heard, tasks, shown, session, here, server>> /\ tasks = << >>
        /\ listening = "cancelled" /\ listening' = "over"
    BY <1>8 DEF AwaitListening
  <2>2. SttTypes' /\ (Lined => Lined')
    BY <1>3, <2>1 DEF HeardInv, SttTypes
  <2> QED
    BY <2>1, <2>2 DEF HeardInv
<1>9. CASE CloseSession
  <2>1. /\ UNCHANGED <<heard, tasks, shown, listening, here, server>>
        /\ session = "closing" /\ session' = "closed" /\ listening = "over"
    BY <1>9 DEF CloseSession
  <2>2. SttTypes' /\ (Lined => Lined')
    BY <1>3, <2>1 DEF HeardInv, SttTypes
  <2> QED
    BY <2>1, <2>2 DEF HeardInv
<1>10. CASE UNCHANGED sttVars
  BY <1>10 DEF sttVars, HeardInv, SttTypes, Lined
<1> QED
  BY <1>1, <1>2, <1>4, <1>5, <1>6, <1>7, <1>8, <1>9, <1>10 DEF SttNext, Closing

\* Every transcript received before the speaker's end was read reaches the
\* client, in order, for any number of transcripts, although no one waits for the
\* tasks that forward them (chat/infra/stt).
THEOREM TranscriptsAreShown == SttSpec => []HeardIsShown
<1>1. ASSUME HeardInv PROVE HeardIsShown
  <2> SUFFICES ASSUME session = "closed", here = "eos", server
               PROVE  shown = [i \in 1 .. heard |-> i]
    BY DEF HeardIsShown
  <2>1. Lined /\ tasks = << >> /\ shown \in Seq(1 .. MaxHeard) /\ heard \in Nat
    BY <1>1 DEF HeardInv, SttTypes
  <2>2. Len(shown) = heard
    BY <2>1, LenProperties, EmptySeq DEF Lined
  <2>3. shown = [i \in 1 .. Len(shown) |-> shown[i]]
    BY <2>1
  <2>4. \A i \in 1 .. heard : shown[i] = i
    BY <2>1, <2>2 DEF Lined
  <2> QED
    BY <2>2, <2>3, <2>4
<1> QED
  BY <1>1, HeardInvInit, HeardInvStep, PTL DEF SttSpec

-----------------------------------------------------------------------------
(* Loops and joined sequences.                                               *)

\* Induction, over the members of a set.
LEMMA Upwards ==
  ASSUME NEW n \in Nat, NEW P, 0 \in P, \A i \in 1 .. n : i - 1 \in P => i \in P
  PROVE  \A i \in 0 .. n : i \in P
<1> SUFFICES ASSUME NEW m \in 0 .. n, m \notin P PROVE FALSE
  OBVIOUS
<1> DEFINE T == {j \in 0 .. n : j \notin P}
<1>1. T \subseteq Nat /\ T # {}
  OBVIOUS
<1> HIDE DEF T
<1>2. PICK x \in T : \A y \in T : <<y, x>> \notin OpToRel(<, Nat)
  BY <1>1, NatLessThanWellFounded, WFMin
<1>3. x \in 1 .. n /\ x \notin P
  BY DEF T
<1>4. x - 1 \in T
  BY <1>3 DEF T
<1>5. ~ (x - 1 < x)
  BY <1>1, <1>2, <1>4 DEF OpToRel
<1> QED
  BY <1>3, <1>5

StepsBy(f, n, T, start, step) ==
    /\ f \in [0 .. n -> T] /\ f[0] = start
    /\ \A i \in 1 .. n : f[i] = step[<<i, f[i - 1]>>]

\* What a loop makes of its elements exists, if every step makes something of it.
LEMMA StepsExist ==
  ASSUME NEW n \in Nat, NEW T, NEW start \in T, NEW step \in [(1 .. n) \X T -> T]
  PROVE  \E f : StepsBy(f, n, T, start, step)
<1> DEFINE Done(m, f) == f \in [0 .. m -> T] /\ f[0] = start
                         /\ \A i \in 1 .. m : f[i] = step[<<i, f[i - 1]>>]
           P == {m \in 0 .. n : \E f : Done(m, f)}
<1>1. 0 \in P
  <2>1. Done(0, [i \in 0 .. 0 |-> start])
    OBVIOUS
  <2> HIDE DEF Done
  <2> QED
    BY <2>1
<1>2. ASSUME NEW m \in 1 .. n, m - 1 \in P PROVE m \in P
  <2>1. PICK f : Done(m - 1, f)
    BY <1>2
  <2> DEFINE h == [i \in 0 .. m |-> IF i = m THEN step[<<m, f[m - 1]>>] ELSE f[i]]
  <2>2. f[m - 1] \in T
    BY <2>1
  <2>3. step[<<m, f[m - 1]>>] \in T
    BY <2>2
  <2>4. h \in [0 .. m -> T] /\ h[0] = start
    BY <2>1, <2>3
  <2>5. ASSUME NEW i \in 1 .. m PROVE h[i] = step[<<i, h[i - 1]>>]
    <3>1. CASE i = m
      <4>1. h[i] = step[<<m, f[m - 1]>>] /\ m - 1 \in 0 .. m /\ m - 1 # m
        BY <3>1
      <4>2. h[i - 1] = f[m - 1]
        BY <3>1, <4>1
      <4> QED
        BY <3>1, <4>1, <4>2
    <3>2. CASE i # m
      BY <2>1, <3>2
    <3> QED
      BY <3>1, <3>2
  <2>6. Done(m, h)
    BY <2>4, <2>5
  <2> HIDE DEF Done, h
  <2> QED
    BY <2>6
<1> HIDE DEF P
<1>3. n \in P
  BY <1>1, <1>2, Upwards
<1> QED
  BY <1>3 DEF P, StepsBy

\* How FlattenSeq joins the first sequences, one after another.
Joins(f, ss, S) ==
    /\ f \in [0 .. Len(ss) -> Seq(S)] /\ f[0] = << >>
    /\ \A i \in 1 .. Len(ss) : f[i] = f[i - 1] \o ss[i]

LEMMA JoinsExist ==
  ASSUME NEW S, NEW ss \in Seq(Seq(S))
  PROVE  \E f : Joins(f, ss, S)
<1> DEFINE T == Seq(S)  step == [p \in (1 .. Len(ss)) \X T |-> p[2] \o ss[p[1]]]
<1>1. Len(ss) \in Nat /\ << >> \in T
  BY LenProperties, EmptySeq
<1>2. \A i \in 1 .. Len(ss) : ss[i] \in T
  BY ElementOfSeq
<1>3. \A i \in 1 .. Len(ss), t \in T : t \o ss[i] \in T
  BY <1>2, ConcatProperties
<1> HIDE DEF T
<1>4. step \in [(1 .. Len(ss)) \X T -> T]
  BY <1>3
<1> HIDE DEF step
<1>5. PICK f : StepsBy(f, Len(ss), T, << >>, step)
  BY <1>1, <1>4, StepsExist
<1>6. ASSUME NEW i \in 1 .. Len(ss) PROVE f[i] = f[i - 1] \o ss[i]
  <2>1. f[i - 1] \in T
    <3>1. i - 1 \in 0 .. Len(ss)
      BY <1>1
    <3> QED
      BY <1>5, <3>1 DEF StepsBy
  <2> QED
    BY <1>5, <2>1 DEF step, StepsBy
<1> QED
  BY <1>5, <1>6 DEF Joins, T, StepsBy

LEMMA FlattenIs ==
  ASSUME NEW S, NEW ss \in Seq(Seq(S)), NEW f, Joins(f, ss, S)
  PROVE  FlattenSeq(ss) = f[Len(ss)]
<1>1. Len(ss) \in Nat /\ \A i \in 1 .. Len(ss) : ss[i] \in Seq(S)
  BY LenProperties, ElementOfSeq
<1>2. CASE Len(ss) = 0
  <2>1. ss = << >>
    BY <1>2, EmptySeq
  <2> QED
    BY <1>2, <2>1 DEF FlattenSeq, Joins
<1>3. CASE Len(ss) # 0
  <2> DEFINE Body(r) == [i \in 1 .. Len(ss) |-> IF i = 1 THEN ss[i] ELSE r[i - 1] \o ss[i]]
             g == [i \in 1 .. Len(ss) |-> f[i]]
             flatten == CHOOSE r : r = Body(r)
  <2>1. \A i \in 1 .. Len(ss) : i # 1 => i - 1 \in 1 .. Len(ss)
    BY <1>1
  <2>2. f[1] = ss[1]
    <3>1. f[1] = << >> \o ss[1] /\ ss[1] \in Seq(S)
      <4>1. 1 \in 1 .. Len(ss) /\ 1 - 1 = 0
        BY <1>1, <1>3
      <4> QED
        BY <1>1, <4>1 DEF Joins
    <3> QED
      BY <3>1, ConcatEmptySeq
  <2>3. ASSUME NEW i \in 1 .. Len(ss) PROVE g[i] = IF i = 1 THEN ss[i] ELSE g[i - 1] \o ss[i]
    BY <2>1, <2>2 DEF Joins
  <2>4. g = Body(g)
    BY <2>3
  <2> HIDE DEF g
  <2>5. flatten = Body(flatten)
    <3> HIDE DEF Body
    <3> QED
      BY <2>4
  <2>6. FlattenSeq(ss) = flatten[Len(ss)]
    BY <1>3 DEF FlattenSeq
  <2> HIDE DEF flatten
  <2> DEFINE P == {i \in 0 .. Len(ss) : i = 0 \/ flatten[i] = f[i]}
  <2>7. 0 \in P
    BY <1>1
  <2>8. ASSUME NEW i \in 1 .. Len(ss), i - 1 \in P PROVE i \in P
    <3>1. flatten[i] = IF i = 1 THEN ss[i] ELSE flatten[i - 1] \o ss[i]
      BY <2>5
    <3>2. CASE i = 1
      BY <2>2, <3>1, <3>2
    <3>3. CASE i # 1
      <4>1. flatten[i - 1] = f[i - 1]
        BY <2>8, <3>3
      <4> QED
        <5>1. f[i] = f[i - 1] \o ss[i]
          BY DEF Joins
        <5>2. flatten[i] = f[i]
          BY <3>1, <3>3, <4>1, <5>1, Zenon
        <5> QED
          BY <1>1, <5>2
    <3> QED
      BY <3>2, <3>3
  <2> HIDE DEF P
  <2>9. \A i \in 0 .. Len(ss) : i \in P
    BY <1>1, <2>7, <2>8, Upwards
  <2> QED
    BY <1>1, <1>3, <2>6, <2>9 DEF P
<1> QED
  BY <1>2, <1>3

LEMMA FlattenEmpty == FlattenSeq(<< >>) = << >>
BY DEF FlattenSeq

LEMMA FlattenType ==
  ASSUME NEW S, NEW ss \in Seq(Seq(S))
  PROVE  FlattenSeq(ss) \in Seq(S)
<1>1. PICK f : Joins(f, ss, S)
  BY JoinsExist
<1>2. Len(ss) \in 0 .. Len(ss)
  BY LenProperties
<1>3. f[Len(ss)] \in Seq(S)
  BY <1>1, <1>2 DEF Joins
<1> QED
  BY <1>1, <1>3, FlattenIs

LEMMA ConcatThree == \A S : \A x, y, z \in Seq(S) : x \o (y \o z) = (x \o y) \o z
BY ConcatAssociative

LEMMA FlattenConcat ==
  ASSUME NEW S, NEW a \in Seq(Seq(S)), NEW b \in Seq(Seq(S))
  PROVE  FlattenSeq(a \o b) = FlattenSeq(a) \o FlattenSeq(b)
<1> DEFINE T == Seq(S)  n == Len(a)  m == Len(b)  c == a \o b
<1>1. n \in Nat /\ m \in Nat
  BY LenProperties
<1>2. /\ c \in Seq(T) /\ Len(c) = n + m
      /\ \A i \in 1 .. n + m : c[i] = IF i <= n THEN a[i] ELSE b[i - n]
  BY ConcatProperties
<1>3. PICK f : Joins(f, a, S)
  BY JoinsExist
<1>4. PICK g : Joins(g, b, S)
  BY JoinsExist
<1> DEFINE h == [i \in 0 .. n + m |-> IF i <= n THEN f[i] ELSE f[n] \o g[i - n]]
<1> HIDE DEF T, n, m, c
<1>5. f \in [0 .. n -> T] /\ f[0] = << >> /\ \A i \in 1 .. n : f[i] = f[i - 1] \o a[i]
  BY <1>3 DEF Joins, T, n
<1>6. g \in [0 .. m -> T] /\ g[0] = << >> /\ \A i \in 1 .. m : g[i] = g[i - 1] \o b[i]
  BY <1>4 DEF Joins, T, m
<1>7. \A t, u \in T : t \o u \in T
  BY ConcatProperties DEF T
<1>8. \A i \in 1 .. m : b[i] \in T
  BY <1>1, ElementOfSeq DEF T, m
<1>9. h \in [0 .. n + m -> T]
  <2> SUFFICES ASSUME NEW i \in 0 .. n + m PROVE h[i] \in T
    OBVIOUS
  <2>1. CASE i <= n
    BY <1>1, <1>5, <2>1
  <2>2. CASE ~ (i <= n)
    <3>1. i - n \in 0 .. m /\ n \in 0 .. n
      BY <1>1, <2>2
    <3> QED
      BY <1>5, <1>6, <1>7, <2>2, <3>1
  <2> QED
    BY <2>1, <2>2
<1>10. h[0] = << >>
  BY <1>1, <1>5
<1>11. ASSUME NEW i \in 1 .. n + m PROVE h[i] = h[i - 1] \o c[i]
  <2>1. CASE i <= n
    <3>1. i \in 1 .. n /\ i - 1 <= n /\ i - 1 \in 0 .. n + m /\ i \in 0 .. n + m
      BY <1>1, <2>1
    <3>2. h[i] = f[i] /\ h[i - 1] = f[i - 1] /\ c[i] = a[i]
      BY <1>2, <2>1, <3>1
    <3>3. f[i] = f[i - 1] \o a[i]
      BY <1>5, <3>1
    <3> QED
      BY <3>2, <3>3, Zenon
  <2>2. CASE ~ (i <= n)
    <3> DEFINE k == i - n
    <3>1. k \in 1 .. m /\ i - 1 \in 0 .. n + m /\ i \in 0 .. n + m /\ (i - 1) - n = k - 1
      BY <1>1, <2>2
    <3>2. h[i] = f[n] \o g[k] /\ c[i] = b[k]
      BY <1>2, <2>2, <3>1
    <3>3. g[k] = g[k - 1] \o b[k] /\ b[k] \in T /\ g[k - 1] \in T /\ f[n] \in T
      <4>1. k - 1 \in 0 .. m /\ n \in 0 .. n
        BY <1>1, <3>1
      <4> QED
        BY <1>5, <1>6, <1>8, <3>1, <4>1
    <3>4. h[i - 1] = f[n] \o g[k - 1]
      <4>1. CASE k = 1
        <5>1. i - 1 = n /\ k - 1 = 0
          BY <1>1, <4>1
        <5>2. h[i - 1] = f[n]
          BY <1>1, <3>1, <5>1
        <5>3. f[n] \o << >> = f[n]
          BY <3>3, ConcatEmptySeq DEF T
        <5> QED
          BY <1>6, <5>1, <5>2, <5>3
      <4>2. CASE k # 1
        <5>1. ~ (i - 1 <= n)
          BY <1>1, <3>1, <4>2
        <5> QED
          BY <3>1, <5>1
      <4> QED
        BY <4>1, <4>2
    <3>5. f[n] \o (g[k - 1] \o b[k]) = (f[n] \o g[k - 1]) \o b[k]
      <4> DEFINE x == f[n]  y == g[k - 1]  z == b[k]
      <4>1. x \in T /\ y \in T /\ z \in T
        BY <3>3
      <4> HIDE DEF x, y, z
      <4>2. x \o (y \o z) = (x \o y) \o z
        BY <4>1, ConcatThree DEF T
      <4> QED
        BY <4>2 DEF x, y, z
    <3> HIDE DEF h, k
    <3> QED
      BY <3>2, <3>3, <3>4, <3>5, Zenon
  <2> QED
    BY <2>1, <2>2
<1> HIDE DEF h
<1>12. Joins(h, c, S)
  BY <1>2, <1>9, <1>10, <1>11 DEF Joins, T
<1>13. FlattenSeq(c) = h[n + m] /\ FlattenSeq(a) = f[n] /\ FlattenSeq(b) = g[m]
  BY <1>2, <1>3, <1>4, <1>12, FlattenIs DEF T, n, m
<1>14. h[n + m] = f[n] \o g[m]
  <2>1. n + m \in 0 .. n + m
    BY <1>1
  <2>2. CASE m = 0
    <3>1. h[n + m] = f[n] /\ g[m] = << >> /\ f[n] \in T
      <4>1. n + m <= n /\ n + m = n /\ n \in 0 .. n
        BY <1>1, <2>2
      <4> QED
        BY <1>5, <1>6, <2>1, <2>2, <4>1 DEF h
    <3> QED
      BY <3>1, ConcatEmptySeq DEF T
  <2>3. CASE m # 0
    <3>1. ~ (n + m <= n) /\ (n + m) - n = m
      BY <1>1, <2>3
    <3> QED
      BY <2>1, <3>1 DEF h
  <2> QED
    BY <2>2, <2>3
<1> QED
  BY <1>13, <1>14 DEF c

LEMMA FlattenAppend ==
  ASSUME NEW S, NEW ss \in Seq(Seq(S)), NEW s \in Seq(S)
  PROVE  FlattenSeq(Append(ss, s)) = FlattenSeq(ss) \o s
<1> DEFINE T == Seq(S)  one == <<s>>  f == [i \in 0 .. 1 |-> IF i = 0 THEN << >> ELSE s]
<1>1. one \in Seq(T) /\ Len(one) = 1 /\ one[1] = s
  OBVIOUS
<1>2. << >> \in T /\ << >> \o s = s
  BY EmptySeq, ConcatEmptySeq
<1> HIDE DEF one
<1>3. f \in [0 .. 1 -> T] /\ f[0] = << >> /\ f[1] = s
  BY <1>2
<1> HIDE DEF f
<1>4. f[1] = f[1 - 1] \o one[1]
  BY <1>1, <1>2, <1>3
<1>5. Joins(f, one, S)
  BY <1>1, <1>3, <1>4 DEF Joins
<1>6. FlattenSeq(one) = s
  BY <1>1, <1>3, <1>5, FlattenIs
<1>7. Append(ss, s) = ss \o one
  BY AppendIsConcat DEF one, T
<1> QED
  BY <1>1, <1>6, <1>7, FlattenConcat DEF T

LEMMA FlattenLast ==
  ASSUME NEW S, NEW ss \in Seq(Seq(S)), ss # << >>, NEW s \in Seq(S)
  PROVE  /\ [ss EXCEPT ![Len(ss)] = @ \o s] \in Seq(Seq(S))
         /\ FlattenSeq([ss EXCEPT ![Len(ss)] = @ \o s]) = FlattenSeq(ss) \o s
<1> DEFINE T == Seq(S)
<1>1. PICK first \in Seq(T), e \in T : ss = Append(first, e)
  BY SequenceEmptyOrAppend
<1>2. e \o s \in T
  BY ConcatProperties
<1> DEFINE n == Len(ss)  more == [ss EXCEPT ![n] = ss[n] \o s]
<1>3. n \in Nat /\ n = Len(first) + 1 /\ ss[n] = e /\ \A i \in 1 .. Len(first) : ss[i] = first[i]
  BY <1>1, AppendProperties, LenProperties
<1> HIDE DEF T
<1>4. more \in Seq(T) /\ Len(more) = n /\ \A i \in 1 .. n : more[i] = IF i = n THEN e \o s ELSE ss[i]
  <2>1. n \in 1 .. Len(ss) /\ ss[n] \o s \in T /\ ss \in Seq(T)
    BY <1>2, <1>3, LenProperties DEF T
  <2> HIDE DEF n
  <2>2. Len(ss) = n
    BY DEF n
  <2> QED
    BY <1>3, <2>1, <2>2, ExceptSeq
<1> DEFINE app == Append(first, e \o s)
<1>5. /\ app \in Seq(T) /\ Len(app) = n
      /\ \A i \in 1 .. n : app[i] = IF i = n THEN e \o s ELSE first[i]
  <2>1. /\ app \in Seq(T) /\ Len(app) = Len(first) + 1 /\ Len(first) \in Nat
        /\ \A i \in 1 .. Len(first) : app[i] = first[i] /\ app[Len(first) + 1] = e \o s
    BY <1>2, AppendProperties, LenProperties
  <2> QED
    BY <1>3, <2>1
<1> HIDE DEF more, app, n
<1>6. \A i \in 1 .. n : i # n => i \in 1 .. Len(first)
  BY <1>3, LenProperties
<1>7. more = app
  BY <1>3, <1>4, <1>5, <1>6, SeqEqual
<1>8. FlattenSeq(app) = FlattenSeq(first) \o (e \o s) /\ FlattenSeq(ss) = FlattenSeq(first) \o e
  BY <1>1, <1>2, FlattenAppend DEF T, app
<1>9. FlattenSeq(first) \o (e \o s) = (FlattenSeq(first) \o e) \o s
  <2> DEFINE x == FlattenSeq(first)
  <2>1. x \in Seq(S) /\ e \in Seq(S) /\ s \in Seq(S)
    BY FlattenType DEF T
  <2> HIDE DEF x
  <2> QED
    BY <2>1, ConcatThree DEF x
<1> QED
  BY <1>4, <1>7, <1>8, <1>9 DEF more, n, T

-----------------------------------------------------------------------------
(* How a text is cut (SpokenText): whatever it is, no word is lost.          *)

\* The words a, a + 1, ... b.
Upto(a, b) == [k \in 1 .. b - a + 1 |-> a + k - 1]

LEMMA UptoIsSeq ==
  ASSUME NEW a \in Nat \ {0}, NEW b \in Nat, b + 1 >= a
  PROVE  Upto(a, b) \in Seq(Nat) /\ Len(Upto(a, b)) = b - a + 1
<1>1. b - a + 1 \in Nat
  OBVIOUS
<1>2. \A k \in 1 .. b - a + 1 : a + k - 1 \in Nat
  OBVIOUS
<1> QED
  BY <1>1, <1>2 DEF Upto

LEMMA UptoJoins ==
  ASSUME NEW a \in Nat \ {0}, NEW b \in Nat, b + 1 >= a, NEW c \in Nat, c >= b
  PROVE  Upto(a, b) \o Upto(b + 1, c) = Upto(a, c)
<1> DEFINE x == Upto(a, b)  y == Upto(b + 1, c)  z == Upto(a, c)
<1>1. /\ x \in Seq(Nat) /\ Len(x) = b - a + 1 /\ y \in Seq(Nat) /\ Len(y) = c - (b + 1) + 1
      /\ z \in Seq(Nat) /\ Len(z) = c - a + 1
  <2>1. b + 1 \in Nat \ {0} /\ c + 1 >= b + 1 /\ c + 1 >= a
    OBVIOUS
  <2>2. x \in Seq(Nat) /\ Len(x) = b - a + 1
    BY UptoIsSeq
  <2>3. y \in Seq(Nat) /\ Len(y) = c - (b + 1) + 1
    BY <2>1, UptoIsSeq
  <2>4. z \in Seq(Nat) /\ Len(z) = c - a + 1
    BY <2>1, UptoIsSeq
  <2> QED
    BY <2>2, <2>3, <2>4
<1>2. /\ \A k \in 1 .. b - a + 1 : x[k] = a + k - 1
      /\ \A k \in 1 .. c - (b + 1) + 1 : y[k] = b + 1 + k - 1
      /\ \A k \in 1 .. c - a + 1 : z[k] = a + k - 1
  BY DEF Upto
<1> HIDE DEF x, y, z
<1>3. /\ x \o y \in Seq(Nat) /\ Len(x \o y) = Len(x) + Len(y)
      /\ \A i \in 1 .. Len(x) + Len(y) : (x \o y)[i] = IF i <= Len(x) THEN x[i] ELSE y[i - Len(x)]
  BY <1>1, ConcatProperties
<1>4. Len(x) + Len(y) = Len(z)
  BY <1>1
<1>5. ASSUME NEW i \in 1 .. Len(z) PROVE (x \o y)[i] = z[i]
  <2>1. CASE i <= Len(x)
    <3>1. (x \o y)[i] = x[i] /\ i \in 1 .. b - a + 1
      BY <1>1, <1>3, <1>4, <2>1
    <3> QED
      BY <1>1, <1>2, <3>1
  <2>2. CASE ~ (i <= Len(x))
    <3>1. (x \o y)[i] = y[i - Len(x)] /\ i - Len(x) \in 1 .. c - (b + 1) + 1
      BY <1>1, <1>3, <1>4, <2>2
    <3>2. y[i - Len(x)] = b + 1 + (i - Len(x)) - 1
      BY <1>2, <3>1
    <3> QED
      BY <1>1, <1>2, <3>1, <3>2
  <2> QED
    BY <2>1, <2>2
<1>6. x \o y = z
  BY <1>1, <1>3, <1>4, <1>5, SeqEqual
<1> QED
  BY <1>6 DEF x, y, z

LEMMA UptoNext ==
  ASSUME NEW a \in Nat \ {0}, NEW b \in Nat, b + 1 >= a
  PROVE  Upto(a, b) \o <<b + 1>> = Upto(a, b + 1)
<1>1. Upto(b + 1, b + 1) = <<b + 1>>
  <2>1. Upto(b + 1, b + 1) \in Seq(Nat) /\ Len(Upto(b + 1, b + 1)) = 1
    <3>1. b + 1 \in Nat \ {0} /\ b + 1 \in Nat /\ (b + 1) + 1 >= b + 1
          /\ (b + 1) - (b + 1) + 1 = 1
      OBVIOUS
    <3> QED
      BY <3>1, UptoIsSeq
  <2>2. <<b + 1>> \in Seq(Nat) /\ Len(<<b + 1>>) = 1 /\ <<b + 1>>[1] = b + 1
    OBVIOUS
  <2>3. Upto(b + 1, b + 1)[1] = b + 1
    BY DEF Upto
  <2>4. \A i \in 1 .. 1 : Upto(b + 1, b + 1)[i] = <<b + 1>>[i]
    BY <2>2, <2>3
  <2> QED
    BY <2>1, <2>2, <2>4, SeqEqual
<1>2. b + 1 \in Nat /\ b + 1 >= b
  OBVIOUS
<1> QED
  BY <1>1, <1>2, UptoJoins

LEMMA UptoNone ==
  ASSUME NEW a \in Nat \ {0}
  PROVE  Upto(a, a - 1) = << >>
<1>1. Upto(a, a - 1) \in Seq(Nat) /\ Len(Upto(a, a - 1)) = 0
  BY UptoIsSeq
<1> QED
  BY <1>1, EmptySeq

\* A piece of a text ends where there is text.
LEMMA SplitIsInside ==
  ASSUME NEW t \in Seq(Words), NEW from \in 1 .. Len(t), Len(t) - from >= LongestPiece
  PROVE  SplitAfter(t, from) \in from .. Len(t)
<1> DEFINE slice == from .. from + LongestPiece - 1
           commas == AllWith(t, slice, "comma")
           spaces == AllWith(t, slice, "space")
           places == IF Stops(t, slice) # {} THEN Stops(t, slice)
                     ELSE IF commas # {} THEN commas
                     ELSE IF spaces # {} THEN spaces ELSE slice
<1>1. LongestPiece \in Nat \ {0} /\ Len(t) \in Nat
  BY LongestAssumption, LenProperties
<1>2. slice \subseteq from .. Len(t) /\ slice # {}
  <2>1. from \in slice
    BY <1>1
  <2>2. ASSUME NEW i \in slice PROVE i \in from .. Len(t)
    BY <1>1
  <2> QED
    BY <2>1, <2>2
<1>3. places \subseteq slice /\ places # {}
  BY <1>2 DEF Stops, AllWith
<1>4. Highest(places) \in places
  <2>1. places \subseteq Nat /\ places # {} /\ \A i \in places : i <= Len(t)
    BY <1>1, <1>2, <1>3
  <2> HIDE DEF places
  <2> DEFINE T == {j \in 0 .. Len(t) : Len(t) - j \in places}
  <2>2. PICK i \in places : TRUE
    BY <2>1
  <2>3. Len(t) - i \in T
    BY <1>1, <2>1, <2>2
  <2>4. T \subseteq Nat /\ T # {}
    BY <2>3
  <2> HIDE DEF T
  <2>5. PICK x \in T : \A y \in T : <<y, x>> \notin OpToRel(<, Nat)
    BY <2>4, NatLessThanWellFounded, WFMin
  <2>6. x \in 0 .. Len(t) /\ Len(t) - x \in places
    BY <2>5 DEF T
  <2>7. ASSUME NEW j \in places PROVE Len(t) - x >= j
    <3>1. j \in Nat /\ j <= Len(t) /\ Len(t) - j \in 0 .. Len(t) /\ Len(t) - (Len(t) - j) = j
      BY <1>1, <2>1
    <3>2. Len(t) - j \in T
      BY <3>1 DEF T
    <3>3. ~ (Len(t) - j < x)
      BY <2>4, <2>5, <3>2 DEF OpToRel
    <3> QED
      BY <1>1, <2>6, <3>1, <3>3
  <2> QED
    BY <2>6, <2>7 DEF Highest
<1>5. SplitAfter(t, from) = Highest(places)
  BY DEF SplitAfter
<1> QED
  BY <1>2, <1>3, <1>4, <1>5

\* Pieces that follow one another from the first word on.
Consecutive(t) ==
    {ps \in Seq((1 .. Len(t)) \X (1 .. Len(t))) :
       \A p \in 1 .. Len(ps) :
          ps[p][1] <= ps[p][2] /\ ps[p][1] = (IF p = 1 THEN 1 ELSE ps[p - 1][2] + 1)}

EndOf(ps) == IF ps = << >> THEN 0 ELSE ps[Len(ps)][2]

\* One more piece, when some text is left.
NextPiece(t, ps) ==
    LET from == IF ps = << >> THEN 1 ELSE ps[Len(ps)][2] + 1
    IN  IF from > Len(t) THEN ps
        ELSE IF Len(t) - from < LongestPiece THEN Append(ps, <<from, Len(t)>>)
        ELSE Append(ps, <<from, SplitAfter(t, from)>>)

LEMMA NextPieceIs ==
  ASSUME NEW t \in Seq(Words), NEW ps \in Consecutive(t)
  PROVE  /\ NextPiece(t, ps) \in Consecutive(t)
         /\ EndOf(ps) \in 0 .. Len(t) /\ EndOf(NextPiece(t, ps)) \in 0 .. Len(t)
         /\ EndOf(ps) = Len(t) \/ EndOf(NextPiece(t, ps)) > EndOf(ps)
         /\ EndOf(ps) = Len(t) => NextPiece(t, ps) = ps
<1> DEFINE Pair == (1 .. Len(t)) \X (1 .. Len(t))  from == EndOf(ps) + 1
<1>1. Len(t) \in Nat /\ Len(ps) \in Nat /\ ps \in Seq(Pair)
      /\ (ps # << >> => Len(ps) \in 1 .. Len(ps)) /\ (ps = << >> => Len(ps) = 0)
  BY LenProperties, EmptySeq DEF Consecutive
<1>2. EndOf(ps) \in 0 .. Len(t)
  <2>1. CASE ps = << >>
    BY <1>1, <2>1 DEF EndOf
  <2>2. CASE ps # << >>
    <3>1. ps[Len(ps)] \in Pair
      BY <1>1, <2>2, ElementOfSeq
    <3> QED
      BY <2>2, <3>1 DEF EndOf
  <2> QED
    BY <2>1, <2>2
<1>3. CASE EndOf(ps) = Len(t)
  <2>1. NextPiece(t, ps) = ps
    BY <1>1, <1>2, <1>3 DEF NextPiece, EndOf
  <2> QED
    BY <1>2, <1>3, <2>1
<1>4. CASE EndOf(ps) # Len(t)
  <2>1. from \in 1 .. Len(t)
    BY <1>1, <1>2, <1>4
  <2> DEFINE to == IF Len(t) - from < LongestPiece THEN Len(t) ELSE SplitAfter(t, from)
             next == Append(ps, <<from, to>>)
  <2>2. to \in from .. Len(t)
    <3>1. LongestPiece \in Nat
      BY LongestAssumption
    <3>2. CASE Len(t) - from < LongestPiece
      BY <1>1, <2>1, <3>2
    <3>3. CASE ~ (Len(t) - from < LongestPiece)
      <4>1. Len(t) - from >= LongestPiece
        BY <1>1, <2>1, <3>1, <3>3
      <4> QED
        BY <2>1, <3>3, <4>1, SplitIsInside
    <3> QED
      BY <3>2, <3>3
  <2>3. NextPiece(t, ps) = next
    <3>1. from = IF ps = << >> THEN 1 ELSE ps[Len(ps)][2] + 1
      BY DEF EndOf
    <3>2. ~ (from > Len(t))
      BY <1>1, <2>1
    <3> HIDE DEF from
    <3> QED
      BY <3>1, <3>2 DEF NextPiece
  <2> HIDE DEF to
  <2>4. <<from, to>> \in Pair /\ from <= to
    BY <1>1, <2>1, <2>2
  <2>5. /\ next \in Seq(Pair) /\ next # << >> /\ Len(next) = Len(ps) + 1
        /\ \A i \in 1 .. Len(ps) : next[i] = ps[i]
        /\ next[Len(ps) + 1] = <<from, to>>
    <3> HIDE DEF Pair, from
    <3> QED
      BY <1>1, <2>4, AppendProperties
  <2> HIDE DEF next
  <2>6. EndOf(next) = to
    BY <2>5 DEF EndOf
  <2>7. ASSUME NEW p \in 1 .. Len(next)
        PROVE  next[p][1] <= next[p][2] /\ next[p][1] = (IF p = 1 THEN 1 ELSE next[p - 1][2] + 1)
    <3>1. CASE p = Len(ps) + 1
      <4>1. next[p] = <<from, to>>
        BY <2>5, <3>1
      <4>2. from = IF p = 1 THEN 1 ELSE next[p - 1][2] + 1
        <5>1. CASE ps = << >>
          BY <1>1, <3>1, <5>1 DEF EndOf
        <5>2. CASE ps # << >>
          <6>1. p # 1 /\ p - 1 = Len(ps) /\ Len(ps) \in 1 .. Len(ps)
            BY <1>1, <3>1, <5>2
          <6>2. next[p - 1] = ps[Len(ps)]
            BY <2>5, <6>1
          <6> QED
            BY <5>2, <6>1, <6>2 DEF EndOf
        <5> QED
          BY <5>1, <5>2
      <4> QED
        BY <2>4, <4>1, <4>2
    <3>2. CASE p # Len(ps) + 1
      <4>1. p \in 1 .. Len(ps)
        BY <1>1, <2>5, <3>2
      <4>2. p # 1 => p - 1 \in 1 .. Len(ps)
        BY <1>1, <4>1
      <4>3. next[p] = ps[p] /\ (p # 1 => next[p - 1] = ps[p - 1])
        BY <2>5, <4>1, <4>2
      <4> QED
        BY <4>1, <4>3 DEF Consecutive
    <3> QED
      BY <3>1, <3>2
  <2>8. next \in Consecutive(t)
    BY <2>5, <2>7 DEF Consecutive
  <2>9. to \in 0 .. Len(t) /\ to > EndOf(ps)
    BY <1>1, <1>2, <2>1, <2>2
  <2> QED
    BY <1>2, <1>4, <2>3, <2>6, <2>8, <2>9
<1> QED
  BY <1>3, <1>4

\* The pieces are the whole text.
LEMMA PiecesAreWhole ==
  ASSUME NEW t \in Seq(Words)
  PROVE  Pieces(t) \in Consecutive(t) /\ EndOf(Pieces(t)) = Len(t)
<1> DEFINE T == Consecutive(t)  n == Len(t)
           step == [x \in (1 .. n) \X T |-> NextPiece(t, x[2])]
<1>1. n \in Nat
  BY LenProperties
<1>2. << >> \in T
  BY EmptySeq DEF Consecutive
<1>3. step \in [(1 .. n) \X T -> T]
  <2> SUFFICES ASSUME NEW x \in (1 .. n) \X T PROVE NextPiece(t, x[2]) \in T
    OBVIOUS
  <2>1. x[2] \in T
    OBVIOUS
  <2> QED
    BY <2>1, NextPieceIs
<1> HIDE DEF T, n, step
<1>4. PICK f : StepsBy(f, n, T, << >>, step)
  BY <1>1, <1>2, <1>3, StepsExist
<1>5. \A i \in 0 .. n : f[i] \in T
  BY <1>4 DEF StepsBy
<1>6. ASSUME NEW i \in 1 .. n PROVE f[i] = NextPiece(t, f[i - 1]) /\ f[i - 1] \in T
  <2>1. i - 1 \in 0 .. n
    BY <1>1
  <2>2. f[i] = step[<<i, f[i - 1]>>] /\ f[i - 1] \in T
    BY <1>4, <1>5, <2>1 DEF StepsBy
  <2> QED
    BY <2>2 DEF step
<1>7. Pieces(t) = f[n]
  <2> DEFINE Body(r) == [i \in 0 .. n |-> IF i = 0 THEN << >> ELSE NextPiece(t, r[i - 1])]
             after == CHOOSE r : r = Body(r)
  <2>1. f = Body(f)
    <3>1. f = [i \in 0 .. n |-> f[i]] /\ f[0] = << >>
      BY <1>4 DEF StepsBy
    <3>2. \A i \in 0 .. n : i # 0 => i \in 1 .. n
      BY <1>1
    <3>3. \A i \in 0 .. n : f[i] = IF i = 0 THEN << >> ELSE NextPiece(t, f[i - 1])
      BY <1>6, <3>1, <3>2
    <3> QED
      BY <3>1, <3>3
  <2>2. after = Body(after)
    <3> HIDE DEF Body
    <3> QED
      BY <2>1
  <2>3. Pieces(t) = after[n]
    BY DEF Pieces, Stepwise, NextPiece, n
  <2> HIDE DEF after
  <2> DEFINE P == {i \in 0 .. n : after[i] = f[i]}
  <2>4. 0 \in P
    BY <1>1, <1>4, <2>2 DEF StepsBy
  <2>5. ASSUME NEW i \in 1 .. n, i - 1 \in P PROVE i \in P
    <3>1. after[i] = NextPiece(t, after[i - 1])
      BY <1>1, <2>2
    <3>2. after[i] = f[i]
      BY <1>6, <2>5, <3>1
    <3> QED
      BY <1>1, <3>2
  <2> HIDE DEF P
  <2>6. \A i \in 0 .. n : i \in P
    BY <1>1, <2>4, <2>5, Upwards
  <2> QED
    BY <1>1, <2>3, <2>6 DEF P
<1> DEFINE Q == {i \in 0 .. n : EndOf(f[i]) >= i}
<1>8. 0 \in Q
  BY <1>1, <1>4 DEF StepsBy, EndOf
<1>9. ASSUME NEW i \in 1 .. n, i - 1 \in Q PROVE i \in Q
  <2>1. f[i] = NextPiece(t, f[i - 1]) /\ f[i - 1] \in Consecutive(t) /\ EndOf(f[i - 1]) >= i - 1
    BY <1>6, <1>9 DEF T
  <2>2. /\ EndOf(f[i - 1]) \in 0 .. n /\ EndOf(f[i]) \in 0 .. n
        /\ \/ EndOf(f[i - 1]) = n /\ f[i] = f[i - 1]
           \/ EndOf(f[i]) > EndOf(f[i - 1])
    BY <2>1, NextPieceIs DEF n
  <2>3. EndOf(f[i]) >= i
    BY <1>1, <2>1, <2>2
  <2> QED
    BY <1>1, <2>3
<1> HIDE DEF Q
<1>10. n \in Q /\ n \in 0 .. n
  <2>1. \A i \in 0 .. n : i \in Q
    BY <1>1, <1>8, <1>9, Upwards
  <2> QED
    BY <1>1, <2>1
<1>11. EndOf(f[n]) \in 0 .. n
  BY <1>5, <1>10, NextPieceIs DEF T, n
<1> QED
  BY <1>1, <1>5, <1>7, <1>10, <1>11 DEF Q, T, n

\* The next word opens a token, or is added to the last one.
NextToken(t, a, ts, k) ==
    LET i == a + k - 1
    IN  IF k = 1 \/ t[i - 1].end = "comma" THEN Append(ts, <<i>>)
        ELSE [ts EXCEPT ![Len(ts)] = @ \o <<i>>]

LEMMA LastOfNone == \A e : [<< >> EXCEPT ![Len(<< >>)] = e] = << >>
<1> SUFFICES ASSUME NEW e PROVE [<< >> EXCEPT ![0] = e] = << >>
  OBVIOUS
<1>1. DOMAIN << >> = {}
  OBVIOUS
<1> QED
  BY <1>1

LEMMA NextTokenIs ==
  ASSUME NEW t, NEW a \in Nat \ {0}, NEW k \in Nat \ {0}, NEW ts \in Seq(Seq(Nat))
  PROVE  /\ NextToken(t, a, ts, k) \in Seq(Seq(Nat))
         /\ k = 1 \/ ts # << >> =>
              /\ NextToken(t, a, ts, k) # << >>
              /\ FlattenSeq(NextToken(t, a, ts, k)) = FlattenSeq(ts) \o <<a + k - 1>>
<1> DEFINE T == Seq(Nat)  i == a + k - 1
<1>1. <<i>> \in T
  <2>1. i \in Nat
    OBVIOUS
  <2> QED
    BY <2>1
<1>2. CASE k = 1 \/ t[i - 1].end = "comma"
  <2>1. NextToken(t, a, ts, k) = Append(ts, <<i>>)
    BY <1>2 DEF NextToken
  <2>2. Append(ts, <<i>>) \in Seq(T) /\ Append(ts, <<i>>) # << >>
    <3> HIDE DEF T, i
    <3>1. ts \in Seq(T)
      BY DEF T
    <3> QED
      BY <1>1, <3>1, AppendProperties
  <2>3. FlattenSeq(Append(ts, <<i>>)) = FlattenSeq(ts) \o <<i>>
    BY <1>1, FlattenAppend
  <2> QED
    BY <2>1, <2>2, <2>3
<1>3. CASE ~ (k = 1 \/ t[i - 1].end = "comma")
  <2>1. NextToken(t, a, ts, k) = [ts EXCEPT ![Len(ts)] = @ \o <<i>>]
    BY <1>3 DEF NextToken
  <2>2. CASE ts = << >>
    <3>1. [ts EXCEPT ![Len(ts)] = @ \o <<i>>] = << >>
      BY <2>2, LastOfNone
    <3> QED
      BY <1>3, <2>1, <2>2, <3>1, EmptySeq
  <2>3. CASE ts # << >>
    <3>1. /\ [ts EXCEPT ![Len(ts)] = @ \o <<i>>] \in Seq(T)
          /\ FlattenSeq([ts EXCEPT ![Len(ts)] = @ \o <<i>>]) = FlattenSeq(ts) \o <<i>>
      BY <1>1, <2>3, FlattenLast
    <3>2. [ts EXCEPT ![Len(ts)] = @ \o <<i>>] # << >>
      <4>1. Len(ts) \in 1 .. Len(ts) /\ DOMAIN ts = 1 .. Len(ts)
        BY <2>3, EmptySeq, LenProperties
      <4>2. DOMAIN [ts EXCEPT ![Len(ts)] = @ \o <<i>>] = DOMAIN ts
        OBVIOUS
      <4>3. DOMAIN << >> = {}
        OBVIOUS
      <4> QED
        BY <4>1, <4>2, <4>3
    <3> HIDE DEF i
    <3> QED
      BY <2>1, <3>1, <3>2 DEF i
  <2> QED
    BY <2>2, <2>3
<1> QED
  BY <1>2, <1>3

\* The tokens of a piece are its words, one after another.
LEMMA TokensAreWhole ==
  ASSUME NEW t, NEW a \in Nat \ {0}, NEW b \in Nat, a <= b
  PROVE  /\ Tokens(t, <<a, b>>) \in Seq(Seq(Nat))
         /\ FlattenSeq(Tokens(t, <<a, b>>)) = Upto(a, b)
<1> DEFINE T == Seq(Seq(Nat))  n == b - a + 1
           step == [x \in (1 .. n) \X T |-> NextToken(t, a, x[2], x[1])]
<1>1. n \in Nat \ {0} /\ << >> \in T
  BY EmptySeq
<1>2. step \in [(1 .. n) \X T -> T]
  <2> SUFFICES ASSUME NEW x \in (1 .. n) \X T PROVE NextToken(t, a, x[2], x[1]) \in T
    OBVIOUS
  <2>1. x[2] \in T /\ x[1] \in Nat \ {0}
    OBVIOUS
  <2> QED
    BY <2>1, NextTokenIs
<1> HIDE DEF T, n, step
<1>3. PICK f : StepsBy(f, n, T, << >>, step)
  BY <1>1, <1>2, StepsExist
<1> DEFINE Body(r) == [i \in 0 .. n |-> IF i = 0 THEN << >> ELSE NextToken(t, a, r[i - 1], i)]
           after == CHOOSE r : r = Body(r)
<1>4. f = Body(f)
  <2>1. f = [i \in 0 .. n |-> f[i]] /\ f[0] = << >>
    BY <1>3 DEF StepsBy
  <2>2. ASSUME NEW i \in 1 .. n PROVE f[i] = NextToken(t, a, f[i - 1], i)
    <3>1. i - 1 \in 0 .. n
      BY <1>1
    <3>2. f[i] = step[<<i, f[i - 1]>>] /\ f[i - 1] \in T
      BY <1>3, <3>1 DEF StepsBy
    <3> QED
      BY <3>2 DEF step
  <2>3. \A i \in 0 .. n : i # 0 => i \in 1 .. n
    BY <1>1
  <2>4. \A i \in 0 .. n : f[i] = IF i = 0 THEN << >> ELSE NextToken(t, a, f[i - 1], i)
    BY <2>1, <2>2, <2>3
  <2> QED
    BY <2>1, <2>4
<1>5. after = Body(after)
  <2> HIDE DEF Body
  <2> QED
    BY <1>4
<1>6. Tokens(t, <<a, b>>) = after[n]
  <2>1. <<a, b>>[1] = a /\ <<a, b>>[2] = b
    OBVIOUS
  <2> QED
    BY <2>1 DEF Tokens, Stepwise, NextToken, n
<1> HIDE DEF after
<1> DEFINE P == {i \in 0 .. n : /\ after[i] \in T /\ (i # 0 => after[i] # << >>)
                                /\ FlattenSeq(after[i]) = Upto(a, a + i - 1)}
<1>7. 0 \in P
  <2>1. after[0] = << >>
    BY <1>1, <1>5
  <2>2. FlattenSeq(<< >>) = Upto(a, a + 0 - 1)
    BY FlattenEmpty, UptoNone
  <2> QED
    BY <1>1, <2>1, <2>2
<1>8. ASSUME NEW i \in 1 .. n, i - 1 \in P PROVE i \in P
  <2> DEFINE ts == after[i - 1]
  <2>1. after[i] = NextToken(t, a, ts, i)
    BY <1>1, <1>5
  <2>2. ts \in T /\ (i # 1 => ts # << >>) /\ FlattenSeq(ts) = Upto(a, a + (i - 1) - 1)
    BY <1>1, <1>8
  <2> HIDE DEF ts
  <2>3. NextToken(t, a, ts, i) \in T /\ NextToken(t, a, ts, i) # << >>
        /\ FlattenSeq(NextToken(t, a, ts, i)) = FlattenSeq(ts) \o <<a + i - 1>>
    <3>1. ts \in Seq(Seq(Nat)) /\ i \in Nat \ {0} /\ (i = 1 \/ ts # << >>)
      BY <1>1, <2>2 DEF T
    <3> QED
      BY <3>1, NextTokenIs DEF T
  <2>4. Upto(a, a + (i - 1) - 1) \o <<a + i - 1>> = Upto(a, a + i - 1)
    <3>1. /\ a + (i - 1) - 1 \in Nat /\ (a + (i - 1) - 1) + 1 >= a
          /\ (a + (i - 1) - 1) + 1 = a + i - 1
      BY <1>1
    <3> QED
      BY <3>1, UptoNext
  <2>5. FlattenSeq(after[i]) = Upto(a, a + i - 1) /\ after[i] \in T /\ after[i] # << >>
    BY <2>1, <2>2, <2>3, <2>4
  <2> QED
    BY <1>1, <2>5
<1> HIDE DEF P
<1>9. n \in P
  <2>1. \A i \in 0 .. n : i \in P
    BY <1>1, <1>7, <1>8, Upwards
  <2> QED
    BY <1>1, <2>1
<1>10. a + n - 1 = b
  BY DEF n
<1> QED
  BY <1>6, <1>9, <1>10 DEF P, T

\* The next token opens a segment, or is added to the last one.
NextGroup(t, tokens, gs, k) ==
    IF k > 1 /\ IsLocal(t, tokens[k]) = IsLocal(t, tokens[k - 1])
    THEN [gs EXCEPT ![Len(gs)] = @ \o tokens[k]]
    ELSE Append(gs, tokens[k])

LEMMA NextGroupIs ==
  ASSUME NEW t, NEW tokens, NEW k \in Nat \ {0}, tokens[k] \in Seq(Nat),
         NEW gs \in Seq(Seq(Nat))
  PROVE  /\ NextGroup(t, tokens, gs, k) \in Seq(Seq(Nat))
         /\ k = 1 \/ gs # << >> =>
              /\ NextGroup(t, tokens, gs, k) # << >>
              /\ FlattenSeq(NextGroup(t, tokens, gs, k)) = FlattenSeq(gs) \o tokens[k]
<1> DEFINE T == Seq(Nat)  e == tokens[k]
           same == k > 1 /\ IsLocal(t, tokens[k]) = IsLocal(t, tokens[k - 1])
<1>1. e \in T
  OBVIOUS
<1>2. NextGroup(t, tokens, gs, k) = IF same THEN [gs EXCEPT ![Len(gs)] = @ \o e] ELSE Append(gs, e)
  BY DEF NextGroup
<1>3. k = 1 => ~same
  OBVIOUS
<1> HIDE DEF same, e
<1>4. CASE ~same
  <2>1. Append(gs, e) \in Seq(T) /\ Append(gs, e) # << >>
    <3> HIDE DEF T
    <3>1. gs \in Seq(T)
      BY DEF T
    <3> QED
      BY <1>1, <3>1, AppendProperties
  <2>2. FlattenSeq(Append(gs, e)) = FlattenSeq(gs) \o e
    BY <1>1, FlattenAppend
  <2> QED
    BY <1>2, <1>4, <2>1, <2>2 DEF e
<1>5. CASE same
  <2>1. CASE gs = << >>
    <3>1. [gs EXCEPT ![Len(gs)] = @ \o e] = << >>
      BY <2>1, LastOfNone
    <3> QED
      BY <1>2, <1>3, <1>5, <2>1, <3>1, EmptySeq
  <2>2. CASE gs # << >>
    <3>1. /\ [gs EXCEPT ![Len(gs)] = @ \o e] \in Seq(T)
          /\ FlattenSeq([gs EXCEPT ![Len(gs)] = @ \o e]) = FlattenSeq(gs) \o e
      BY <1>1, <2>2, FlattenLast
    <3>2. [gs EXCEPT ![Len(gs)] = @ \o e] # << >>
      <4>1. Len(gs) \in 1 .. Len(gs) /\ DOMAIN gs = 1 .. Len(gs)
        BY <2>2, EmptySeq, LenProperties
      <4>2. DOMAIN [gs EXCEPT ![Len(gs)] = @ \o e] = DOMAIN gs
        OBVIOUS
      <4>3. DOMAIN << >> = {}
        OBVIOUS
      <4> QED
        BY <4>1, <4>2, <4>3
    <3> QED
      BY <1>2, <1>5, <3>1, <3>2 DEF e
  <2> QED
    BY <2>1, <2>2
<1> QED
  BY <1>4, <1>5

\* Grouping tokens keeps their words.
LEMMA GroupsAreWhole ==
  ASSUME NEW t, NEW tokens \in Seq(Seq(Nat))
  PROVE  /\ Groups(t, tokens) \in Seq(Seq(Nat))
         /\ FlattenSeq(Groups(t, tokens)) = FlattenSeq(tokens)
<1> DEFINE S == Seq(Nat)  T == Seq(S)  n == Len(tokens)
           step == [x \in (1 .. n) \X T |-> NextGroup(t, tokens, x[2], x[1])]
<1>1. n \in Nat /\ << >> \in T
  BY LenProperties, EmptySeq
<1>2. \A i \in 1 .. n : tokens[i] \in S
  BY ElementOfSeq
<1>3. step \in [(1 .. n) \X T -> T]
  <2> SUFFICES ASSUME NEW x \in (1 .. n) \X T PROVE NextGroup(t, tokens, x[2], x[1]) \in T
    OBVIOUS
  <2>1. x[2] \in T /\ x[1] \in 1 .. n /\ x[1] \in Nat \ {0}
    OBVIOUS
  <2>2. tokens[x[1]] \in Seq(Nat)
    BY <1>2, <2>1
  <2> QED
    BY <2>1, <2>2, NextGroupIs
<1> HIDE DEF T, n, step
<1>4. PICK f : StepsBy(f, n, T, << >>, step)
  BY <1>1, <1>3, StepsExist
<1> DEFINE Body(r) == [i \in 0 .. n |->
                        IF i = 0 THEN << >> ELSE NextGroup(t, tokens, r[i - 1], i)]
           after == CHOOSE r : r = Body(r)
<1>5. f = Body(f)
  <2>1. f = [i \in 0 .. n |-> f[i]] /\ f[0] = << >>
    BY <1>4 DEF StepsBy
  <2>2. ASSUME NEW i \in 1 .. n PROVE f[i] = NextGroup(t, tokens, f[i - 1], i)
    <3>1. i - 1 \in 0 .. n
      BY <1>1
    <3>2. f[i] = step[<<i, f[i - 1]>>] /\ f[i - 1] \in T
      BY <1>4, <3>1 DEF StepsBy
    <3> QED
      BY <3>2 DEF step
  <2>3. \A i \in 0 .. n : i # 0 => i \in 1 .. n
    BY <1>1
  <2>4. \A i \in 0 .. n : f[i] = IF i = 0 THEN << >> ELSE NextGroup(t, tokens, f[i - 1], i)
    BY <2>1, <2>2, <2>3
  <2> QED
    BY <2>1, <2>4
<1>6. after = Body(after)
  <2> HIDE DEF Body
  <2> QED
    BY <1>5
<1>7. Groups(t, tokens) = after[n]
  BY DEF Groups, Stepwise, NextGroup, n
<1>8. PICK h : Joins(h, tokens, Nat)
  BY JoinsExist
<1>9. /\ h \in [0 .. n -> S] /\ h[0] = << >>
      /\ \A i \in 1 .. n : h[i] = h[i - 1] \o tokens[i]
  BY <1>8 DEF Joins, n
<1> HIDE DEF after
<1> DEFINE P == {i \in 0 .. n : /\ after[i] \in T /\ (i # 0 => after[i] # << >>)
                                /\ FlattenSeq(after[i]) = h[i]}
<1>10. 0 \in P
  <2>1. after[0] = << >>
    BY <1>1, <1>6
  <2> QED
    BY <1>1, <1>9, <2>1, FlattenEmpty
<1>11. ASSUME NEW i \in 1 .. n, i - 1 \in P PROVE i \in P
  <2> DEFINE gs == after[i - 1]
  <2>1. after[i] = NextGroup(t, tokens, gs, i)
    BY <1>1, <1>6
  <2>2. gs \in T /\ (i # 1 => gs # << >>) /\ FlattenSeq(gs) = h[i - 1]
    BY <1>1, <1>11
  <2> HIDE DEF gs
  <2>3. NextGroup(t, tokens, gs, i) \in T /\ NextGroup(t, tokens, gs, i) # << >>
        /\ FlattenSeq(NextGroup(t, tokens, gs, i)) = FlattenSeq(gs) \o tokens[i]
    <3>1. gs \in Seq(Seq(Nat)) /\ i \in Nat \ {0} /\ (i = 1 \/ gs # << >>)
          /\ tokens[i] \in Seq(Nat)
      BY <1>1, <1>2, <2>2 DEF T
    <3> QED
      BY <3>1, NextGroupIs DEF T
  <2>4. h[i] = h[i - 1] \o tokens[i]
    BY <1>9
  <2>5. FlattenSeq(after[i]) = h[i] /\ after[i] \in T /\ after[i] # << >>
    BY <2>1, <2>2, <2>3, <2>4
  <2> QED
    BY <1>1, <2>5
<1> HIDE DEF P
<1>12. n \in P
  <2>1. \A i \in 0 .. n : i \in P
    BY <1>1, <1>10, <1>11, Upwards
  <2> QED
    BY <1>1, <2>1
<1>13. FlattenSeq(tokens) = h[n]
  BY <1>8, FlattenIs DEF n
<1> QED
  BY <1>7, <1>12, <1>13 DEF P, T

\* Wherever a text is cut, its segments are its words, each once and in order.
LEMMA SegmentsAreWhole ==
  ASSUME NEW t \in Seq(Words)
  PROVE  /\ Segments(t) \in Seq(Seq(Nat))
         /\ FlattenSeq(Segments(t)) = [w \in DOMAIN t |-> w]
<1> DEFINE S == Seq(Nat)  T == Seq(S)  ps == Pieces(t)  n == Len(ps)
           gs == [p \in DOMAIN ps |-> Groups(t, Tokens(t, ps[p]))]
           end(p) == IF p = 0 THEN 0 ELSE ps[p][2]
<1>1. /\ ps \in Seq((1 .. Len(t)) \X (1 .. Len(t))) /\ EndOf(ps) = Len(t)
      /\ \A p \in 1 .. n : ps[p][1] <= ps[p][2] /\ ps[p][1] = (IF p = 1 THEN 1 ELSE ps[p - 1][2] + 1)
  BY PiecesAreWhole DEF Consecutive
<1>2. n \in Nat /\ DOMAIN ps = 1 .. n /\ Len(t) \in Nat /\ DOMAIN t = 1 .. Len(t)
  BY <1>1, LenProperties
<1> HIDE DEF ps
<1>3. ASSUME NEW p \in 1 .. n
      PROVE  /\ ps[p] = <<ps[p][1], ps[p][2]>>
             /\ ps[p][1] \in Nat \ {0} /\ ps[p][2] \in Nat /\ ps[p][1] <= ps[p][2]
             /\ ps[p][1] = end(p - 1) + 1 /\ end(p - 1) \in Nat
  <2>1. ps[p] \in (1 .. Len(t)) \X (1 .. Len(t))
    BY <1>1, ElementOfSeq
  <2>2. p # 1 => p - 1 \in 1 .. n /\ p - 1 # 0
    BY <1>2
  <2>3. p # 1 => ps[p - 1] \in (1 .. Len(t)) \X (1 .. Len(t))
    BY <1>1, <2>2, ElementOfSeq
  <2>4. ps[p][1] = (IF p = 1 THEN 1 ELSE ps[p - 1][2] + 1) /\ ps[p][1] <= ps[p][2]
    BY <1>1
  <2>5. ps[p][1] = end(p - 1) + 1 /\ end(p - 1) \in Nat
    <3>1. CASE p = 1
      BY <2>4, <3>1
    <3>2. CASE p # 1
      BY <2>2, <2>3, <2>4, <3>2
    <3> QED
      BY <3>1, <3>2
  <2> QED
    BY <2>1, <2>4, <2>5
<1>4. ASSUME NEW p \in 1 .. n
      PROVE  gs[p] \in T /\ FlattenSeq(gs[p]) = Upto(end(p - 1) + 1, end(p))
  <2>1. gs[p] = Groups(t, Tokens(t, ps[p]))
    BY <1>2
  <2>2. /\ Tokens(t, ps[p]) \in Seq(Seq(Nat))
        /\ FlattenSeq(Tokens(t, ps[p])) = Upto(ps[p][1], ps[p][2])
    <3> DEFINE a == ps[p][1]  b == ps[p][2]
    <3>1. ps[p] = <<a, b>> /\ a \in Nat \ {0} /\ b \in Nat /\ a <= b
      BY <1>3
    <3> HIDE DEF a, b
    <3>2. Tokens(t, <<a, b>>) \in Seq(Seq(Nat)) /\ FlattenSeq(Tokens(t, <<a, b>>)) = Upto(a, b)
      BY <3>1, TokensAreWhole
    <3>3. Tokens(t, ps[p]) \in Seq(Seq(Nat)) /\ FlattenSeq(Tokens(t, ps[p])) = Upto(a, b)
      BY <3>1, <3>2
    <3> QED
      BY <3>3 DEF a, b
  <2>3. Upto(ps[p][1], ps[p][2]) = Upto(end(p - 1) + 1, end(p))
    BY <1>3
  <2> QED
    BY <2>1, <2>2, <2>3, GroupsAreWhole
<1>5. gs \in Seq(T) /\ Len(gs) = n
  <2> HIDE DEF T, gs, n
  <2>1. gs \in [1 .. n -> T]
    <3>1. gs = [p \in 1 .. n |-> gs[p]]
      BY <1>2 DEF gs
    <3> QED
      BY <1>4, <3>1
  <2> QED
    BY <1>2, <2>1
<1>6. Segments(t) = FlattenSeq(gs)
  BY DEF Segments, ps
<1> HIDE DEF gs, n, end
<1>7. PICK f : Joins(f, gs, S)
  BY <1>5, JoinsExist
<1>8. /\ f \in [0 .. n -> T] /\ f[0] = << >>
      /\ \A i \in 1 .. n : f[i] = f[i - 1] \o gs[i]
  BY <1>5, <1>7 DEF Joins
<1> DEFINE P == {i \in 0 .. n : FlattenSeq(f[i]) = Upto(1, end(i))}
<1>9. 0 \in P
  <2>1. Upto(1, 0) = << >>
    <3>1. 1 \in Nat \ {0} /\ 1 - 1 = 0
      OBVIOUS
    <3> QED
      BY <3>1, UptoNone
  <2> QED
    BY <1>2, <1>8, <2>1, FlattenEmpty DEF end
<1>10. ASSUME NEW i \in 1 .. n, i - 1 \in P PROVE i \in P
  <2>1. f[i] = f[i - 1] \o gs[i] /\ f[i - 1] \in T /\ gs[i] \in T
    <3>1. i - 1 \in 0 .. n
      BY <1>2
    <3> QED
      BY <1>4, <1>8, <3>1
  <2>2. FlattenSeq(f[i]) = FlattenSeq(f[i - 1]) \o FlattenSeq(gs[i])
    BY <2>1, FlattenConcat
  <2>3. FlattenSeq(f[i - 1]) = Upto(1, end(i - 1)) /\ FlattenSeq(gs[i]) = Upto(end(i - 1) + 1, end(i))
    BY <1>4, <1>10
  <2>4. end(i - 1) \in Nat /\ end(i) \in Nat /\ end(i) >= end(i - 1) /\ end(i - 1) + 1 >= 1
    <3>1. end(i) = ps[i][2]
      BY <1>2 DEF end
    <3>2. /\ ps[i][1] \in Nat \ {0} /\ ps[i][2] \in Nat /\ ps[i][1] <= ps[i][2]
          /\ ps[i][1] = end(i - 1) + 1 /\ end(i - 1) \in Nat
      BY <1>3
    <3> QED
      BY <3>1, <3>2
  <2>5. Upto(1, end(i - 1)) \o Upto(end(i - 1) + 1, end(i)) = Upto(1, end(i))
    <3> DEFINE b == end(i - 1)  c == end(i)
    <3>1. b \in Nat /\ c \in Nat /\ c >= b /\ b + 1 >= 1 /\ 1 \in Nat \ {0}
      BY <2>4
    <3> HIDE DEF b, c
    <3>2. Upto(1, b) \o Upto(b + 1, c) = Upto(1, c)
      BY <3>1, UptoJoins
    <3> QED
      BY <3>2 DEF b, c
  <2>6. FlattenSeq(f[i]) = Upto(1, end(i))
    BY <2>2, <2>3, <2>5
  <2>7. i \in 0 .. n
    BY <1>2
  <2> QED
    BY <2>6, <2>7
<1> HIDE DEF P
<1>11. n \in P
  <2>1. \A i \in 0 .. n : i \in P
    BY <1>2, <1>9, <1>10, Upwards
  <2> QED
    BY <1>2, <2>1
<1>12. FlattenSeq(gs) = f[n]
  BY <1>5, <1>7, FlattenIs
<1>13. end(n) = Len(t)
  <2>1. ps = << >> <=> n = 0
    BY <1>1, EmptySeq DEF n
  <2> QED
    BY <1>1, <2>1 DEF end, EndOf, n
<1>14. Upto(1, Len(t)) = [w \in DOMAIN t |-> w]
  <2>1. \A w \in 1 .. Len(t) : 1 + w - 1 = w
    OBVIOUS
  <2>2. Len(t) - 1 + 1 = Len(t)
    BY <1>2
  <2> QED
    BY <1>2, <2>1, <2>2 DEF Upto
<1>15. FlattenSeq(f[n]) = Upto(1, Len(t))
  BY <1>11, <1>13 DEF P
<1>16. f[n] \in T
  BY <1>2, <1>8
<1> QED
  BY <1>6, <1>12, <1>14, <1>15, <1>16

-----------------------------------------------------------------------------
(* Speech output (Speech).                                                   *)

Sounds == {"running", "audio", "silent", "failed"}

\* What was said is kept function by function, as speakers share nothing.
SpeakerTypes ==
    /\ streams \subseteq Speakers
    /\ stage \in [Speakers -> {"new", "rewrite", "cut", "sent", "left", "closed", "done"}]
    /\ segments \in [Speakers -> Seq(Seq(Nat))]
    /\ sound \in [Speakers -> Seq(Sounds)]
    /\ \A s \in Speakers : Len(sound[s]) = Len(segments[s])
    /\ said = [s \in Speakers |-> said[s]]

\* What the endpoint passes on is a result that does not change any more.
Streamed(s) ==
    /\ said[s] \in Seq(Nat \X Sounds)
    /\ Len(said[s]) <= Len(segments[s])
    /\ \A k \in 1 .. Len(said[s]) : said[s][k] = <<k, sound[s][k]>> /\ sound[s][k] # "running"
    /\ stage[s] \in {"new", "rewrite", "cut"} => said[s] = << >>
    /\ stage[s] = "done" => Len(said[s]) = Len(segments[s])

StreamedInv == SpeakerTypes /\ \A s \in streams : Streamed(s)

LEMMA SpeakerLengths ==
  ASSUME SpeakerTypes, NEW s \in Speakers
  PROVE  /\ Len(segments[s]) \in Nat /\ Len(sound[s]) = Len(segments[s])
         /\ \A i \in 1 .. Len(segments[s]) : sound[s][i] \in Sounds
         /\ DOMAIN sound[s] = 1 .. Len(segments[s])
<1>1. segments[s] \in Seq(Seq(Nat)) /\ sound[s] \in Seq(Sounds)
      /\ Len(sound[s]) = Len(segments[s])
  BY DEF SpeakerTypes
<1> QED
  BY <1>1, LenProperties, ElementOfSeq

LEMMA StreamedInvInit == TtsInit => StreamedInv
<1> SUFFICES ASSUME TtsInit PROVE StreamedInv
  OBVIOUS
<1>1. << >> \in Seq(Seq(Nat)) /\ << >> \in Seq(Sounds) /\ << >> \in Seq(Nat \X Sounds)
      /\ Len(<< >>) = 0
  OBVIOUS
<1>2. SpeakerTypes
  BY <1>1 DEF TtsInit, SpeakerTypes
<1>3. \A s \in streams : Streamed(s)
  BY <1>1, <1>2 DEF TtsInit, Streamed, SpeakerTypes
<1> QED
  BY <1>2, <1>3 DEF StreamedInv

\* A speaker of whom nothing changes, or only the stage.
LEMMA OnlyStage ==
  ASSUME StreamedInv, NEW s \in Speakers, NEW to \in {"rewrite", "cut", "left"}, Goto(s, to),
         UNCHANGED <<streams, segments, sound, said>>,
         to \in {"rewrite", "cut"} => stage[s] \in {"new", "rewrite"}
  PROVE  StreamedInv'
<1>1. stage' = [stage EXCEPT ![s] = to]
  BY DEF Goto
<1>2. SpeakerTypes'
  BY <1>1 DEF StreamedInv, SpeakerTypes
<1>3. \A u \in streams : Streamed(u)'
  BY <1>1 DEF StreamedInv, SpeakerTypes, Streamed
<1> QED
  BY <1>2, <1>3 DEF StreamedInv

LEMMA SoundKeeps ==
  ASSUME StreamedInv, NEW s \in Speakers, NEW i, Sound(s, i)
  PROVE  StreamedInv'
<1>1. PICK r \in {"audio", "silent", "failed"} : sound' = [sound EXCEPT ![s][i] = r]
  BY DEF Sound
<1>2. /\ i \in 1 .. Len(segments[s]) /\ sound[s][i] = "running"
      /\ UNCHANGED <<stage, streams, segments, said>>
  BY SpeakerLengths DEF Sound, StreamedInv
<1>3. /\ sound'[s] = [sound[s] EXCEPT ![i] = r]
      /\ \A u \in Speakers \ {s} : sound'[u] = sound[u]
  BY <1>1 DEF StreamedInv, SpeakerTypes
<1>4. sound[s] \in Seq(Sounds) /\ Len(sound[s]) = Len(segments[s]) /\ r \in Sounds
  BY DEF StreamedInv, SpeakerTypes, Sounds
<1>5. sound'[s] \in Seq(Sounds) /\ Len(sound'[s]) = Len(sound[s])
  BY <1>2, <1>3, <1>4, ExceptSeq
<1>6. \A k \in 1 .. Len(segments[s]) : k # i => sound'[s][k] = sound[s][k]
  BY <1>3, <1>4
<1>7. SpeakerTypes'
  <2>1. \A u \in Speakers : sound'[u] \in Seq(Sounds) /\ Len(sound'[u]) = Len(segments[u])
    BY <1>3, <1>4, <1>5 DEF StreamedInv, SpeakerTypes
  <2>2. sound' \in [Speakers -> Seq(Sounds)]
    BY <1>1, <2>1 DEF StreamedInv, SpeakerTypes
  <2> QED
    BY <1>2, <2>1, <2>2 DEF StreamedInv, SpeakerTypes
<1>8. ASSUME NEW u \in streams PROVE Streamed(u)'
  <2>1. u \in Speakers
    BY DEF StreamedInv, SpeakerTypes
  <2>2. CASE u # s
    BY <1>2, <1>3, <2>1, <2>2 DEF StreamedInv, Streamed
  <2>3. CASE u = s
    <3>1. Streamed(s) /\ Len(segments[s]) \in Nat
      BY <2>1, <2>3, SpeakerLengths DEF StreamedInv
    <3>2. Len(said[s]) \in Nat /\ 1 .. Len(said[s]) \subseteq 1 .. Len(segments[s])
      BY <3>1, LenProperties DEF Streamed
    <3>3. \A k \in 1 .. Len(said[s]) : k # i
      BY <1>2, <3>1 DEF Streamed
    <3>4. \A k \in 1 .. Len(said[s]) : sound'[s][k] = sound[s][k]
      BY <1>6, <3>2, <3>3
    <3> QED
      BY <1>2, <2>3, <3>1, <3>4 DEF Streamed
  <2> QED
    BY <2>2, <2>3
<1> QED
  BY <1>2, <1>7, <1>8 DEF StreamedInv

LEMMA SendKeeps ==
  ASSUME StreamedInv, NEW s \in Speakers, Send(s)
  PROVE  StreamedInv'
<1>1. PICK t \in Texts :
        /\ segments' = [segments EXCEPT ![s] = Segments(t)]
        /\ sound' = [sound EXCEPT ![s] = [i \in DOMAIN Segments(t) |-> "running"]]
        /\ stage' = [stage EXCEPT ![s] = IF Segments(t) = << >> THEN "done" ELSE "sent"]
  BY DEF Send, Goto
<1>2. stage[s] = "cut" /\ UNCHANGED <<streams, said>>
  BY DEF Send
<1> DEFINE cut == Segments(t)  S == Seq(Nat)
<1>3. cut \in Seq(S)
  BY SpeechAssumption, SegmentsAreWhole
<1> HIDE DEF cut, S
<1>4. [i \in DOMAIN cut |-> "running"] \in Seq(Sounds)
      /\ Len([i \in DOMAIN cut |-> "running"]) = Len(cut)
  BY <1>3 DEF Sounds
<1>5. /\ segments'[s] = cut /\ sound'[s] = [i \in DOMAIN cut |-> "running"]
      /\ \A u \in Speakers \ {s} : segments'[u] = segments[u] /\ sound'[u] = sound[u]
                                   /\ stage'[u] = stage[u]
      /\ stage'[s] \in {"done", "sent"} /\ (stage'[s] = "done" => cut = << >>)
  BY <1>1 DEF StreamedInv, SpeakerTypes, cut
<1>6. SpeakerTypes'
  <2>1. segments' \in [Speakers -> Seq(S)]
    BY <1>1, <1>3 DEF StreamedInv, SpeakerTypes, cut, S
  <2>2. sound' \in [Speakers -> Seq(Sounds)]
    BY <1>1, <1>4 DEF StreamedInv, SpeakerTypes, cut
  <2>3. \A u \in Speakers : Len(sound'[u]) = Len(segments'[u])
    BY <1>4, <1>5 DEF StreamedInv, SpeakerTypes
  <2>4. stage' \in [Speakers -> {"new", "rewrite", "cut", "sent", "left", "closed", "done"}]
    BY <1>1 DEF StreamedInv, SpeakerTypes
  <2> QED
    BY <1>2, <2>1, <2>2, <2>3, <2>4 DEF StreamedInv, SpeakerTypes, S
<1>7. ASSUME NEW u \in streams PROVE Streamed(u)'
  <2>1. u \in Speakers
    BY DEF StreamedInv, SpeakerTypes
  <2>2. CASE u # s
    BY <1>2, <1>5, <2>1, <2>2 DEF StreamedInv, Streamed
  <2>3. CASE u = s
    <3>1. said[s] = << >> /\ Len(cut) \in Nat /\ (cut = << >> => Len(cut) = 0)
      BY <1>2, <1>3, <2>3, LenProperties, EmptySeq DEF StreamedInv, Streamed
    <3>2. said'[s] = << >> /\ Len(<< >>) = 0 /\ << >> \in Seq(Nat \X Sounds)
      BY <1>2, <3>1
    <3> QED
      BY <1>5, <2>3, <3>1, <3>2 DEF Streamed
  <2> QED
    BY <2>2, <2>3
<1> QED
  BY <1>2, <1>6, <1>7 DEF StreamedInv

LEMMA PassOnKeeps ==
  ASSUME StreamedInv, NEW s \in Speakers, PassOn(s)
  PROVE  StreamedInv'
<1>1. /\ stage[s] = "sent" /\ s \in streams /\ UNCHANGED <<streams, segments, sound>>
      /\ Streamed(s)
  BY DEF PassOn, StreamedInv
<1>2. Len(segments[s]) \in Nat /\ Len(said[s]) \in Nat
  BY <1>1, SpeakerLengths, LenProperties DEF StreamedInv, Streamed
<1>3. CASE Len(said[s]) = Len(segments[s])
  <2>1. stage' = [stage EXCEPT ![s] = "done"] /\ said' = said
    BY <1>3 DEF PassOn, Goto
  <2>2. SpeakerTypes'
    BY <1>1, <2>1 DEF StreamedInv, SpeakerTypes
  <2>3. \A u \in streams : Streamed(u)'
    BY <1>1, <1>3, <2>1 DEF StreamedInv, SpeakerTypes, Streamed
  <2> QED
    BY <1>1, <2>2, <2>3 DEF StreamedInv
<1>4. CASE Len(said[s]) # Len(segments[s])
  <2> DEFINE n == Len(said[s]) + 1  r == <<n, sound[s][n]>>  T == Nat \X Sounds
  <2>1. /\ sound[s][n] # "running" /\ said' = [said EXCEPT ![s] = Append(said[s], r)]
        /\ stage' = stage
    BY <1>4 DEF PassOn, NextSegment, Result
  <2>2. n \in 1 .. Len(segments[s])
    BY <1>1, <1>2, <1>4 DEF Streamed
  <2>3. r \in T
    BY <1>2, <2>2, SpeakerLengths DEF StreamedInv
  <2>4. said[s] \in Seq(T)
    BY <1>1 DEF Streamed
  <2>5. said'[s] = Append(said[s], r) /\ \A u \in Speakers \ {s} : said'[u] = said[u]
    BY <2>1 DEF StreamedInv, SpeakerTypes
  <2> HIDE DEF T
  <2>6. /\ said'[s] \in Seq(T) /\ Len(said'[s]) = n
        /\ \A k \in 1 .. Len(said[s]) : said'[s][k] = said[s][k]
        /\ said'[s][n] = r
    BY <2>3, <2>4, <2>5, AppendProperties
  <2>7. said' = [u \in Speakers |-> said'[u]]
    BY <2>1 DEF StreamedInv, SpeakerTypes
  <2>8. SpeakerTypes'
    BY <1>1, <2>1, <2>7 DEF StreamedInv, SpeakerTypes
  <2>9. \A k \in 1 .. Len(said'[s]) : said'[s][k] = <<k, sound[s][k]>> /\ sound[s][k] # "running"
    <3> SUFFICES ASSUME NEW k \in 1 .. Len(said'[s])
                 PROVE  said'[s][k] = <<k, sound[s][k]>> /\ sound[s][k] # "running"
      OBVIOUS
    <3>1. CASE k = n
      BY <2>1, <2>6, <3>1
    <3>2. CASE k # n
      <4>1. k \in 1 .. Len(said[s])
        BY <1>2, <2>6, <3>2
      <4> QED
        BY <1>1, <2>6, <4>1 DEF Streamed
    <3> QED
      BY <3>1, <3>2
  <2>10. Streamed(s)'
    BY <1>1, <1>2, <2>1, <2>2, <2>6, <2>9 DEF Streamed, T
  <2>11. ASSUME NEW u \in streams, u # s PROVE Streamed(u)'
    BY <1>1, <2>1, <2>5, <2>11 DEF StreamedInv, SpeakerTypes, Streamed
  <2> QED
    BY <1>1, <2>8, <2>10, <2>11 DEF StreamedInv
<1> QED
  BY <1>3, <1>4

LEMMA CloseStreamKeeps ==
  ASSUME StreamedInv, NEW s \in Speakers, CloseStream(s)
  PROVE  StreamedInv'
<1> DEFINE failed == [i \in DOMAIN sound[s] |->
                        IF sound[s][i] = "running" THEN "failed" ELSE sound[s][i]]
<1>1. /\ stage[s] = "left" /\ UNCHANGED <<streams, segments, said>>
      /\ stage' = [stage EXCEPT ![s] = "closed"]
      /\ sound' = [sound EXCEPT ![s] = failed]
  BY DEF CloseStream, Goto
<1>2. sound[s] \in Seq(Sounds) /\ Len(sound[s]) = Len(segments[s])
  BY DEF StreamedInv, SpeakerTypes
<1>3. failed \in Seq(Sounds) /\ Len(failed) = Len(sound[s])
      /\ \A i \in 1 .. Len(sound[s]) : sound[s][i] # "running" => failed[i] = sound[s][i]
  BY <1>2 DEF Sounds
<1>4. sound'[s] = failed /\ \A u \in Speakers \ {s} : sound'[u] = sound[u]
  BY <1>1 DEF StreamedInv, SpeakerTypes
<1> HIDE DEF failed
<1>5. SpeakerTypes'
  <2>1. \A u \in Speakers : Len(sound'[u]) = Len(segments[u])
    BY <1>2, <1>3, <1>4 DEF StreamedInv, SpeakerTypes
  <2>2. sound' \in [Speakers -> Seq(Sounds)]
    BY <1>1, <1>3 DEF StreamedInv, SpeakerTypes
  <2> QED
    BY <1>1, <2>1, <2>2 DEF StreamedInv, SpeakerTypes
<1>6. ASSUME NEW u \in streams PROVE Streamed(u)'
  <2>1. u \in Speakers
    BY DEF StreamedInv, SpeakerTypes
  <2>2. CASE u # s
    BY <1>1, <1>4, <2>1, <2>2 DEF StreamedInv, SpeakerTypes, Streamed
  <2>3. CASE u = s
    <3>1. Streamed(s) /\ Len(segments[s]) \in Nat /\ Len(said[s]) \in Nat
      BY <2>1, <2>3, SpeakerLengths, LenProperties DEF StreamedInv, Streamed
    <3>2. \A k \in 1 .. Len(said[s]) : failed[k] = sound[s][k]
      BY <1>2, <1>3, <3>1 DEF Streamed
    <3>3. stage'[s] = "closed"
      BY <1>1 DEF StreamedInv, SpeakerTypes
    <3> QED
      BY <1>1, <1>4, <2>3, <3>1, <3>2, <3>3 DEF Streamed
  <2> QED
    BY <2>2, <2>3
<1> QED
  BY <1>1, <1>5, <1>6 DEF StreamedInv

\* The other endpoint's replies are none of the streams.
LEMMA JoinKeeps ==
  ASSUME StreamedInv, NEW s \in Speakers, Join(s)
  PROVE  StreamedInv'
<1>1. /\ s \notin streams /\ UNCHANGED <<streams, segments, sound>>
      /\ stage' = [stage EXCEPT ![s] = "done"]
      /\ said' = [said EXCEPT ![s] = said'[s]]
  BY DEF Join, Goto, StreamedInv, SpeakerTypes
<1>2. said' = [u \in Speakers |-> said'[u]]
  BY <1>1 DEF StreamedInv, SpeakerTypes
<1>3. SpeakerTypes'
  BY <1>1, <1>2 DEF StreamedInv, SpeakerTypes
<1>4. \A u \in streams : Streamed(u)'
  BY <1>1 DEF StreamedInv, SpeakerTypes, Streamed
<1> QED
  BY <1>1, <1>3, <1>4 DEF StreamedInv

LEMMA StreamedInvStep ==
  StreamedInv /\ [TtsNext \/ (LlmNext /\ UNCHANGED ttsVars)]_<<llmVars, ttsVars>>
    => StreamedInv'
<1> SUFFICES ASSUME StreamedInv,
                    [TtsNext \/ (LlmNext /\ UNCHANGED ttsVars)]_<<llmVars, ttsVars>>
             PROVE  StreamedInv'
  OBVIOUS
<1>1. CASE UNCHANGED ttsVars
  BY <1>1 DEF ttsVars, StreamedInv, SpeakerTypes, Streamed
<1>2. ASSUME NEW s \in Speakers, Speak(s) PROVE StreamedInv'
  <2>1. Goto(s, "rewrite") \/ Goto(s, "cut")
    BY <1>2 DEF Speak
  <2>2. stage[s] = "new" /\ UNCHANGED <<streams, segments, sound, said>>
    BY <1>2 DEF Speak
  <2> QED
    BY <2>1, <2>2, OnlyStage
<1>3. ASSUME NEW s \in Speakers, Rewritten(s) \/ Leave(s) PROVE StreamedInv'
  <2>1. /\ UNCHANGED <<streams, segments, sound, said>>
        /\ \/ Goto(s, "cut") /\ stage[s] = "rewrite"
           \/ Goto(s, "left")
    BY <1>3 DEF Rewritten, Leave
  <2> QED
    BY <2>1, OnlyStage
<1>4. ASSUME NEW s \in Speakers, Send(s) PROVE StreamedInv'
  BY <1>4, SendKeeps
<1>5. ASSUME NEW s \in Speakers, PassOn(s) PROVE StreamedInv'
  BY <1>5, PassOnKeeps
<1>6. ASSUME NEW s \in Speakers, CloseStream(s) PROVE StreamedInv'
  BY <1>6, CloseStreamKeeps
<1>7. ASSUME NEW s \in Speakers, Join(s) PROVE StreamedInv'
  BY <1>7, JoinKeeps
<1>8. ASSUME NEW s \in Speakers, NEW i \in 1 .. MaxSegments, Sound(s, i) PROVE StreamedInv'
  BY <1>8, SoundKeeps
<1> QED
  BY <1>1, <1>2, <1>3, <1>4, <1>5, <1>6, <1>7, <1>8 DEF TtsNext, SpeakerGoesOn

\* Of a stream, that is what its speaker says.
LEMMA StreamedIsSaid ==
  ASSUME StreamedInv, NEW s \in streams
  PROVE  /\ Len(said[s]) <= Len(segments[s])
         /\ \A k \in DOMAIN said[s] : said[s][k] = Result(s, k)
         /\ stage[s] = "done" => AllSaid(s)
<1>1. /\ Streamed(s) /\ DOMAIN said[s] = 1 .. Len(said[s])
      /\ DOMAIN segments[s] = 1 .. Len(segments[s])
  BY LenProperties DEF StreamedInv, SpeakerTypes, Streamed
<1>2. \A k \in DOMAIN said[s] : said[s][k] = Result(s, k)
  BY <1>1 DEF Streamed, Result
<1>3. \A k \in DOMAIN said[s] : said[s][k][1] = k
  BY <1>2 DEF Result
<1>4. ASSUME stage[s] = "done" PROVE AllSaid(s)
  <2>1. DOMAIN said[s] = DOMAIN segments[s]
    BY <1>1, <1>4 DEF Streamed
  <2>2. \A i \in DOMAIN segments[s] : \E k \in DOMAIN said[s] : said[s][k] = Result(s, i)
    BY <1>2, <2>1
  <2> QED
    BY <1>3, <2>2 DEF AllSaid
<1> QED
  BY <1>1, <1>2, <1>4 DEF Streamed

\* In whatever order the segments of a text are spoken, and whichever fail, the
\* streaming endpoint passes their results on in the order of the text, and when
\* it is done it has passed on all of them (stream_tts_base64).
THEOREM StreamsInOrder ==
  TtsSpec => [](StreamedInOrder /\ \A s \in streams : stage[s] = "done" => AllSaid(s))
<1>1. StreamedInv => StreamedInOrder /\ \A s \in streams : stage[s] = "done" => AllSaid(s)
  BY StreamedIsSaid DEF StreamedInOrder
<1> QED
  BY <1>1, StreamedInvInit, StreamedInvStep, PTL DEF TtsSpec

\* Speaking uses the calls as everyone does, so that it gets errors for the same
\* reasons only.
THEOREM SpeakersFailForAReason == TtsSpec => []EndsForAReason
<1>1. CallsInv => EndsForAReason
  BY DEF CallsInv
<1>2. [TtsNext \/ (LlmNext /\ UNCHANGED ttsVars)]_<<llmVars, ttsVars>> => [LlmNext]_llmVars
  <2> SUFFICES ASSUME TtsNext PROVE LlmNext \/ UNCHANGED llmVars
    OBVIOUS
  <2> QED
    BY SpeechAssumption DEF TtsNext, Speak, SpeakerGoesOn, Rewritten, Send, PassOn, CloseStream,
       Join, Leave, Sound, LlmNext
<1>3. CallsInv /\ [LlmNext]_llmVars => CallsInv'
  BY CallsInvStep
<1> QED
  BY <1>1, <1>2, <1>3, CallsInvInit, PTL DEF TtsSpec

\* The next sound is joined to the others, if there is one.
NextSound(snd, joined, i) == IF snd[i] = "audio" THEN Append(joined, <<i, snd[i]>>) ELSE joined

\* What is joined of the first n sounds: those that are there, in order.
JoinedOf(snd, joined, n) ==
    /\ joined \in Seq(Nat \X Sounds)
    /\ \A k \in 1 .. Len(joined) : joined[k][1] <= n
    /\ \A j, k \in 1 .. Len(joined) : j < k => joined[j][1] < joined[k][1]
    /\ \A i \in 1 .. n : snd[i] = "audio" =>
          \E k \in 1 .. Len(joined) : joined[k] = <<i, snd[i]>>

LEMMA NextSoundIs ==
  ASSUME NEW snd, NEW i \in Nat \ {0}, snd[i] \in Sounds, NEW joined, JoinedOf(snd, joined, i - 1)
  PROVE  JoinedOf(snd, NextSound(snd, joined, i), i)
<1> DEFINE T == Nat \X Sounds  n == Len(joined)
<1>1. joined \in Seq(T) /\ n \in Nat /\ \A k \in 1 .. n : joined[k] \in T
  BY LenProperties, ElementOfSeq DEF JoinedOf
<1>2. \A k \in 1 .. n : joined[k][1] \in Nat
  BY <1>1
<1>3. /\ \A k \in 1 .. n : joined[k][1] <= i - 1
      /\ \A j, k \in 1 .. n : j < k => joined[j][1] < joined[k][1]
      /\ \A m \in 1 .. i - 1 : snd[m] = "audio" => \E k \in 1 .. n : joined[k] = <<m, snd[m]>>
  BY DEF JoinedOf
<1>4. \A k \in 1 .. n : joined[k][1] < i
  BY <1>2, <1>3
<1>5. CASE snd[i] # "audio"
  <2>1. \A m \in 1 .. i : snd[m] = "audio" => m \in 1 .. i - 1
    BY <1>5
  <2>2. NextSound(snd, joined, i) = joined
    BY <1>5 DEF NextSound
  <2>3. \A k \in 1 .. n : joined[k][1] <= i
    BY <1>2, <1>4
  <2> QED
    BY <1>1, <1>3, <2>1, <2>2, <2>3 DEF JoinedOf
<1>6. CASE snd[i] = "audio"
  <2> DEFINE new == <<i, snd[i]>>  all == Append(joined, new)
  <2>1. NextSound(snd, joined, i) = all
    BY <1>6 DEF NextSound
  <2>2. new \in T /\ new[1] = i
    OBVIOUS
  <2> HIDE DEF T, new
  <2>3. /\ all \in Seq(T) /\ Len(all) = n + 1
        /\ \A k \in 1 .. n : all[k] = joined[k]
        /\ all[n + 1] = new
    BY <1>1, <2>2, AppendProperties
  <2> HIDE DEF all, n
  <2>4. \A k \in 1 .. n + 1 : all[k][1] <= i /\ (k # n + 1 => all[k][1] < i /\ k \in 1 .. n)
    <3> SUFFICES ASSUME NEW k \in 1 .. n + 1
                 PROVE  all[k][1] <= i /\ (k # n + 1 => all[k][1] < i /\ k \in 1 .. n)
      OBVIOUS
    <3>1. CASE k = n + 1
      BY <2>2, <2>3, <3>1
    <3>2. CASE k # n + 1
      <4>1. k \in 1 .. n
        BY <1>1, <3>2
      <4>2. all[k][1] = joined[k][1]
        BY <2>3, <4>1
      <4> QED
        BY <1>2, <1>4, <4>1, <4>2
    <3> QED
      BY <3>1, <3>2
  <2>5. ASSUME NEW j \in 1 .. n + 1, NEW k \in 1 .. n + 1, j < k PROVE all[j][1] < all[k][1]
    <3>1. j \in 1 .. n /\ j # n + 1
      BY <1>1, <2>5
    <3>2. CASE k = n + 1
      BY <2>2, <2>3, <2>4, <3>1, <3>2
    <3>3. CASE k # n + 1
      <4>1. k \in 1 .. n
        BY <1>1, <3>3
      <4>2. all[j] = joined[j] /\ all[k] = joined[k] /\ joined[j][1] < joined[k][1]
        BY <1>3, <2>3, <2>5, <3>1, <4>1
      <4> QED
        BY <4>2
    <3> QED
      BY <3>2, <3>3
  <2>6. ASSUME NEW m \in 1 .. i, snd[m] = "audio"
        PROVE  \E k \in 1 .. n + 1 : all[k] = <<m, snd[m]>>
    <3>1. CASE m = i
      <4>1. n + 1 \in 1 .. n + 1 /\ all[n + 1] = <<m, snd[m]>>
        BY <1>1, <2>3, <3>1 DEF new
      <4> QED
        BY <4>1
    <3>2. CASE m # i
      <4>1. PICK k \in 1 .. n : joined[k] = <<m, snd[m]>>
        BY <1>3, <2>6, <3>2
      <4>2. k \in 1 .. n + 1 /\ all[k] = <<m, snd[m]>>
        BY <1>1, <2>3, <4>1
      <4> QED
        BY <4>2
    <3> QED
      BY <3>1, <3>2
  <2> QED
    BY <2>1, <2>3, <2>4, <2>5, <2>6 DEF JoinedOf, T
<1> QED
  BY <1>5, <1>6

\* The other endpoint joins all the sounds that are there.
LEMMA JoinIs ==
  ASSUME NEW s, NEW n \in Nat, Len(segments[s]) = n,
         \A i \in 1 .. n : sound[s][i] \in Sounds, Join(s), said = [u \in Speakers |-> said[u]],
         s \in Speakers
  PROVE  JoinedOf(sound[s], said'[s], n)
<1> DEFINE snd == sound[s]  T == Seq(Nat \X Sounds)
           step == [x \in (1 .. n) \X T |-> NextSound(snd, x[2], x[1])]
           Body(r) == [i \in 0 .. n |-> IF i = 0 THEN << >> ELSE NextSound(snd, r[i - 1], i)]
           after == CHOOSE r : r = Body(r)
<1>1. said'[s] = after[n]
  <2>1. said' = [said EXCEPT ![s] = after[n]]
    BY DEF Join, Stepwise, NextSound, Result
  <2> HIDE DEF after
  <2> QED
    BY <2>1
<1>2. << >> \in T
  BY EmptySeq
<1>3. step \in [(1 .. n) \X T -> T]
  <2> SUFFICES ASSUME NEW x \in (1 .. n) \X T PROVE NextSound(snd, x[2], x[1]) \in T
    OBVIOUS
  <2>1. x[2] \in T /\ x[1] \in Nat /\ snd[x[1]] \in Sounds
    OBVIOUS
  <2>2. <<x[1], snd[x[1]]>> \in Nat \X Sounds
    BY <2>1
  <2>3. Append(x[2], <<x[1], snd[x[1]]>>) \in T
    BY <2>1, <2>2, AppendProperties
  <2> QED
    BY <2>1, <2>3 DEF NextSound
<1> HIDE DEF T, step, snd
<1>4. PICK f : StepsBy(f, n, T, << >>, step)
  BY <1>2, <1>3, StepsExist
<1>5. f = Body(f)
  <2>1. f = [i \in 0 .. n |-> f[i]] /\ f[0] = << >>
    BY <1>4 DEF StepsBy
  <2>2. ASSUME NEW i \in 1 .. n PROVE f[i] = NextSound(snd, f[i - 1], i)
    <3>1. i - 1 \in 0 .. n
      OBVIOUS
    <3>2. f[i] = step[<<i, f[i - 1]>>] /\ f[i - 1] \in T
      BY <1>4, <3>1 DEF StepsBy
    <3> QED
      BY <3>2 DEF step
  <2>3. \A i \in 0 .. n : i # 0 => i \in 1 .. n
    OBVIOUS
  <2>4. \A i \in 0 .. n : f[i] = IF i = 0 THEN << >> ELSE NextSound(snd, f[i - 1], i)
    BY <2>1, <2>2, <2>3
  <2> QED
    BY <2>1, <2>4
<1>6. after = Body(after)
  <2> HIDE DEF Body
  <2> QED
    BY <1>5
<1> HIDE DEF after
<1> DEFINE P == {i \in 0 .. n : JoinedOf(snd, after[i], i)}
<1>7. 0 \in P
  <2>1. after[0] = << >>
    BY <1>6
  <2>2. JoinedOf(snd, << >>, 0)
    BY EmptySeq DEF JoinedOf
  <2> QED
    BY <2>1, <2>2
<1>8. ASSUME NEW i \in 1 .. n, i - 1 \in P PROVE i \in P
  <2>1. after[i] = NextSound(snd, after[i - 1], i)
    BY <1>6
  <2>2. JoinedOf(snd, after[i - 1], i - 1) /\ i \in Nat \ {0} /\ snd[i] \in Sounds
    BY <1>8 DEF snd
  <2>3. JoinedOf(snd, after[i], i)
    BY <2>1, <2>2, NextSoundIs
  <2> QED
    BY <2>3
<1> HIDE DEF P
<1>9. n \in P
  <2>1. \A i \in 0 .. n : i \in P
    BY <1>7, <1>8, Upwards
  <2> QED
    BY <2>1
<1> QED
  BY <1>1, <1>9 DEF P, snd

\* What a speaker who does not stream gets: nothing, until all sounds are there.
Joined(s) ==
    /\ stage[s] \in {"new", "rewrite", "cut", "sent"} => said[s] = << >>
    /\ stage[s] = "done" => AllSaid(s) /\ \A i \in 1 .. Len(segments[s]) : sound[s][i] # "running"

SpokenInv ==
    /\ StreamedInv
    /\ text = [s \in Speakers |-> text[s]]
    /\ \A s \in Speakers : WholeText(s) /\ (s \notin streams => Joined(s))

\* Speakers share nothing.
OtherSpeakers(s) ==
    /\ streams' = streams
    /\ \A u \in Speakers \ {s} : stage'[u] = stage[u] /\ text'[u] = text[u]
         /\ segments'[u] = segments[u] /\ sound'[u] = sound[u] /\ said'[u] = said[u]

LEMMA EachSpeaker ==
  ASSUME SpokenInv, StreamedInv', NEW s \in Speakers, OtherSpeakers(s),
         text' = [u \in Speakers |-> text'[u]], WholeText(s)', s \notin streams => Joined(s)'
  PROVE  SpokenInv'
<1>1. ASSUME NEW u \in Speakers PROVE WholeText(u)' /\ (u \notin streams => Joined(u)')
  <2>1. CASE u = s
    BY <2>1
  <2>2. CASE u # s
    <3>1. /\ stage'[u] = stage[u] /\ text'[u] = text[u] /\ segments'[u] = segments[u]
          /\ sound'[u] = sound[u] /\ said'[u] = said[u] /\ streams' = streams
      BY <2>2 DEF OtherSpeakers
    <3>2. WholeText(u) /\ (u \notin streams => Joined(u))
      BY DEF SpokenInv
    <3>3. WholeText(u)' <=> WholeText(u)
      BY <3>1 DEF WholeText
    <3>4. AllSaid(u)' <=> AllSaid(u)
      BY <3>1 DEF AllSaid, Result
    <3>5. Joined(u) <=> Joined(u)'
      BY <3>1, <3>4 DEF Joined
    <3> QED
      BY <3>1, <3>2, <3>3, <3>5
  <2> QED
    BY <2>1, <2>2
<1> QED
  BY <1>1 DEF SpokenInv, OtherSpeakers

LEMMA SpokenInvInit == TtsInit => SpokenInv
<1> SUFFICES ASSUME TtsInit PROVE SpokenInv
  OBVIOUS
<1>1. \A s \in Speakers : WholeText(s)
  <2>1. [w \in DOMAIN << >> |-> w] = << >>
    OBVIOUS
  <2> QED
    BY <2>1, FlattenEmpty DEF TtsInit, WholeText
<1>2. \A s \in Speakers : Joined(s)
  BY DEF TtsInit, Joined
<1> QED
  BY <1>1, <1>2, StreamedInvInit DEF SpokenInv, TtsInit

\* What a speaker does that sends nothing, and joins nothing, to the end.
LEMMA NotSpokenYet ==
  ASSUME SpokenInv, StreamedInv', NEW s \in Speakers, OtherSpeakers(s),
         UNCHANGED <<text, segments>>,
         s \notin streams => said'[s] = said[s] /\ stage'[s] # "done"
         /\ (stage'[s] \in {"new", "rewrite", "cut", "sent"} =>
                stage[s] \in {"new", "rewrite", "cut", "sent"})
  PROVE  SpokenInv'
<1>1. WholeText(s) /\ (s \notin streams => Joined(s)) /\ text' = [u \in Speakers |-> text'[u]]
  BY DEF SpokenInv
<1>2. WholeText(s)' /\ (s \notin streams => Joined(s)')
  BY <1>1 DEF WholeText, Joined
<1> QED
  BY <1>1, <1>2, EachSpeaker

LEMMA SendSpoken ==
  ASSUME SpokenInv, StreamedInv', NEW s \in Speakers, Send(s)
  PROVE  SpokenInv'
<1>1. PICK t \in Texts :
        /\ text' = [text EXCEPT ![s] = t]
        /\ segments' = [segments EXCEPT ![s] = Segments(t)]
        /\ sound' = [sound EXCEPT ![s] = [i \in DOMAIN Segments(t) |-> "running"]]
        /\ stage' = [stage EXCEPT ![s] = IF Segments(t) = << >> THEN "done" ELSE "sent"]
  BY DEF Send, Goto
<1>2. stage[s] = "cut" /\ UNCHANGED <<streams, said>>
  BY DEF Send
<1>3. SpeakerTypes /\ text = [u \in Speakers |-> text[u]] /\ (s \notin streams => said[s] = << >>)
  BY <1>2 DEF SpokenInv, StreamedInv, Joined
<1> DEFINE cut == Segments(t)  snd == [i \in DOMAIN cut |-> "running"]
<1>4. /\ text'[s] = t /\ segments'[s] = cut /\ sound'[s] = snd
      /\ stage'[s] \in {"done", "sent"} /\ (stage'[s] = "done" => cut = << >>)
      /\ text' = [u \in Speakers |-> text'[u]]
  BY <1>1, <1>3 DEF SpeakerTypes
<1>5. OtherSpeakers(s)
  BY <1>1, <1>2, <1>3 DEF SpeakerTypes, OtherSpeakers
<1>6. t \in Seq(Words)
  BY SpeechAssumption
<1>7. WholeText(s)'
  BY <1>4, <1>6, SegmentsAreWhole DEF WholeText
<1>8. ASSUME s \notin streams PROVE Joined(s)'
  <2>1. said'[s] = << >>
    BY <1>2, <1>3, <1>8
  <2>2. ASSUME cut = << >> PROVE AllSaid(s)' /\ \A i \in 1 .. Len(segments'[s]) : FALSE
    <3>1. segments'[s] = << >>
      BY <1>4, <2>2
    <3>2. DOMAIN segments'[s] = {} /\ DOMAIN said'[s] = {} /\ Len(segments'[s]) = 0
      BY <2>1, <3>1
    <3> QED
      BY <3>2 DEF AllSaid
  <2> QED
    BY <1>4, <2>1, <2>2 DEF Joined
<1> QED
  BY <1>4, <1>5, <1>7, <1>8, EachSpeaker

LEMMA JoinSpoken ==
  ASSUME SpokenInv, StreamedInv', NEW s \in Speakers, Join(s)
  PROVE  SpokenInv'
<1>1. /\ stage[s] = "sent" /\ s \notin streams /\ UNCHANGED <<streams, text, segments, sound>>
      /\ stage' = [stage EXCEPT ![s] = "done"]
      /\ \A i \in DOMAIN sound[s] : sound[s][i] # "running"
      /\ said' = [said EXCEPT ![s] = said'[s]]
  BY DEF Join, Goto, SpokenInv, StreamedInv, SpeakerTypes
<1>2. SpeakerTypes /\ text = [u \in Speakers |-> text[u]] /\ WholeText(s)
  BY DEF SpokenInv, StreamedInv
<1> DEFINE n == Len(segments[s])
<1>3. /\ n \in Nat /\ \A i \in 1 .. n : sound[s][i] \in Sounds
      /\ DOMAIN sound[s] = 1 .. n
  BY <1>2, SpeakerLengths
<1>4. DOMAIN segments[s] = 1 .. n
  BY <1>2, LenProperties DEF SpeakerTypes
<1>5. said = [u \in Speakers |-> said[u]]
  BY <1>2 DEF SpeakerTypes
<1> HIDE DEF n
<1>6. JoinedOf(sound[s], said'[s], n)
  BY <1>3, <1>5, JoinIs DEF n
<1>7. OtherSpeakers(s) /\ stage'[s] = "done"
  BY <1>1, <1>2 DEF SpeakerTypes, OtherSpeakers
<1>8. WholeText(s)' /\ text' = [u \in Speakers |-> text'[u]]
  BY <1>1, <1>2 DEF WholeText
<1>9. AllSaid(s)'
  <2>1. DOMAIN said'[s] = 1 .. Len(said'[s])
    BY <1>6, LenProperties DEF JoinedOf
  <2>2. segments'[s] = segments[s] /\ sound'[s] = sound[s] /\ streams' = streams
    BY <1>1
  <2> QED
    BY <1>1, <1>4, <1>6, <2>1, <2>2 DEF JoinedOf, AllSaid, Result
<1>10. Joined(s)'
  <2>1. Len(segments'[s]) = n /\ sound'[s] = sound[s]
    BY <1>1 DEF n
  <2> QED
    BY <1>1, <1>3, <1>7, <1>9, <2>1 DEF Joined
<1> QED
  BY <1>7, <1>8, <1>10, EachSpeaker

LEMMA SpokenInvStep ==
  SpokenInv /\ [TtsNext \/ (LlmNext /\ UNCHANGED ttsVars)]_<<llmVars, ttsVars>> => SpokenInv'
<1> SUFFICES ASSUME SpokenInv,
                    [TtsNext \/ (LlmNext /\ UNCHANGED ttsVars)]_<<llmVars, ttsVars>>
             PROVE  SpokenInv'
  OBVIOUS
<1>1. StreamedInv' /\ SpeakerTypes
  BY StreamedInvStep DEF SpokenInv, StreamedInv
<1>2. CASE UNCHANGED ttsVars
  BY <1>1, <1>2 DEF ttsVars, SpokenInv, WholeText, Joined, AllSaid, Result
<1>3. ASSUME NEW s \in Speakers, Speak(s) \/ Rewritten(s) \/ Leave(s) PROVE SpokenInv'
  <2>1. /\ UNCHANGED <<streams, text, segments, sound, said>>
        /\ stage[s] \in {"new", "rewrite"} \/ s \in streams
        /\ \/ stage' = [stage EXCEPT ![s] = "rewrite"]
           \/ stage' = [stage EXCEPT ![s] = "cut"]
           \/ stage' = [stage EXCEPT ![s] = "left"]
    BY <1>3 DEF Speak, Rewritten, Leave, Goto
  <2>2. OtherSpeakers(s) /\ stage'[s] \in {"rewrite", "cut", "left"}
    BY <1>1, <2>1 DEF OtherSpeakers, SpeakerTypes
  <2> QED
    BY <1>1, <2>1, <2>2, NotSpokenYet
<1>4. ASSUME NEW s \in Speakers, Send(s) PROVE SpokenInv'
  BY <1>1, <1>4, SendSpoken
<1>5. ASSUME NEW s \in Speakers, Join(s) PROVE SpokenInv'
  BY <1>1, <1>5, JoinSpoken
<1>6. ASSUME NEW s \in Speakers, PassOn(s) PROVE SpokenInv'
  <2>1. /\ s \in streams /\ UNCHANGED <<streams, text, segments, sound>>
        /\ \/ stage' = [stage EXCEPT ![s] = "done"] /\ said' = said
           \/ /\ stage' = stage
              /\ said' = [said EXCEPT ![s] = Append(said[s], Result(s, NextSegment(s)))]
    BY <1>6 DEF PassOn, Goto
  <2>2. OtherSpeakers(s)
    BY <1>1, <2>1 DEF OtherSpeakers, SpeakerTypes
  <2> QED
    BY <1>1, <2>1, <2>2, NotSpokenYet
<1>7. ASSUME NEW s \in Speakers, CloseStream(s) PROVE SpokenInv'
  <2>1. /\ stage[s] = "left" /\ UNCHANGED <<streams, text, segments, said>>
        /\ stage' = [stage EXCEPT ![s] = "closed"]
        /\ sound' = [sound EXCEPT ![s] = sound'[s]]
    BY <1>1, <1>7 DEF CloseStream, Goto, SpeakerTypes
  <2>2. OtherSpeakers(s) /\ stage'[s] = "closed"
    BY <1>1, <2>1 DEF OtherSpeakers, SpeakerTypes
  <2> QED
    BY <1>1, <2>1, <2>2, NotSpokenYet
<1>8. ASSUME NEW s \in Speakers, NEW i \in 1 .. MaxSegments, Sound(s, i) PROVE SpokenInv'
  <2>1. /\ i \in 1 .. Len(segments[s]) /\ sound[s][i] = "running"
        /\ UNCHANGED <<stage, streams, text, segments, said>>
        /\ sound' = [sound EXCEPT ![s] = sound'[s]]
    BY <1>1, <1>8, SpeakerLengths DEF Sound, SpeakerTypes
  <2>2. OtherSpeakers(s)
    BY <1>1, <2>1 DEF OtherSpeakers, SpeakerTypes
  <2>3. s \notin streams => stage[s] # "done"
    BY <2>1 DEF SpokenInv, Joined
  <2> QED
    BY <1>1, <2>1, <2>2, <2>3, NotSpokenYet
<1> QED
  BY <1>2, <1>3, <1>4, <1>5, <1>6, <1>7, <1>8 DEF TtsNext, SpeakerGoesOn

\* A listener who stays gets every sound that was made of a text, once and in the
\* order of the text, from both endpoints, in whatever order the segments are
\* spoken and whichever fail; and wherever the text had to be cut, its segments
\* are all its words (PreprocessingPipeline.process, tts_helpers.py).
THEOREM EverySegmentIsSpoken == TtsSpec => []EverySegmentOnce
<1>1. SpokenInv => EverySegmentOnce
  <2> SUFFICES ASSUME SpokenInv, NEW s \in Speakers, stage[s] = "done"
               PROVE  WholeText(s) /\ AllSaid(s)
    BY DEF EverySegmentOnce
  <2>1. CASE s \in streams
    BY <2>1, StreamedIsSaid DEF SpokenInv
  <2>2. CASE s \notin streams
    BY <2>2 DEF SpokenInv, Joined
  <2> QED
    BY <2>1, <2>2 DEF SpokenInv
<1> QED
  BY <1>1, SpokenInvInit, SpokenInvStep, PTL DEF TtsSpec
=============================================================================
