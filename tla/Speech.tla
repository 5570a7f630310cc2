-------------------------------- MODULE Speech --------------------------------
(***************************************************************************)
(* Speech output and input (tts/, chat/infra/stt).                         *)
(*                                                                         *)
(* Output: a text is rewritten by a language model (a call of LlmCalls;    *)
(* when it fails or takes too long the text is spoken as it is), cut into  *)
(* segments, and every segment is sent to the speech server at once.  The  *)
(* streaming endpoint passes the sound of each segment on in order, the    *)
(* other one joins them when all are there.  Sounds are left out, and how  *)
(* a text is cut is in SpokenText: a segment is its number.                *)
(*                                                                         *)
(* Input: one session relays the client's audio to a recognition server    *)
(* and its transcripts, each by a task of its own, to the client.          *)
(***************************************************************************)
EXTENDS LlmCalls, SpokenText

CONSTANTS Speakers,     \* requests for speech: their calls rewrite the text
          Texts,        \* texts to speak
          MaxSegments,  \* bound: segments of a text
          MaxHeard      \* bound: transcripts of a session

ASSUME SpeechAssumption ==
    /\ Speakers \subseteq Calls /\ Texts \subseteq Seq(Words)
    /\ MaxSegments \in Nat /\ MaxHeard \in Nat

VARIABLES stage,     \* stage[s]: the next step of s; "closed": its client left
          streams,   \* speakers that use the streaming endpoint
          text,      \* text[s]: the text, once rewritten
          segments,  \* segments[s]: its segments, the words of each
          sound,     \* sound[s][i]: "none", "running", "audio", "silent", "failed"
          said       \* said[s]: the segments of the reply, with their results

VARIABLES session,   \* "new", "connecting", "open", "closing", "closed"
          listening, \* the receive task: "none", "running", "cancelled", "over"
          connected, \* is_connected
          server,    \* the recognition server is there
          here,      \* "talks", or how it ended: "eos", "gone", "error", "refused"
          tasks,     \* transcripts whose forwarding task has not run
          heard,     \* transcripts that were received
          shown      \* transcripts that the client got

ttsVars == <<stage, streams, text, segments, sound, said>>
sttVars == <<session, listening, connected, server, here, tasks, heard, shown>>

SpeechTypeOK ==
    /\ stage \in [Speakers -> {"new", "rewrite", "cut", "sent", "left", "closed", "done"}]
    /\ text \in [Speakers -> Texts \cup {<< >>}]
    /\ segments \in [Speakers -> Seq(Seq(Nat))]
    /\ session \in {"new", "connecting", "open", "closing", "closed"}
    /\ listening \in {"none", "running", "cancelled", "over"}
    /\ heard \in 0 .. MaxHeard
    /\ tasks \in Seq(1 .. MaxHeard) /\ shown \in Seq(1 .. MaxHeard)

-------------------------------------------------------------------------------
\* Output.

TtsInit ==
    /\ stage = [s \in Speakers |-> "new"]
    /\ streams \in SUBSET Speakers
    /\ text = [s \in Speakers |-> << >>]
    /\ segments = [s \in Speakers |-> << >>]
    /\ sound = [s \in Speakers |-> << >>]
    /\ said = [s \in Speakers |-> << >>]

Goto(s, to) == stage' = [stage EXCEPT ![s] = to]

\* A question is spoken as it is (is_clarification; or short, or ends with "?").
Speak(s) ==
    /\ stage[s] = "new"
    /\ \/ Start(s) /\ Goto(s, "rewrite")
       \/ Goto(s, "cut") /\ UNCHANGED llmVars
    /\ UNCHANGED <<streams, text, segments, sound, said>>

\* The call answered or failed, or its 60 seconds are over; it goes on then.
Rewritten(s) ==
    /\ stage[s] = "rewrite"
    /\ Goto(s, "cut")
    /\ UNCHANGED <<llmVars, streams, text, segments, sound, said>>

\* Both endpoints post all segments before they await the first.  Nothing may be
\* left to speak: the reply is a 404.
Send(s) ==
    /\ stage[s] = "cut"
    /\ \E t \in Texts :
        LET cut == Segments(t) IN
        /\ text' = [text EXCEPT ![s] = t]
        /\ segments' = [segments EXCEPT ![s] = cut]
        /\ sound' = [sound EXCEPT ![s] = [i \in DOMAIN cut |-> "running"]]
        /\ Goto(s, IF cut = << >> THEN "done" ELSE "sent")
    /\ UNCHANGED <<llmVars, streams, said>>

\* The server answers, or the time limit of the request is over.
Sound(s, i) ==
    /\ i \in DOMAIN sound[s] /\ sound[s][i] = "running"
    /\ \E r \in {"audio", "silent", "failed"} : sound' = [sound EXCEPT ![s][i] = r]
    /\ UNCHANGED <<llmVars, stage, streams, text, segments, said>>

Result(s, i) == <<i, sound[s][i]>>

FaultyNextSegment(s) ==
    LET open == {i \in DOMAIN segments[s] :
                   Result(s, i) \notin {said[s][k] : k \in DOMAIN said[s]}}
    IN  CHOOSE i \in open : sound[s][i] # "running" \/ \A j \in open : sound[s][j] = "running"

NextSegment(s) == Len(said[s]) + 1

\* stream_tts_base64: the next result is awaited and yielded, whatever it is.
PassOn(s) ==
    /\ stage[s] = "sent" /\ s \in streams
    /\ IF Len(said[s]) = Len(segments[s])
       THEN Goto(s, "done") /\ UNCHANGED said
       ELSE /\ sound[s][NextSegment(s)] # "running"
            /\ said' = [said EXCEPT ![s] = Append(@, Result(s, NextSegment(s)))]
            /\ UNCHANGED stage
    /\ UNCHANGED <<llmVars, streams, text, segments, sound>>

\* The client leaves: the generator stops where it awaits or yields, and is
\* closed later, with its HTTP client; requests that still run fail.
Leave(s) ==
    /\ stage[s] = "sent" /\ s \in streams
    /\ Goto(s, "left")
    /\ UNCHANGED <<llmVars, streams, text, segments, sound, said>>

CloseStream(s) ==
    /\ stage[s] = "left"
    /\ sound' = [sound EXCEPT ![s] = [i \in DOMAIN @ |->
                                        IF @[i] = "running" THEN "failed" ELSE @[i]]]
    /\ Goto(s, "closed")
    /\ UNCHANGED <<llmVars, streams, text, segments, said>>

\* send_tts_request_and_collect_base64: all are awaited, and the sounds joined;
\* this endpoint does not notice that its client left.
Join(s) ==
    /\ stage[s] = "sent" /\ s \notin streams
    /\ \A i \in DOMAIN sound[s] : sound[s][i] # "running"
    /\ LET Add(joined, i) ==
             IF sound[s][i] = "audio" THEN Append(joined, Result(s, i)) ELSE joined
       IN  said' = [said EXCEPT ![s] = Stepwise(Add, << >>, Len(segments[s]))]
    /\ Goto(s, "done")
    /\ UNCHANGED <<llmVars, streams, text, segments, sound>>

SpeakerGoesOn(s) == Rewritten(s) \/ Send(s) \/ PassOn(s) \/ CloseStream(s) \/ Join(s)

TtsNext ==
    \E s \in Speakers :
        \/ Speak(s) \/ SpeakerGoesOn(s) \/ Leave(s)
        \/ \E i \in 1 .. MaxSegments : Sound(s, i)

\* All awaits are of requests with a limit (15, 20 and 60 seconds).
TtsFairness ==
    \A s \in Speakers :
        /\ WF_<<llmVars, ttsVars>>(SpeakerGoesOn(s))
        /\ \A i \in 1 .. MaxSegments : WF_<<llmVars, ttsVars>>(Sound(s, i))

\* Speakers, and the calls of the rest of the program.
TtsSpec ==
    /\ LlmInit /\ TtsInit
    /\ [][TtsNext \/ (LlmNext /\ UNCHANGED ttsVars)]_<<llmVars, ttsVars>>
    /\ LlmFairness /\ TtsFairness

-------------------------------------------------------------------------------
\* Input.

SttInit ==
    /\ session = "new" /\ listening = "none" /\ connected = FALSE
    /\ server = TRUE /\ here = "talks"
    /\ tasks = << >> /\ heard = 0 /\ shown = << >>

\* The recognition server accepts, or there is no connection within the limit:
\* the error is reported and the session over.
Connect ==
    /\ session = "new" /\ session' = "connecting"
    /\ UNCHANGED <<listening, connected, server, here, tasks, heard, shown>>

Connected ==
    /\ session = "connecting"
    /\ \/ session' = "open" /\ listening' = "running" /\ connected' = TRUE /\ here' = here
       \/ session' = "closed" /\ here' = "refused" /\ UNCHANGED <<listening, connected>>
    /\ UNCHANGED <<server, tasks, heard, shown>>

\* A transcript is received, and a task made to forward it.
Hear ==
    /\ listening = "running" /\ server
    /\ heard < MaxHeard
    /\ heard' = heard + 1
    /\ tasks' = Append(tasks, heard')
    /\ UNCHANGED <<session, listening, connected, server, here, shown>>

ServerGoes ==
    /\ session \notin {"new", "connecting"} /\ server
    /\ server' = FALSE
    /\ UNCHANGED <<session, listening, connected, here, tasks, heard, shown>>

\* The receive loop ends; only an exception makes it reset is_connected.
StopListening ==
    /\ listening = "running" /\ ~server
    /\ listening' = "over"
    /\ connected' \in {connected, FALSE}
    /\ UNCHANGED <<session, server, here, tasks, heard, shown>>

\* The oldest task runs.  A client that is gone, or whose socket was closed,
\* gets nothing.
Forward ==
    /\ tasks # << >>
    /\ tasks' = Tail(tasks)
    /\ shown' = IF here # "gone" /\ session # "closed" THEN Append(shown, Head(tasks))
                ELSE shown
    /\ UNCHANGED <<session, listening, connected, server, here, heard>>

\* The endpoint stops reading: after "EOS", a disconnect, or audio that it could
\* not send.
StopTalking ==
    /\ session = "open"
    /\ here' \in {"eos", "gone"} \cup (IF server /\ connected THEN {} ELSE {"error"})
    /\ session' = "closing"
    /\ UNCHANGED <<listening, connected, server, tasks, heard, shown>>

FaultyCancelListening ==
    /\ session = "closing" /\ listening = "running"
    /\ listening' = "over"
    /\ UNCHANGED <<session, connected, server, here, tasks, heard, shown>>

\* close(): the receive task is cancelled and awaited; the tasks made before it
\* have run when it has, as the event loop runs tasks in order.
CancelListening ==
    /\ session = "closing" /\ listening = "running"
    /\ listening' = "cancelled"
    /\ UNCHANGED <<session, connected, server, here, tasks, heard, shown>>

AwaitListening ==
    /\ listening = "cancelled" /\ tasks = << >>
    /\ listening' = "over"
    /\ UNCHANGED <<session, connected, server, here, tasks, heard, shown>>

FaultyCloseSession ==
    /\ session = "closing" /\ listening = "over" /\ connected
    /\ session' = "closed" /\ connected' = FALSE
    /\ UNCHANGED <<listening, server, here, tasks, heard, shown>>

\* Both sockets are closed; the tasks that are left are not awaited.
CloseSession ==
    /\ session = "closing" /\ listening = "over"
    /\ session' = "closed" /\ connected' = FALSE
    /\ UNCHANGED <<listening, server, here, tasks, heard, shown>>

Closing == CancelListening \/ AwaitListening \/ CloseSession

SttNext ==
    \/ Connect \/ Connected \/ Hear \/ ServerGoes \/ StopListening \/ Forward
    \/ StopTalking \/ Closing

\* Connecting and closing have limits (STT_CONNECTION_TIMEOUT, STT_CLOSE_TIMEOUT).
SttFairness == WF_sttVars(Connected) /\ WF_sttVars(Forward) /\ WF_sttVars(Closing)

SttSpec == SttInit /\ [][SttNext]_sttVars /\ SttFairness

-------------------------------------------------------------------------------
\* The segments are the whole text, each of its words once and in order, wherever
\* it had to be cut.
WholeText(s) == FlattenSeq(segments[s]) = [w \in DOMAIN text[s] |-> w]

\* A listener who stays gets every sound that was made, once and in the order of
\* the text, and from the streaming endpoint a result for every other segment
\* too, although they are spoken in any order and some fail.
AllSaid(s) ==
    /\ \A j, k \in DOMAIN said[s] : j < k => said[s][j][1] < said[s][k][1]
    /\ \A i \in DOMAIN segments[s] :
         sound[s][i] = "audio" \/ s \in streams =>
             \E k \in DOMAIN said[s] : said[s][k] = Result(s, i)

EverySegmentOnce == \A s \in Speakers : stage[s] = "done" => WholeText(s) /\ AllSaid(s)

\* What the streaming endpoint says, of an answer that is complete or not, is a
\* first part of the results, in order (stream_tts_base64).
StreamedInOrder ==
    \A s \in streams :
        /\ Len(said[s]) <= Len(segments[s])
        /\ \A k \in DOMAIN said[s] : said[s][k] = Result(s, k)

\* What the receive task had received when the speaker's "EOS" was read is shown
\* to the speaker, in order, although nothing waits for the tasks that forward
\* it; unless the server went away. What was still on its way, or in the
\* websocket's queue, when the close cancels that task is lost.
HeardIsShown ==
    session = "closed" /\ here = "eos" /\ server => shown = [i \in 1 .. heard |-> i]

\* Nothing hangs: every call of a language model ends, also when calls close the
\* client under each other; every reply in speech ends and leaves no request
\* running; and a session that stops is closed, with its tasks.
CallsEnd ==
    /\ \A c \in Calls : pc[c] # "new" ~> pc[c] = "done"
    /\ \A s \in Speakers : stage[s] # "new" ~>
          stage[s] \in {"done", "closed"} /\ \A i \in DOMAIN sound[s] : sound[s][i] # "running"
    /\ session \in {"connecting", "closing"} ~> session = "open" \/
          (session = "closed" /\ tasks = << >> /\ listening \in {"none", "over"})
=============================================================================
