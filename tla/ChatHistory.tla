----------------------------- MODULE ChatHistory -----------------------------
(***************************************************************************)
(* The stored history of one conversation: one row of messages, which      *)
(* every writer reads as a whole and later overwrites as a whole, and one  *)
(* row in gsnd_conversations, which lists it.                              *)
(*                                                                         *)
(* A chat turn (Turns) merges the stored messages into its request when it *)
(* starts, in a pool thread under the conversation's asyncio lock, and     *)
(* writes them back with the answer when it ends, in a pool thread under   *)
(* the conversation's thread lock.  A document question (Asks), feedback   *)
(* and a delete run on the event loop without either lock: one of them at  *)
(* a time, between the statements of the pool threads.  All statements are *)
(* autocommit.  A failed read looks like an empty history and a failed     *)
(* overwrite is logged and forgotten.                                      *)
(*                                                                         *)
(* Contents are abstracted to what the overlap removal of the merge tells  *)
(* apart: whose message it is and which text it has.                       *)
(***************************************************************************)
EXTENDS Integers, Sequences

CONSTANTS Turns,          \* chat turns (streaming requests with search)
          Asks,           \* questions about an uploaded document
          Greeting,       \* owner of the greeting that opens a conversation
          Overlap,        \* kinds of calls that may start while others run
          Fronts,         \* what a client sends: its new question or all it shows
          Answers,        \* how a turn may end: "ok", "error", "refused"
          Reactions,      \* reactions that feedback can store
          MaxReadErrors,  \* bound: failing history reads
          MaxWriteErrors  \* bound: failing statements that write

ASSUME HistoryAssumption ==
    /\ Turns \cap Asks = {}
    /\ Greeting \notin Turns \cup Asks
    /\ Overlap \subseteq {"turn", "ask", "feedback", "delete"}
    /\ Fronts \subseteq {"new", "all"}
    /\ Answers \subseteq {"ok", "error", "refused"}
    /\ "none" \notin Reactions
    /\ MaxReadErrors \in Nat
    /\ MaxWriteErrors \in Nat

VARIABLES row,         \* messages_json of the conversation; << >>: no row
          listed,      \* gsnd_conversations has the conversation
          shown,       \* the messages the client displays
          pc,          \* pc[r]: the next step of request r
          front,       \* front[r]: messages of the client, before the merge
          mem,         \* mem[r]: chat_request.messages, after the merge
          text,        \* text[r]: the assistant content that r will store
          loop,        \* the synchronous handler that holds the event loop
          held,        \* feedback: the messages it read, with the reaction set
          mark,        \* feedback: whose answer gets which reaction
          acked,       \* acked[i]: reaction last acknowledged for i's answer
          deleted,     \* a delete of the conversation was acknowledged
          readErrors, writeErrors

requestVars == <<pc, front, mem, text>>
feedbackVars == <<held, mark, acked>>
vars == <<row, listed, shown, requestVars, loop, feedbackVars, deleted,
          readErrors, writeErrors>>

Requests == Turns \cup Asks
Owners == Requests \cup {Greeting}
Texts == {"question", "answer", "apology", "greeting", ""}
Message == [owner : Owners, role : {"user", "assistant"}, text : Texts,
            reaction : Reactions \cup {"none"}]

UserMessage(r) ==
    [owner |-> r, role |-> "user", text |-> "question", reaction |-> "none"]
AssistantMessage(r, t) ==
    [owner |-> r, role |-> "assistant", text |-> t, reaction |-> "none"]

\* msg_key: role and content, all that the merge compares.
Key(m) == <<m.owner, m.role, m.text>>

TypeOK ==
    /\ row \in Seq(Message)
    /\ listed \in BOOLEAN
    /\ shown \in Seq(Message)
    /\ pc \in [Requests -> {"new", "read", "list", "answer", "save", "relist", "done"}]
    /\ front \in [Requests -> Seq(Message)]
    /\ mem \in [Requests -> Seq(Message)]
    /\ text \in [Requests -> Texts]
    /\ loop \in {"idle", "ask", "feedback", "history", "listing"}
    /\ held \in Seq(Message)
    /\ mark \in Owners \X (Reactions \cup {"none"})
    /\ acked \in [Owners -> Reactions \cup {"none"}]
    /\ deleted \in BOOLEAN
    /\ readErrors \in 0 .. MaxReadErrors
    /\ writeErrors \in 0 .. MaxWriteErrors

-------------------------------------------------------------------------------
\* Operators named Faulty... are plausible bugs, never used by Spec: each run's
\* properties must reject the specification in which one replaces the
\* definition that follows it.
FaultyFrontOnly(db, new) == new

\* The first k messages of the client repeat the last k of the database.
Repeats(db, new, k) ==
    \A i \in 1 .. k : Key(db[Len(db) - k + i]) = Key(new[i])

\* _do_merge: the stored messages, then the client's without the longest
\* prefix that repeats their end.
Merge(db, new) ==
    LET ks == {k \in 0 .. Len(new) : k <= Len(db) /\ Repeats(db, new, k)}
        overlap == CHOOSE k \in ks : \A j \in ks : j <= k
    IN  db \o SubSeq(new, overlap + 1, Len(new))

FaultyAppend(messages, r, t) == Append(messages, AssistantMessage(r, t))

\* _save_chat_history: the answer replaces a closing assistant message, and is
\* appended otherwise.
StoreAnswer(messages, r, t) ==
    LET n == Len(messages)
    IN  IF n > 0 /\ messages[n].role = "assistant"
        THEN [messages EXCEPT ![n].text = t]
        ELSE Append(messages, AssistantMessage(r, t))

Init ==
    /\ \/ row = << >> /\ listed \in BOOLEAN
       \/ row = <<AssistantMessage(Greeting, "greeting")>> /\ listed = TRUE
    /\ shown = row
    /\ pc = [r \in Requests |-> "new"]
    /\ front = [r \in Requests |-> << >>]
    /\ mem = [r \in Requests |-> << >>]
    /\ text = [r \in Requests |-> ""]
    /\ loop = "idle"
    /\ held = << >>
    /\ mark = <<Greeting, "none">>
    /\ acked = [o \in Owners |-> "none"]
    /\ deleted = FALSE
    /\ readErrors = 0
    /\ writeErrors = 0

Running(r) == pc[r] \notin {"new", "done"}

\* A call starts when the event loop is free; the client of a deleted
\* conversation makes no more calls for it.
MayStart(kind) ==
    /\ loop = "idle"
    /\ ~deleted
    /\ kind \in Overlap \/ \A r \in Requests : ~Running(r)

ReadFails == readErrors < MaxReadErrors /\ readErrors' = readErrors + 1
WriteFails == writeErrors < MaxWriteErrors /\ writeErrors' = writeErrors + 1

\* get_history: the stored messages; after a database error an empty list.
Reads(db) ==
    \/ db = row /\ UNCHANGED readErrors
    \/ db = << >> /\ ReadFails

\* upsert_history with overwrite: the whole list, or nothing after an error.
Overwrite(messages) ==
    \/ row' = messages /\ UNCHANGED writeErrors
    \/ UNCHANGED row /\ WriteFails

\* ensure_conversation_exists, when its statement succeeds.
Listing == listed' = TRUE

-------------------------------------------------------------------------------
\* A chat turn: read and list under the merge lock, answer, save.

Start(r, kind) ==
    /\ pc[r] = "new" /\ MayStart("turn")
    /\ pc' = [pc EXCEPT ![r] = "read"]
    /\ shown' = Append(shown, UserMessage(r))
    /\ front' = [front EXCEPT ![r] =
                    IF kind = "all" THEN shown' ELSE <<UserMessage(r)>>]
    /\ UNCHANGED <<row, listed, mem, text, loop, feedbackVars, deleted,
                   readErrors, writeErrors>>

Read(r) ==
    /\ pc[r] = "read"
    /\ \A o \in Turns : pc[o] # "list"
    /\ \E db \in {row, << >>} :
        /\ Reads(db)
        /\ mem' = [mem EXCEPT ![r] = Merge(db, front[r])]
    /\ pc' = [pc EXCEPT ![r] = "list"]
    /\ UNCHANGED <<row, listed, shown, front, text, loop, feedbackVars,
                   deleted, writeErrors>>

\* An error of ensure_conversation_exists ends the request at this point.
List(r) ==
    /\ pc[r] = "list"
    /\ \/ Listing /\ pc' = [pc EXCEPT ![r] = "answer"] /\ UNCHANGED writeErrors
       \/ WriteFails /\ pc' = [pc EXCEPT ![r] = "done"] /\ UNCHANGED listed
    /\ UNCHANGED <<row, shown, front, mem, text, loop, feedbackVars, deleted,
                   readErrors>>

\* The user limit answers without saving.
Refuse(r) ==
    /\ "refused" \in Answers
    /\ pc[r] = "answer" /\ loop = "idle"
    /\ pc' = [pc EXCEPT ![r] = "done"]
    /\ shown' = Append(shown, AssistantMessage(r, "apology"))
    /\ UNCHANGED <<row, listed, front, mem, text, loop, feedbackVars, deleted,
                   readErrors, writeErrors>>

\* After an error the client sees an apology, and the empty content is stored.
Answer(r, result) ==
    /\ pc[r] = "answer" /\ loop = "idle"
    /\ pc' = [pc EXCEPT ![r] = "save"]
    /\ shown' = Append(shown, AssistantMessage(r,
                    IF result = "ok" THEN "answer" ELSE "apology"))
    /\ text' = [text EXCEPT ![r] = IF result = "ok" THEN "answer" ELSE ""]
    /\ UNCHANGED <<row, listed, front, mem, loop, feedbackVars, deleted,
                   readErrors, writeErrors>>

\* _save_stream_history appends the answer to the request's messages and hands
\* both to _save_chat_history.
SaveTurn(r) ==
    /\ pc[r] = "save"
    /\ \A o \in Turns : pc[o] # "relist"
    /\ mem' = [mem EXCEPT ![r] = Append(@, AssistantMessage(r, text[r]))]
    /\ Overwrite(StoreAnswer(mem'[r], r, text[r]))
    /\ pc' = [pc EXCEPT ![r] = "relist"]
    /\ UNCHANGED <<listed, shown, front, text, loop, feedbackVars, deleted,
                   readErrors>>

RelistTurn(r) ==
    /\ pc[r] = "relist"
    /\ \/ Listing /\ UNCHANGED writeErrors
       \/ UNCHANGED listed /\ WriteFails
    /\ pc' = [pc EXCEPT ![r] = "done"]
    /\ UNCHANGED <<row, shown, front, mem, text, loop, feedbackVars, deleted,
                   readErrors>>

-------------------------------------------------------------------------------
\* A document question, from the moment its answer is known: on the event loop.

AppendAnswer(r) ==
    /\ pc[r] = "new" /\ loop = "idle"
    /\ loop' = "ask"
    /\ \E db \in {row, << >>} :
        /\ Reads(db)
        /\ mem' = [mem EXCEPT ![r] =
                      db \o <<UserMessage(r), AssistantMessage(r, "answer")>>]
    /\ text' = [text EXCEPT ![r] = "answer"]
    /\ pc' = [pc EXCEPT ![r] = "save"]
    /\ UNCHANGED <<row, listed, shown, front, feedbackVars, deleted, writeErrors>>

ReadAsk(r) == MayStart("ask") /\ AppendAnswer(r)

SaveAsk(r) ==
    /\ pc[r] = "save"
    /\ Overwrite(StoreAnswer(mem[r], r, text[r]))
    /\ pc' = [pc EXCEPT ![r] = "relist"]
    /\ UNCHANGED <<listed, shown, front, mem, text, loop, feedbackVars, deleted,
                   readErrors>>

RelistAsk(r) ==
    /\ pc[r] = "relist"
    /\ \/ Listing /\ UNCHANGED writeErrors
       \/ UNCHANGED listed /\ WriteFails
    /\ pc' = [pc EXCEPT ![r] = "done"]
    /\ loop' = "idle"
    /\ shown' = shown \o <<UserMessage(r), AssistantMessage(r, "answer")>>
    /\ UNCHANGED <<row, front, mem, text, feedbackVars, deleted, readErrors>>

-------------------------------------------------------------------------------
\* Feedback on the i-th stored message.  Without such an assistant message, or
\* after a failed read, the handler answers with an error and changes nothing.

React(messages, i, reaction) == [messages EXCEPT ![i].reaction = reaction]

ReadFeedback(i, reaction) ==
    /\ MayStart("feedback")
    /\ i \in 1 .. Len(row) /\ row[i].role = "assistant"
    /\ held' = React(row, i, reaction)
    /\ mark' = <<row[i].owner, reaction>>
    /\ loop' = "feedback"
    /\ UNCHANGED <<row, listed, shown, requestVars, acked, deleted, readErrors,
                   writeErrors>>

\* The reply says history_updated whether or not the overwrite went through.
WriteFeedback ==
    /\ loop = "feedback"
    /\ Overwrite(held)
    /\ acked' = [acked EXCEPT ![mark[1]] = mark[2]]
    /\ loop' = "idle"
    /\ UNCHANGED <<listed, shown, requestVars, held, mark, deleted, readErrors>>

-------------------------------------------------------------------------------
\* Delete of the conversation: three statements, any of which may fail and end
\* the call.

FaultyForget == UNCHANGED row

\* Both history tables; the conversation's messages are in one of them.
Forget == row' = << >>

VerifyOwner ==
    /\ MayStart("delete")
    /\ listed
    /\ loop' = "history"
    /\ UNCHANGED <<row, listed, shown, requestVars, feedbackVars, deleted,
                   readErrors, writeErrors>>

DeleteHistory ==
    /\ loop = "history"
    /\ \/ Forget /\ loop' = "listing" /\ UNCHANGED writeErrors
       \/ WriteFails /\ loop' = "idle" /\ UNCHANGED row
    /\ UNCHANGED <<listed, shown, requestVars, feedbackVars, deleted, readErrors>>

DeleteListing ==
    /\ loop = "listing"
    /\ loop' = "idle"
    /\ \/ listed' = FALSE /\ deleted' = TRUE /\ shown' = << >> /\ UNCHANGED writeErrors
       \/ WriteFails /\ UNCHANGED <<listed, deleted, shown>>
    /\ UNCHANGED <<row, requestVars, feedbackVars, readErrors>>

TurnNext(r) ==
    \/ \E kind \in Fronts : Start(r, kind)
    \/ Read(r) \/ List(r) \/ Refuse(r)
    \/ \E result \in Answers \ {"refused"} : Answer(r, result)
    \/ SaveTurn(r) \/ RelistTurn(r)

AskNext(r) == ReadAsk(r) \/ SaveAsk(r) \/ RelistAsk(r)

FeedbackNext ==
    \/ \E i \in 1 .. Len(row), reaction \in Reactions : ReadFeedback(i, reaction)
    \/ WriteFeedback

DeleteNext == VerifyOwner \/ DeleteHistory \/ DeleteListing

Next ==
    \/ \E r \in Turns : TurnNext(r)
    \/ \E r \in Asks : AskNext(r)
    \/ FeedbackNext
    \/ DeleteNext

Spec == Init /\ [][Next]_vars

-------------------------------------------------------------------------------
\* Overwriting never loses a stored message: whatever a writer holds when it
\* replaces the row contains every message of the row, with the same text.
\* Only the delete removes messages (upsert_history with overwrite=True).
NothingLost ==
    [][loop # "history" =>
         \A i \in 1 .. Len(row) : \E j \in 1 .. Len(row') :
             Key(row'[j]) = Key(row[i])]_vars

\* The stored history is an optional greeting followed by whole turns, each
\* question directly before its own answer and stored once: merge and save
\* neither duplicate a message nor tear a turn apart.
WholeTurns ==
    LET g == IF Len(row) > 0 /\ row[1].owner = Greeting THEN 1 ELSE 0
        IsUser(i) == (i - g) % 2 = 1
    IN  /\ (Len(row) - g) % 2 = 0
        /\ \A i \in g + 1 .. Len(row) :
             /\ row[i].owner \in Requests
             /\ row[i].role = IF IsUser(i) THEN "user" ELSE "assistant"
             /\ IsUser(i) => row[i + 1].owner = row[i].owner
        /\ \A i, j \in g + 1 .. Len(row) :
             (row[i].owner = row[j].owner /\ row[i].role = row[j].role) => i = j

\* A reaction the feedback handler acknowledged stays on the stored answer,
\* through every later overwrite by a turn or a document question.
LikeKept ==
    loop # "feedback" =>
        \A i \in 1 .. Len(row) :
            row[i].role = "assistant" => row[i].reaction = acked[row[i].owner]

\* When nothing is running, a stored history belongs to a listed conversation,
\* so its owner can see it and delete it (delete_conversation looks there).
NoOrphan ==
    (loop = "idle" /\ \A r \in Requests : ~Running(r)) =>
        (row # << >> => listed)

\* After an acknowledged delete neither the messages nor the conversation come
\* back.
StaysDeleted == deleted => row = << >> /\ ~listed
=============================================================================
