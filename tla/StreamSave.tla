----------------------------- MODULE StreamSave -----------------------------
(***************************************************************************)
(* One streaming turn, _streaming_chat_flow of chat/_streaming.py, and the *)
(* saves of its answer.  The flow is an asynchronous generator; a step     *)
(* runs from one suspension to the next.  The reader may leave             *)
(*                                                                         *)
(*   - while the flow awaits: the response task is cancelled, and again at *)
(*     every later await, so nothing of the finally block after its first  *)
(*     await is run, but a save that is shielded, or already in its pool   *)
(*     thread, goes on;                                                    *)
(*   - while the flow is suspended at a yield: the generator is closed and *)
(*     its finally block runs undisturbed in a task of its own.            *)
(*                                                                         *)
(* An answer is a number of pieces; 0 is the empty answer.  The question   *)
(* is never empty.  Database errors end inside the save, which reports     *)
(* success all the same (upsert_history).                                  *)
(***************************************************************************)
EXTENDS Naturals, Sequences

CONSTANTS Pieces,           \* length of a complete answer
          MaxWriteErrors    \* bound: overwrites that fail

ASSUME StreamAssumption == Pieces \in Nat \ {0} /\ MaxWriteErrors \in Nat

VARIABLES pc,           \* where the flow is suspended
          path,         \* how the turn is answered, once decided
          content,      \* assistant_content: pieces collected
          sent,         \* pieces the reader got
          doneSent,     \* the reader got [DONE]
          saved,        \* _history_saved
          left,         \* the reader: "no", "closed" or "cancelled" the flow
          thread,       \* the pool thread's save: "off", "queued", "running"
          job,          \* what it saves: [by, text]
          mem,          \* answers that follow the question in the request's
                        \* messages
          row,          \* answers that follow the question in the stored row;
                        \* << >>: the turn is not stored
          writeErrors

flowVars == <<pc, path, content, sent, doneSent, saved, left>>
saveVars == <<mem, row, writeErrors>>
vars == <<flowVars, thread, job, saveVars>>

Texts == 0 .. Pieces
SearchPaths == {"text", "stream"}
Paths == {"open", "early", "late", "failed"} \cup SearchPaths

TypeOK ==
    /\ pc \in {"head", "saving", "reply", "stream", "piece", "docs",
               "apology", "done", "csv", "final", "ended"}
    /\ path \in Paths
    /\ content \in Texts
    /\ sent \in Texts
    /\ doneSent \in BOOLEAN
    /\ saved \in BOOLEAN
    /\ left \in {"no", "closed", "cancelled"}
    /\ thread \in {"off", "queued", "running"}
    /\ job \in [by : {"turn", "stream"}, text : Texts]
    /\ mem \in Seq(Texts)
    /\ row \in Seq(Texts)
    /\ writeErrors \in 0 .. MaxWriteErrors

-----------------------------------------------------------------------------
\* Operators named Faulty... are plausible bugs, never used by Spec: each run's
\* properties must reject the specification in which one replaces the
\* definition that follows it.

Init ==
    /\ pc = "head"
    /\ path = "open"
    /\ content = 0
    /\ sent = 0
    /\ doneSent = FALSE
    /\ saved = FALSE
    /\ left = "no"
    /\ thread = "off"
    /\ job = [by |-> "turn", text |-> 0]
    /\ mem = << >>
    /\ row = << >>
    /\ writeErrors = 0

-----------------------------------------------------------------------------
\* The pool thread.

\* The awaited save has returned.
SaveOver == thread = "off"

Submit(by, text) ==
    /\ thread' = "queued"
    /\ job' = [by |-> by, text |-> text]

\* Once the executor has started a save, cancelling the await does not stop it.
Execute ==
    /\ thread = "queued"
    /\ thread' = "running"
    /\ UNCHANGED <<flowVars, job, saveVars>>

FaultyMessages == Append(mem, job.text)

\* chat_request.messages once the save is through: _save_stream_history
\* appends the answer, _save_chat_history works on a copy.
Messages == IF job.by = "stream" THEN Append(mem, job.text) ELSE mem

\* What _save_chat_history stores: the answer in place of a closing assistant
\* message, or appended.
Stored(messages) ==
    IF messages = << >> THEN <<job.text>>
    ELSE [messages EXCEPT ![Len(messages)] = job.text]

Commit ==
    /\ thread = "running"
    /\ thread' = "off"
    /\ mem' = Messages
    /\ \/ row' = Stored(mem') /\ UNCHANGED writeErrors
       \/ /\ writeErrors < MaxWriteErrors
          /\ writeErrors' = writeErrors + 1
          /\ UNCHANGED row
    /\ UNCHANGED <<flowVars, job>>

-----------------------------------------------------------------------------
\* Questions back to the user (pre-check, topic) and the message that ends the
\* region questions: saved before they are sent, in an await without shield.

AskBack ==
    /\ pc = "head"
    /\ path' = "early"
    /\ pc' = "saving"
    /\ Submit("turn", Pieces)
    /\ UNCHANGED <<content, sent, doneSent, saved, left, saveVars>>

FaultyReplyText == 0

\* assistant_content is set before the reply is sent, whose text is known.
ReplyText == Pieces

AskedBack ==
    /\ pc = "saving" /\ path = "early" /\ SaveOver
    /\ content' = ReplyText
    /\ pc' = "reply"
    /\ UNCHANGED <<path, sent, doneSent, saved, left, thread, job, saveVars>>

\* No search needed, a region question, a place out of scope: nothing is saved
\* before the finally block.
AnswerDirectly ==
    /\ pc = "head"
    /\ path' = "late"
    /\ content' = ReplyText
    /\ pc' = "reply"
    /\ UNCHANGED <<sent, doneSent, saved, left, thread, job, saveVars>>

-----------------------------------------------------------------------------
\* The retrieval task returns a text, or a stream of the language model's
\* pieces, or raises.

ResultIsText ==
    /\ pc = "head"
    /\ path' = "text"
    /\ content' = ReplyText
    /\ pc' = "reply"
    /\ UNCHANGED <<sent, doneSent, saved, left, thread, job, saveVars>>

ResultIsStream ==
    /\ pc = "head"
    /\ path' = "stream"
    /\ pc' = "stream"
    /\ UNCHANGED <<content, sent, doneSent, saved, left, thread, job, saveVars>>

\* The retrieval task or the model's stream raises: an apology follows.
Fail ==
    /\ pc \in {"head", "stream"}
    /\ path' = "failed"
    /\ pc' = "apology"
    /\ UNCHANGED <<content, sent, doneSent, saved, left, thread, job, saveVars>>

\* An error that no handler of the flow catches, of the pre-check or of a call
\* to the language model: only the finally block follows.
Raise ==
    /\ pc = "head"
    /\ path' = "failed"
    /\ pc' = "csv"
    /\ UNCHANGED <<content, sent, doneSent, saved, left, thread, job, saveVars>>

\* A piece is yielded first and collected when the reader asks for the next.
YieldPiece ==
    /\ pc = "stream" /\ sent < Pieces
    /\ sent' = sent + 1
    /\ pc' = "piece"
    /\ UNCHANGED <<path, content, doneSent, saved, left, thread, job, saveVars>>

Collected == content + 1

CollectPiece ==
    /\ pc = "piece"
    /\ content' = Collected
    /\ pc' = "stream"
    /\ UNCHANGED <<path, sent, doneSent, saved, left, thread, job, saveVars>>

\* A known text is sent piece by piece.
SendPiece ==
    /\ pc = "reply" /\ sent < Pieces
    /\ sent' = sent + 1
    /\ UNCHANGED <<pc, path, content, doneSent, saved, left, thread, job, saveVars>>

-----------------------------------------------------------------------------
\* The end of the answer.

\* The whole answer was sent: the model's stream ends, or the text does.
AnswerComplete == sent = Pieces /\ pc \in {"reply", "stream"}

\* Referenced documents, service cards or topic chips, if there are any.
YieldDocuments ==
    /\ AnswerComplete /\ path \in SearchPaths
    /\ pc' = "docs"
    /\ UNCHANGED <<path, content, sent, doneSent, saved, left, thread, job, saveVars>>

\* Save before [DONE], shielded.
PreSave ==
    /\ pc = "docs" \/ (AnswerComplete /\ path \in SearchPaths)
    /\ pc' = "saving"
    /\ Submit("stream", content)
    /\ UNCHANGED <<path, content, sent, doneSent, saved, left, saveVars>>

\* The save has returned True; [DONE] is yielded.
PreSaved ==
    /\ pc = "saving" /\ path \in SearchPaths /\ SaveOver
    /\ saved' = TRUE
    /\ doneSent' = TRUE
    /\ pc' = "done"
    /\ UNCHANGED <<path, content, sent, left, thread, job, saveVars>>

\* The other ways to answer yield [DONE] right after the reply or the apology.
SendDone ==
    /\ pc = "apology" \/ (AnswerComplete /\ path \in {"early", "late"})
    /\ doneSent' = TRUE
    /\ pc' = "done"
    /\ UNCHANGED <<path, content, sent, saved, left, thread, job, saveVars>>

-----------------------------------------------------------------------------
\* finally: the timing row is written, then the turn saved if it is not.

Resume ==
    /\ pc = "done"
    /\ pc' = "csv"
    /\ UNCHANGED <<path, content, sent, doneSent, saved, left, thread, job, saveVars>>

MustSave == ~saved

CsvWritten ==
    /\ pc = "csv"
    /\ IF MustSave
       THEN pc' = "final" /\ Submit("stream", content)
       ELSE pc' = "ended" /\ UNCHANGED <<thread, job>>
    /\ UNCHANGED <<path, content, sent, doneSent, saved, left, saveVars>>

FinalSaved ==
    /\ pc = "final" /\ SaveOver
    /\ pc' = "ended"
    /\ UNCHANGED <<path, content, sent, doneSent, saved, left, thread, job, saveVars>>

-----------------------------------------------------------------------------
\* The reader leaves.

\* The flow is suspended at a yield.
Close ==
    /\ pc \in {"head", "reply", "piece", "docs", "apology", "done"}
    /\ left' = "closed"
    /\ pc' = "csv"
    /\ UNCHANGED <<path, content, sent, doneSent, saved, thread, job, saveVars>>

FaultyShielded == FALSE

\* asyncio.shield is around the await of the save.
Shielded == pc = "final" \/ path \in SearchPaths

\* The flow is suspended at an await, and not already closed.  An await of a
\* save that is still queued and not shielded takes it out of the queue.
Cancel ==
    /\ pc \in {"head", "saving", "stream", "reply", "apology", "csv", "final"}
    /\ left = "no"
    /\ left' = "cancelled"
    /\ pc' = "ended"
    /\ thread' = IF thread = "queued" /\ ~Shielded THEN "off" ELSE thread
    /\ UNCHANGED <<path, content, sent, doneSent, saved, job, saveVars>>

-----------------------------------------------------------------------------
Answering ==
    \/ AskBack \/ AskedBack \/ AnswerDirectly
    \/ ResultIsText \/ ResultIsStream \/ Fail \/ Raise
    \/ YieldPiece \/ CollectPiece \/ SendPiece

Ending ==
    \/ YieldDocuments \/ PreSave \/ PreSaved \/ SendDone
    \/ Resume \/ CsvWritten \/ FinalSaved

Next == Answering \/ Ending \/ Execute \/ Commit \/ Close \/ Cancel

Spec == Init /\ [][Next]_vars

-----------------------------------------------------------------------------
\* The turn is stored with one answer at most, although up to two saves run
\* over the same message list (_streaming.py:479 and 510).
StoredOnce == Len(row) <= 1

\* The reader of a search answer that got [DONE] finds it complete in the
\* history, whenever it asks: "save before [DONE]" (_streaming.py:476).
DoneIsStored ==
    doneSent /\ path \in SearchPaths /\ writeErrors = 0 => row = <<Pieces>>

\* However the turn is answered, if the reader stays or leaves at a yield, all
\* that was collected is stored when the flow is over.
CollectedIsStored ==
    pc = "ended" /\ left # "cancelled" /\ writeErrors = 0 => row = <<content>>

\* A reader that leaves never saw more than one piece that is not stored: the
\* piece yielded and not yet collected.
ShownIsStored ==
    pc = "ended" /\ left = "closed" /\ writeErrors = 0
        => Len(row) = 1 /\ sent <= row[1] + 1

\* A later save never puts a shorter answer over a stored one.
NeverShortened ==
    [][row # << >> => row' # << >> /\ row'[Len(row')] >= row[Len(row)]]_vars
=============================================================================
