----------------------------- MODULE StreamTurn -----------------------------
(***************************************************************************)
(* A streaming turn with its search: the flow of StreamSave waits in its   *)
(* "head" state for the drain of StatusDrain, while the retrieval task runs*)
(* beside it.  The task is never cancelled: it may go on after the turn.   *)
(* The turn is either                                                      *)
(*                                                                         *)
(*   - "chat": _streaming_chat_flow of chat/_streaming.py, whose steps are *)
(*     those of StreamSave, or                                             *)
(*   - "guide": rag_stream of chat/_helpers.py, which answers a click on a *)
(*     chip and the recommendation endpoints.  It has no finally block: it *)
(*     saves before [DONE] and without shield, or not at all.              *)
(***************************************************************************)
EXTENDS StreamSave, StatusDrain

VARIABLES kind,         \* "chat" or "guide"
          searching     \* the retrieval task was created

streamVars == <<flowVars, thread, job, saveVars>>
turnVars == <<streamVars, drainVars, kind, searching>>

TurnTypeOK ==
    /\ TypeOK /\ DrainTypeOK
    /\ kind \in {"chat", "guide"}
    /\ searching \in BOOLEAN

TurnInit ==
    /\ Init /\ DrainInit
    /\ kind \in {"chat", "guide"}
    /\ searching = FALSE

-----------------------------------------------------------------------------
\* The search.

\* asyncio.create_task(rag_processor(...)), then the drain.
StartSearch ==
    /\ pc = "head" /\ ~searching
    /\ searching' = TRUE
    /\ UNCHANGED <<streamVars, drainVars, kind>>

Elsewhere == UNCHANGED <<streamVars, kind, searching>>

TaskStep ==
    /\ searching
    /\ \/ \E m \in Statuses : Emit(m)
       \/ \E outcome \in {"returned", "raised"} : EndTask(outcome)
    /\ Elsewhere

WatcherStep == searching /\ Watch /\ Elsewhere

\* The drain shows what comes, as long as the reader asks for more.
DrainStep ==
    /\ searching /\ left = "no"
    /\ GetMessage \/ GetSentinel \/ ResumeDrain
    /\ Elsewhere

\* await rag_task, after the drain.
Searched(outcome) == searching /\ consumer = "complete" /\ task = outcome

-----------------------------------------------------------------------------
\* The reader leaves while the drain runs.

\* At a yield: the flow's finally runs, and the drain is closed by a task of
\* its own.
CloseDrain ==
    /\ left = "closed" /\ consumer = "yield"
    /\ GoAway
    /\ Elsewhere

\* At queue.get(): the drain's finally runs before the flow's.
CancelDrain ==
    /\ searching /\ left = "no" /\ consumer = "get"
    /\ GoAway
    /\ Elsewhere

-----------------------------------------------------------------------------
\* The chat turn.

\* The flow is at one of its own awaits or yields, not in the drain.
OutsideDrain == pc = "head" => ~searching

ChatStep ==
    /\ kind = "chat"
    /\ \/ ~searching /\ (AskBack \/ AnswerDirectly \/ Raise)
       \/ Searched("returned") /\ (ResultIsText \/ ResultIsStream)
       \/ (pc = "head" => Searched("raised")) /\ Fail
       \/ AskedBack \/ YieldPiece \/ CollectPiece \/ SendPiece
       \/ Ending
       \/ Close /\ (OutsideDrain \/ consumer = "yield")
       \/ Cancel /\ OutsideDrain
    /\ UNCHANGED <<drainVars, kind, searching>>

\* What the finally block awaits is over.
FinallyStep ==
    /\ kind = "chat"
    /\ CsvWritten \/ FinalSaved
    /\ UNCHANGED <<drainVars, kind, searching>>

\* The cancellation of the drain reaches the flow.
ChatCancelled ==
    /\ kind = "chat" /\ pc = "head"
    /\ Closed
    /\ Cancel
    /\ UNCHANGED <<kind, searching>>

-----------------------------------------------------------------------------
\* The guide turn.

GuideText ==
    /\ Searched("returned") /\ ResultIsText

GuideStream ==
    /\ Searched("returned") /\ ResultIsStream

\* The task has raised: an apology follows, which is not stored.
GuideFailed ==
    /\ pc = "head" /\ Searched("raised")
    /\ Fail

\* A piece is collected, then yielded; the model's stream may break at any
\* piece, and no handler catches that.
GuidePiece ==
    /\ pc = "stream" /\ sent < Pieces
    /\ content' = Collected
    /\ sent' = sent + 1
    /\ UNCHANGED <<pc, path, doneSent, saved, left, thread, job, saveVars>>

GuideBroken ==
    /\ pc = "stream"
    /\ pc' = "ended"
    /\ UNCHANGED <<path, content, sent, doneSent, saved, left, thread, job, saveVars>>

FaultyMustStore == path = "text"

\* Both kinds of answer are saved, unless they are empty.
MustStore == content > 0

GuideSave ==
    /\ pc = "docs" \/ (AnswerComplete /\ path \in SearchPaths)
    /\ MustStore
    /\ pc' = "saving"
    /\ Submit("turn", content)
    /\ UNCHANGED <<path, content, sent, doneSent, saved, left, saveVars>>

GuideDone ==
    /\ \/ pc = "saving" /\ SaveOver
       \/ pc = "apology"
       \/ ~MustStore /\ (pc = "docs" \/ (AnswerComplete /\ path \in SearchPaths))
    /\ doneSent' = TRUE
    /\ pc' = "done"
    /\ UNCHANGED <<path, content, sent, saved, left, thread, job, saveVars>>

GuideEnded ==
    /\ pc = "done"
    /\ pc' = "ended"
    /\ UNCHANGED <<path, content, sent, doneSent, saved, left, thread, job, saveVars>>

\* At a yield or an await of the turn's own: nothing more is done, and a save
\* that is still queued is dropped.
GuideLeft ==
    /\ pc # "ended" /\ left = "no"
    /\ OutsideDrain \/ consumer = "yield"
    /\ left' = IF pc = "saving" \/ (pc = "stream" /\ sent = 0) THEN "cancelled" ELSE "closed"
    /\ pc' = "ended"
    /\ thread' = IF thread = "queued" THEN "off" ELSE thread
    /\ UNCHANGED <<path, content, sent, doneSent, saved, job, saveVars>>

GuideStep ==
    /\ kind = "guide"
    /\ \/ GuideText \/ GuideStream \/ GuideFailed
       \/ GuidePiece \/ SendPiece \/ GuideBroken
       \/ YieldDocuments \/ GuideSave \/ GuideDone \/ GuideEnded
       \/ GuideLeft
    /\ UNCHANGED <<drainVars, kind, searching>>

GuideCancelled ==
    /\ kind = "guide" /\ pc = "head"
    /\ Closed
    /\ left' = "cancelled" /\ pc' = "ended"
    /\ UNCHANGED <<path, content, sent, doneSent, saved, thread, job, saveVars, kind, searching>>

-----------------------------------------------------------------------------
\* The drain's own end, when the flow is over or in its finally.
DrainClosed ==
    /\ pc # "head" /\ Closed
    /\ Elsewhere

PoolStep ==
    /\ Execute \/ Commit
    /\ UNCHANGED <<drainVars, kind, searching>>

TurnNext ==
    \/ StartSearch \/ TaskStep \/ WatcherStep \/ DrainStep \/ PoolStep
    \/ ChatStep \/ GuideStep
    \/ CloseDrain \/ CancelDrain \/ DrainClosed \/ ChatCancelled \/ GuideCancelled

TurnSpec == TurnInit /\ [][TurnNext]_turnVars

\* Pool threads run, the event loop resumes what is ready, and a reader reads
\* on or leaves.  Nothing is assumed of the retrieval and the language model.
TurnFairness ==
    /\ WF_turnVars(PoolStep)
    /\ WF_turnVars(WatcherStep) /\ WF_turnVars(DrainStep)
    /\ WF_turnVars(CloseDrain) /\ WF_turnVars(DrainClosed)
    /\ WF_turnVars(ChatCancelled) /\ WF_turnVars(GuideCancelled)
    /\ WF_turnVars(FinallyStep)
FairTurnSpec == TurnSpec /\ TurnFairness

-----------------------------------------------------------------------------
\* A reader of the chat that leaves never saw more than one piece that is not
\* stored: the finally block of _streaming.py saves what was collected.
ChatShownIsStored == kind = "chat" => ShownIsStored

\* Once the chat's save before [DONE] was started, the answer gets stored, even
\* if the reader leaves at that moment (asyncio.shield, _streaming.py:480).
PreSaveLands ==
    (kind = "chat" /\ pc = "saving" /\ path \in SearchPaths)
        ~> (row = <<Pieces>> \/ writeErrors > 0)

\* A reader that leaves, at whatever point of the search or the answer, keeps
\* neither the turn alive nor the drain's watcher: what goes on is the search.
LeavingEnds ==
    left # "no" ~> /\ pc = "ended" /\ thread = "off"
                   /\ searching => watcher = "done" \/ consumer = "complete"
=============================================================================
