---------------------------- MODULE StatusDrain ----------------------------
(***************************************************************************)
(* drain_status_until_done of chat/_stream_utils.py with its callers in    *)
(* chat/_streaming.py and chat/_helpers.py: the retrieval task puts status *)
(* messages into an unbounded asyncio queue, a watcher task waits for the  *)
(* retrieval task through asyncio.shield and then puts a sentinel, and the *)
(* generator yields what it gets until the sentinel.  Everything runs on   *)
(* one event loop, so a step runs from one suspension to the next; putting *)
(* into an unbounded queue does not suspend.  The reader may go away while *)
(* the generator waits for the queue (the response task is cancelled) or   *)
(* is suspended at a yield (the generator is closed).                      *)
(***************************************************************************)
EXTENDS Naturals, Sequences

CONSTANTS Statuses,     \* status messages
          MaxEmitted,   \* bound: messages one task emits
          Sentinel      \* _STATUS_DRAIN_SENTINEL

ASSUME DrainAssumption == MaxEmitted \in Nat /\ Sentinel \notin Statuses

VARIABLES emitted,      \* messages emitted so far
          task,         \* rag_task
          queue,        \* status_queue
          shown,        \* messages yielded so far
          consumer,     \* the generator: in "get", at a "yield", "closing" in
                        \* its finally, "complete" or "aborted"
          watcher       \* "waiting" for the task, "cancelled" (cancel() was
                        \* called), "done"

drainVars == <<emitted, task, queue, shown, consumer, watcher>>

DrainTypeOK ==
    /\ emitted \in Seq(Statuses)
    /\ task \in {"running", "returned", "raised"}
    /\ queue \in Seq(Statuses \cup {Sentinel})
    /\ shown \in Seq(Statuses)
    /\ consumer \in {"get", "yield", "closing", "complete", "aborted"}
    /\ watcher \in {"waiting", "cancelled", "done"}

-----------------------------------------------------------------------------
\* Operators named Faulty... are plausible bugs, never used by DrainSpec: each
\* run's properties must reject the specification in which one replaces the
\* definition that follows it.

DrainInit ==
    /\ emitted = <<>>
    /\ task = "running"
    /\ queue = <<>>
    /\ shown = <<>>
    /\ consumer = "get"
    /\ watcher = "waiting"

\* emit_status(m), called by the pipeline that rag_task runs.
Emit(m) ==
    /\ task = "running" /\ Len(emitted) < MaxEmitted
    /\ emitted' = Append(emitted, m)
    /\ queue' = Append(queue, m)
    /\ UNCHANGED <<task, shown, consumer, watcher>>

EndTask(outcome) ==
    /\ task = "running"
    /\ task' = outcome
    /\ UNCHANGED <<emitted, queue, shown, consumer, watcher>>

FaultyNoWait == watcher = "waiting"
\* await asyncio.shield(rag_task) is over: the task returned or raised, or the
\* watcher itself was cancelled (the task is shielded from that).
ShieldOver == task # "running" \/ watcher = "cancelled"

\* Whatever ended the wait, the finally puts the sentinel.
Watch ==
    /\ watcher # "done"
    /\ ShieldOver
    /\ queue' = Append(queue, Sentinel)
    /\ watcher' = "done"
    /\ UNCHANGED <<emitted, task, shown, consumer>>

Ready == queue # <<>>

IsMessage(m) == m # Sentinel

\* The first loop: a message is yielded.
GetMessage ==
    /\ consumer = "get" /\ Ready
    /\ IsMessage(Head(queue))
    /\ shown' = Append(shown, Head(queue))
    /\ queue' = Tail(queue)
    /\ consumer' = "yield"
    /\ UNCHANGED <<emitted, task, watcher>>

\* The first loop ends at the sentinel; the second yields what is left in the
\* queue (NothingLeft: nothing is; and the watcher puts only one sentinel) and
\* the generator ends.  Its finally finds the watcher done: putting the
\* sentinel was its last step.
GetSentinel ==
    /\ consumer = "get" /\ Ready
    /\ ~IsMessage(Head(queue))
    /\ shown' = shown \o Tail(queue)
    /\ queue' = <<>>
    /\ consumer' = "complete"
    /\ UNCHANGED <<emitted, task, watcher>>

\* The response was sent on, the generator is asked for the next item.
ResumeDrain ==
    /\ consumer = "yield"
    /\ consumer' = "get"
    /\ UNCHANGED <<emitted, task, queue, shown, watcher>>

FaultyNoCancel == watcher

Cancelled == IF watcher = "waiting" THEN "cancelled" ELSE watcher

\* CancelledError at get() or GeneratorExit at yield: the finally cancels the
\* watcher if it is not done, and awaits it.
GoAway ==
    /\ consumer \in {"get", "yield"}
    /\ watcher' = Cancelled
    /\ consumer' = "closing"
    /\ UNCHANGED <<emitted, task, queue, shown>>

Closed ==
    /\ consumer = "closing" /\ watcher = "done"
    /\ consumer' = "aborted"
    /\ UNCHANGED <<emitted, task, queue, shown, watcher>>

DrainNext ==
    \/ \E m \in Statuses : Emit(m)
    \/ \E outcome \in {"returned", "raised"} : EndTask(outcome)
    \/ Watch
    \/ GetMessage \/ GetSentinel \/ ResumeDrain
    \/ GoAway \/ Closed

DrainSpec == DrainInit /\ [][DrainNext]_drainVars

-----------------------------------------------------------------------------
Phase == IF consumer \in {"get", "yield"} THEN "open"
         ELSE IF consumer = "complete" THEN "complete" ELSE "aborted"

\* The drain keeps the promise of StatusOrder: every message once, in order,
\* all of them before it is complete, complete only after the task.
Order == INSTANCE StatusOrder WITH Messages <- Statuses, phase <- Phase
KeepsOrder == Order!Spec

\* The second loop ("yield what may be left in the queue after rag_task is
\* done", _stream_utils.py:60) never finds anything: when the sentinel is
\* reached, every emitted message has been shown.
NothingLeft ==
    consumer = "get" /\ Ready /\ Head(queue) = Sentinel
        => Len(queue) = 1 /\ shown = emitted
=============================================================================
