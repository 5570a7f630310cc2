---------------------------- MODULE StatusOrder ----------------------------
(***************************************************************************)
(* What drain_status_until_done promises, without queue, sentinel and      *)
(* watcher: the reader sees the status messages of the retrieval task in   *)
(* the order in which they were emitted, each once; the drain is complete  *)
(* only when the task has ended and every message was shown; the reader    *)
(* may give up at any time before that.                                    *)
(***************************************************************************)
EXTENDS Naturals, Sequences

CONSTANTS Messages,     \* status messages
          MaxEmitted    \* bound: messages one task emits

VARIABLES emitted,      \* messages the task has emitted
          task,         \* the task: "running", "returned" or "raised"
          shown,        \* messages the reader was given
          phase         \* "open", "complete" or "aborted"

vars == <<emitted, task, shown, phase>>

TypeOK ==
    /\ emitted \in Seq(Messages)
    /\ task \in {"running", "returned", "raised"}
    /\ shown \in Seq(Messages)
    /\ phase \in {"open", "complete", "aborted"}

Init ==
    /\ emitted = <<>>
    /\ task = "running"
    /\ shown = <<>>
    /\ phase = "open"

\* The task goes on emitting after the reader gave up.
Emit(m) ==
    /\ task = "running" /\ Len(emitted) < MaxEmitted
    /\ emitted' = Append(emitted, m)
    /\ UNCHANGED <<task, shown, phase>>

EndTask(outcome) ==
    /\ task = "running"
    /\ task' = outcome
    /\ UNCHANGED <<emitted, shown, phase>>

Show ==
    /\ phase = "open"
    /\ Len(shown) < Len(emitted)
    /\ shown' = Append(shown, emitted[Len(shown) + 1])
    /\ UNCHANGED <<emitted, task, phase>>

Complete ==
    /\ phase = "open"
    /\ task # "running" /\ shown = emitted
    /\ phase' = "complete"
    /\ UNCHANGED <<emitted, task, shown>>

Abort ==
    /\ phase = "open"
    /\ phase' = "aborted"
    /\ UNCHANGED <<emitted, task, shown>>

Next ==
    \/ \E m \in Messages : Emit(m)
    \/ \E outcome \in {"returned", "raised"} : EndTask(outcome)
    \/ Show \/ Complete \/ Abort

Spec == Init /\ [][Next]_vars
=============================================================================
