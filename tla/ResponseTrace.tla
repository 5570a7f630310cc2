--------------------------- MODULE ResponseTrace ---------------------------
(***************************************************************************)
(* The response trace of one server process, when it is switched on: the   *)
(* module-wide record of a request's stages (rag/stage_trace.py) and the   *)
(* log of answers it is written to (rag/trace_sink.py).                    *)
(*                                                                         *)
(* Requests run as coroutines of one event loop; a request's searches run  *)
(* in threads, and those that outlast its limit go on after it.  All of    *)
(* them write the one record, each time under a lock for the whole call,   *)
(* so each call is a step.  The record is reset by a request's             *)
(* preprocessing and copied once the answer's model has been called.       *)
(*                                                                         *)
(* Writing a log entry is a step too: its task never waits, the lock of    *)
(* the spreadsheet, which gets the same entry with long cells cut, is      *)
(* never contended.  The stage of document lists is left out: its only     *)
(* callers are the search-engine half of the guide pipeline, switched off. *)
(***************************************************************************)
EXTENDS Naturals, Sequences

CONSTANTS Traced,       \* requests
          Streamed,     \* those whose answer is streamed
          MaxSearches,  \* bound: searches of a request
          MaxPieces     \* bound: pieces of a streamed answer

ASSUME TraceAssumption ==
    /\ Streamed \subseteq Traced
    /\ MaxSearches \in Nat /\ MaxPieces \in Nat

VARIABLES stages,       \* _STATE: who recorded its preprocessing, the searches
          phase,        \* phase[r]: how far request r is
          searching,    \* searching[r]: threads of r that have yet to record
          started,      \* started[r]: searches r has begun
          extras,       \* extras[r]: the copy of the record for r's entry
          handed,       \* handed[r]: the pieces r's reader was handed
          chunks,       \* chunks[r]: those collected for the entry
          tasks,        \* entries whose task has not run yet, oldest first
          log,          \* response_trace.jsonl
          overlapped    \* requests that did not have the record for themselves

traceVars == <<stages, phase, searching, started, extras, handed, chunks, tasks,
               log, overlapped>>

Nobody == "nobody"
Pieces == {"role", "text", "notJson", "done"}
Phases == {"new", "preprocess", "search", "answer", "stream", "ended"}
Empty == [preprocessed |-> Nobody, searches |-> <<>>]

TraceInit ==
    /\ stages = Empty
    /\ phase = [r \in Traced |-> "new"]
    /\ searching = [r \in Traced |-> 0]
    /\ started = [r \in Traced |-> 0]
    /\ extras = [r \in Traced |-> Empty]
    /\ handed = [r \in Traced |-> <<>>]
    /\ chunks = [r \in Traced |-> <<>>]
    /\ tasks = <<>> /\ log = <<>>
    /\ overlapped = {}

Move(r, p) == phase' = [phase EXCEPT ![r] = p]

\* A request that may still write the record or has yet to copy it, left
\* threads included.
Active(r) == phase[r] \in {"preprocess", "search", "answer"} \/ searching[r] > 0

-------------------------------------------------------------------------------
FaultyCleared == [stages EXCEPT !.preprocessed = Nobody]
Cleared == Empty

\* reset, when unified_preprocess begins.
Reset(r) ==
    /\ phase[r] = "new"
    /\ Move(r, "preprocess")
    /\ stages' = Cleared
    /\ LET others == {q \in Traced \ {r} : Active(q)}
       IN  overlapped' = overlapped \cup others \cup (IF others = {} THEN {} ELSE {r})
    /\ UNCHANGED <<searching, started, extras, handed, chunks, tasks, log>>

\* record_preprocess; a preprocessing that falls back returns without it.
RecordPreprocess(r) ==
    /\ phase[r] = "preprocess"
    /\ Move(r, "search")
    /\ \E p \in {stages.preprocessed, r} : stages' = [stages EXCEPT !.preprocessed = p]
    /\ UNCHANGED <<searching, started, extras, handed, chunks, tasks, log, overlapped>>

StartSearch(r) ==
    /\ phase[r] = "search" /\ started[r] < MaxSearches
    /\ searching' = [searching EXCEPT ![r] = @ + 1]
    /\ started' = [started EXCEPT ![r] = @ + 1]
    /\ UNCHANGED <<stages, phase, extras, handed, chunks, tasks, log, overlapped>>

\* record_search_query, in a search thread, whatever became of its request.
RecordSearch(r) ==
    /\ searching[r] > 0
    /\ searching' = [searching EXCEPT ![r] = @ - 1]
    /\ stages' = [stages EXCEPT !.searches = Append(@, r)]
    /\ UNCHANGED <<phase, started, extras, handed, chunks, tasks, log, overlapped>>

\* The searches have ended, or their limit has passed.
SearchesOver(r) ==
    /\ phase[r] = "search"
    /\ Move(r, "answer")
    /\ UNCHANGED <<stages, searching, started, extras, handed, chunks, tasks, log, overlapped>>

-------------------------------------------------------------------------------
\* extract_text_from_sse_chunks: the contents of the pieces, and what is not JSON
\* as it is; neither the end mark nor a piece without content.
Readable(piece) == piece \in {"text", "notJson"}
TextOf(pieces) == SelectSeq(pieces, Readable)

\* build_trace_record, with what was collected so far.
Entry(r, pieces, copy) == [request |-> r, text |-> TextOf(pieces), stages |-> copy]

\* The answer's model fails: the request ends without an entry.
AnswerFails(r) ==
    /\ phase[r] = "answer"
    /\ Move(r, "ended")
    /\ UNCHANGED <<stages, searching, started, extras, handed, chunks, tasks, log, overlapped>>

\* snapshot, once the model has been called.  A whole answer gets its entry at
\* once, a stream when it ends.
Snapshot(r) ==
    /\ phase[r] = "answer"
    /\ extras' = [extras EXCEPT ![r] = stages]
    /\ IF r \in Streamed
         THEN Move(r, "stream") /\ UNCHANGED <<handed, tasks>>
         ELSE /\ Move(r, "ended")
              /\ handed' = [handed EXCEPT ![r] = <<"text">>]
              /\ tasks' = Append(tasks, Entry(r, handed'[r], stages))
    /\ UNCHANGED <<stages, searching, started, chunks, log, overlapped>>

\* A piece of wrap_stream_with_trace: collected, then handed on.
Piece(r, piece) ==
    /\ phase[r] = "stream" /\ Len(handed[r]) < MaxPieces
    /\ chunks' = [chunks EXCEPT ![r] = Append(@, piece)]
    /\ handed' = [handed EXCEPT ![r] = Append(@, piece)]
    /\ UNCHANGED <<stages, phase, searching, started, extras, tasks, log, overlapped>>

\* The stream ends or breaks, or its reader has left; a stream that nobody
\* began to read has no finally block to run.
StreamEnds(r) ==
    /\ phase[r] = "stream"
    /\ Move(r, "ended")
    /\ \/ tasks' = Append(tasks, Entry(r, chunks[r], extras[r]))
       \/ handed[r] = <<>> /\ UNCHANGED tasks
    /\ UNCHANGED <<stages, searching, started, extras, handed, chunks, log, overlapped>>

\* _persist_record; a file error is logged and the entry lost.
Persist ==
    /\ tasks # <<>>
    /\ tasks' = Tail(tasks)
    /\ log' \in {log, Append(log, Head(tasks))}
    /\ UNCHANGED <<stages, phase, searching, started, extras, handed, chunks, overlapped>>

-------------------------------------------------------------------------------
RequestNext(r) ==
    \/ Reset(r) \/ RecordPreprocess(r)
    \/ StartSearch(r) \/ RecordSearch(r) \/ SearchesOver(r)
    \/ AnswerFails(r) \/ Snapshot(r)
    \/ \E piece \in Pieces : Piece(r, piece)
    \/ StreamEnds(r)

TraceNext == (\E r \in Traced : RequestNext(r)) \/ Persist

TraceSpec == TraceInit /\ [][TraceNext]_traceVars

-------------------------------------------------------------------------------
\* The stages an entry names are its own request's ("attribution per request is
\* exact while requests come one after the other", stage_trace.py:20), provided
\* that the request shared the record with no other one, threads that an earlier
\* one left behind included.
OwnStages(entry) ==
    entry.request \notin overlapped =>
        /\ entry.stages.preprocessed \in {Nobody, entry.request}
        /\ \A i \in DOMAIN entry.stages.searches : entry.stages.searches[i] = entry.request

\* Its text is all its reader was handed, also of a reader that left.
OwnText(entry) == entry.text = TextOf(handed[entry.request])

\* What the log says of a request is true of it, and is said once.
TraceIsOwn ==
    /\ \A i \in DOMAIN log : OwnStages(log[i]) /\ OwnText(log[i])
    /\ \A i, j \in DOMAIN log : log[i].request = log[j].request => i = j
=============================================================================
