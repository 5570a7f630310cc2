# Formal model of the Gyeongnam welfare chatbot server

This directory holds TLA+ modules that model the server in `src/src/app`
(FastAPI, MySQL/MariaDB, language models behind HTTP, the search engine
Mariner), the TLC configurations that check them on small instances, and TLAPS
proofs of the properties that matter most. Paths below are relative to
`src/src/app` unless they start with `src/`.

## 1. Inventory of the system

One process runs one asyncio event loop. Handlers are coroutines; blocking work
(history merge, history save, searches) runs in thread pools; one daemon thread
refreshes the policy rules. Several processes may share the database. Database
statements are autocommit unless a row says otherwise.

| Part | State it keeps | Operations | Hard behaviour | What makes it correct |
|---|---|---|---|---|
| Concurrent-user limit `chat/user_session.py` | table `user_sessions`, one row per user | check (clean up, look up, count, insert/refresh) | check-then-insert in separate statements, expiry between statements, database errors fail open | active users never exceed the limit by more than the races allow; slots come back |
| Conversation locks `chat/_conversation_ctx.py` | two dictionaries conv_id -> lock | get a lock, evict the older half when over `CONV_LOCKS_MAX` | eviction of a held lock; the threaded look-up is not atomic | one holder per conversation unless its lock was evicted; nobody waits for ever |
| Conversation history `conversation/*`, `dependencies.py` | tables of histories, conversations, feedback | merge at the start of a turn, overwrite at its end, append, feedback, delete | read at the start, overwrite at the end; errors swallowed; delete of several tables | nothing stored is lost, whole turns stay whole, nothing comes back after a delete |
| Streaming turn `chat/_streaming.py`, `chat/_helpers.py` | messages of the request, saved flag, background saves | answer paths, save before `[DONE]`, save in `finally` | client disconnect at any await or yield, shielded saves that go on in a thread | what the user saw as finished is stored, and stored once |
| Status drain `chat/_stream_utils.py` | status queue, watcher task, sentinel | producer puts, watcher ends, consumer yields | task end racing with the last messages, early close, error of the task | every status is shown once, in order, and the drain ends |
| Dialogue decisions `chat/router.py`, `_helpers.py`, `_pipeline_steps.py`, `sigun.py`, `topic_clarify.py` | the message list only; attempts are recounted from it | pre-check, region question, topic question, out-of-scope, rewriting, answer, chip | counters derived from a history that some exits do not save | a user is asked a bounded number of times; what was said is used |
| Preprocessing and retrieval `chat/preprocessing.py`, `chat/lifecycle.py`, `chat/infra/rag/*`, `chat/infra/db/*`, `mariner/*` | one thread pool of searches | read two models' replies, searches in parallel and in chains, fallbacks, chips and drill-down | time-outs with threads that go on, partial results, conditions that each fallback must carry on | nothing ruled out is shown, limits hold, every turn ends |
| Policy rules cache `chat/infra/rag/policy_priority.py` | cached maps, version, load and check times; one refresh thread | read through the cache, version check, TTL reload | update between load and version read, failed load cached as empty | an unchanged version means unchanged keywords; reloads never go back; the cache follows the table |
| HTTP clients and model calls `chat/infra/llm/*`, `chat/infra/deepserver/*` | one lazily created client per service, in a module variable and in the application's state | call, stream, classify, suggest, post; reset with one retry | a reset closes the client that other calls use | a call fails only for a reason, and ends |
| Response trace `rag/stage_trace.py`, `rag/trace_sink.py` | one record of stages per process, JSONL and xlsx files | record, snapshot, append | overlapping requests and searches that outlast theirs share the record | an entry is its own request's |
| Document service `document/*` | uploaded files, texts, remote copies, metadata rows, history | upload, extract and summarise, ask | failure after any step; names made of seconds | a recorded text can be read; answers come from the conversation's own documents |
| Parsing and publishing `parsing/_db_inserter.py`, `parsing/router.py` | staging and live tables (transactional) | insert parsed rows, correct, delete, publish | publishing deletes and copies by organisation while rows change | an organisation is live as it was staged at one moment; file ids survive |
| HWPX parser `parsing/_hwpx_parser_lib.py` | services read so far, those that wait for an annex | read a table, fill in an annex, split periods | errors in one section, services without an end | services become rows as the file has them |
| Admin records `office`, `welfare_tel`, `gsnd_office`, `wlf_srvc` | rows of one table each | pages of a listing, create, change, delete | pages cut while rows change | a walk through the pages misses no row that stayed, but for what left |
| Speech output `tts/*` | none beyond a request | rewrite, cut, synthesise in parallel, pass on in order | one segment failing; a client that leaves | every segment once, in order; no request left running |
| Speech input `chat/infra/stt/client.py`, `tts/router.py` | websocket, receive task, forwarding tasks | connect, send, end, close | close racing with results | what was received before the end is shown; the tasks end |
| Start-up and shutdown `core/lifespan.py` | pool, clients, worker thread | init in order, close in reverse | a loop that empties the connection pool; clients replaced by calls; a refresh under way; a database that goes | shutdown ends and releases what was made |
| Result selection, text normalisation, prompts, simple endpoints | none | pure functions, single statements | none | - (not modelled) |

How they interact: the router merges stored history into the request under the
conversation's asyncio lock (`_merge_and_init_conversation`), asks the user
limit, then runs the dialogue decisions. Preprocessing turns the question into
what a pipeline is told; the pipeline's searches run in one pool that all turns
share. The streaming flow drains the status queue while the retrieval task
runs, streams the answer and saves the messages of the request over the stored
ones under the conversation's thread lock. Feedback, document questions,
summaries and deletes write the same history rows without either lock.
Retrieval reads the policy cache, which the refresh thread renews, and the live
services, which publishing writes. All calls of language models, those of
speech output too, share one HTTP client.

## 2. How the project grew

In this order, each with its runs and, where named, its proofs:

1. `SessionLimit`, `AsyncConvLock` and `ThreadConvLock` over `LockRegistry`.
2. `StatusDrain`, refining `StatusOrder`.
3. `ChatHistory`, `StreamSave` and their composition with the drain,
   `StreamTurn`.
4. `PolicyCache`; `Dialogue`.
5. `Retrieval` with `FacilitySearch`, `ServiceSearch` and `GuideDirect`,
   composed in `RagTurns`, and `Preprocess`, which makes the questions that
   `RagTurns` is started with.
6. `Documents` around `ChatHistory`, `Publishing`, `WelfareParser`.
7. `LlmCalls`, `SpokenText`, `Speech`, `Lifespan`.
8. `ResponseTrace`, `AdminRecords`.

Safety of all of these but `Preprocess` is proved (section 5): every safety
and action property that a passing run checks is stated by a theorem, those of
`documents` also of the composition. What is left is named in section 8. The nearest compositions would be publishing with
the searches that read the live services, and two conversations of one user; the
nearest theorem, what `Preprocess` makes of a reply before `RagTurns` uses it.

## 3. The modules and the code

In every module a step runs from one point where another actor can interfere
to the next: between two autocommit statements of different processes or
threads, between two awaits that can suspend on the event loop, between two
calls of the interpreter in a pool thread. Operators named `Faulty...` are
plausible bugs; no specification uses them. They stand next to the definition
whose place they would take.

**SessionLimit** (`chat/user_session.py`, called by the chat router through
`chat/_conversation_ctx.py`). `rows` and `age` are the table, `pc[w]` the statement that
worker process `w` executes next. `Connect`, `Cleanup`, `Select`, `Refresh`,
`Count` and `Insert` are the statements of `check_user_limit`; `CleanupFails`,
`DbError` and `InsertDuplicate` its error paths, of which the last two let the
request through. Time is relative: the age of a row and the time a check has
held its `expiry_threshold` (`lag`).

**LockRegistry** holds what both lock dictionaries of
`chat/_conversation_ctx.py` share: keys in insertion order, the size test, the
older half that an eviction removes. **AsyncConvLock** is the asyncio registry
around the merge: look-up, eviction, registration and the attempt to take the
lock are one step, because nothing between them suspends; `queue` is the FIFO of
`asyncio.Lock`; `dropped` records which tasks had their lock evicted while they
held it or waited for it, which the code does not know. **ThreadConvLock** is
the threading registry around the save. There every dictionary access is a step
of its own (`Begin`, `Snapshot`, `Pop`, `Store`), and a blocked lock goes to any
waiter. `MCConvLocks` runs both, each in behaviours of its own: they share
nothing, and a request has released the one before it asks for the other.

**StatusDrain** (`drain_status_until_done`, `chat/_stream_utils.py`): the task
that emits, the watcher with its shield and its sentinel, the generator and a
reader that may go away at `get()` or at a `yield`. **StatusOrder** is what the
readers rely on: what is shown is a prefix of what was emitted, and the drain
completes only when all of it was shown and the task is over. `StatusDrain`
implements it with `phase <- Phase`, `KeepsOrder` being its specification.

**StreamSave** is one turn of `_streaming_chat_flow`: every way to answer
(`path`), every await and yield of it (`pc`), the pool thread that saves
(`thread`, `job`), the request's messages (`mem`) and the stored ones (`row`).
`Close` is a generator closed at a yield, whose `finally` runs; `Cancel` a
response task cancelled at an await, whose `finally` does not get past its first
await. An answer is a number of pieces. **StreamTurn** puts the drain into the
place where the flow waits for its search, and adds the other streaming
generator, `rag_stream` of `chat/_helpers.py` (`kind = "guide"`), which has no
`finally` block and saves without shield. A reader may leave inside the drain
too; the retrieval task then goes on alone.

**ChatHistory** composes the writers of one conversation's row. A turn is
`Start`, `Read` and `List` (under the asyncio lock: no other turn is between the
two), `Answer` or `Refuse`, `SaveTurn` and `RelistTurn` (under the thread lock).
That the two locks exclude is what the lock modules show; the
guards `pc[o] # "list"` and `pc[o] # "relist"` stand for them. Document
questions, feedback and delete run on the event loop (`loop`) and interleave
with the pool threads only. `Merge` is `_do_merge` with its overlap removal over
role and content, `StoreAnswer` the replacement of a closing assistant message
in `_save_chat_history`. A message is its owner, its role, which of five texts
it has and its reaction.

**PolicyCache** (`chat/infra/rag/policy_priority.py`) is one of the two caches
with the refresh thread. `rules` and `updated` are the table, `cache`, `version`
and `ready` the module globals, `Call`, `Enter`, `Check`, `Load`, `Store` and
`Stamp` the steps of `_get_tag_keywords_map`, the last four under the cache lock.
`unseen` records that, since the last good load, something happened that the
version `MAX(updated_at)` of the active rows need not show.

**Dialogue** (`chat/router.py`, `chat/_streaming.py`, `chat/_pipeline_steps.py`,
`chat/sigun.py`, `chat/topic_clarify.py`, `chat/_helpers.py`) is a sequence of
turns of one conversation, each a chain of decisions (`pc`): user limit,
pre-check (`PreCheck`, with `Judgments` what the model's reply is taken for),
early region check, topic question, rewriting, region outside of the
province, region check, search, which may fail (`SearchFails`) or be answered
(`Answered`). The recommendation endpoints (`guide`, `follow`) go from the limit
to their own region check; a picked chip (`chip`) goes from the limit straight
to its answer and stores its label in the place of a question. How a question
is rewritten and what an answer says is left open, because a language model
does it. The server has no dialogue state, so the stored messages are kept as
what its functions tell apart (`row`: how many, region and topic questions among
them, the regions that user messages named, the last user text and the last
answer). Each exit stores its turn, or not, as the code does: `EndStored`,
`EndUnstored`, `EndWith`. `asked`, `seen`, `told` and `streak` are history
variables for the properties; no guard reads them.

**Preprocess** (`chat/preprocessing.py`, `chat/lifecycle.py`): how the replies of
the two models that are asked at once, or the rules that stand in for the
second, become the question of a pipeline: its intent, target, the services
ruled out, the stage of life, the years, the fields. A reply may hold words that
are on no list, miss keys, or never come.

**Retrieval** has what all pipelines share: one executor with its queue
(`queue`, `job`), documents as what filters tell apart (where they come from,
whose service, which stage of life, field, region, year), and how a pipeline
gives up a search that goes on in its thread. **FacilitySearch**
(`pipeline_search.py`, `pipeline_utils.py`) searches offices at once and
facilities in a chain, under one limit. **ServiceSearch** (`pipeline_general.py`,
`pipeline_comparison.py`, `pipeline_recommended_question.py`, the search branch
of `pipeline_guide_recommend.py`) runs OKMS and GOV at once and GSND in a chain,
falls back on a search without anchor, then on a last one. **GuideDirect**
(`welfare_recommend.py` and its callers) recommends from the database: two views,
the fallback without a stage of life, the rows of a name grouped into a card that
MAX labels, chips with their counts, and the drill-down of a picked chip with the
slots it was sent. **RagTurns** lets turns
of all kinds run over the one executor and states the properties.

**Documents** (`document/*`) is an upload, its extraction with the summary, and
questions, around the history of `ChatHistory`: files by second and name
(`disk`, `stamp`), texts here and on the other host (`local`, `remote`),
recorded documents (`docs`). Each step of the handler ends at an await; each of
them may fail.

**Publishing** (`parsing/_db_inserter.py`, `parsing/router.py`): the staging
table (`temp`), the one that searches use (`live`), and requests of several
processes as transactions, statement by statement, with the row locks that these
statements take.

**WelfareParser** (`parsing/_hwpx_parser_lib.py`): tables are read one by one
(`read`), become `services`, wait for an annex (`pending`) or break the section
(`broken`); the dates of a text (`dates`) become periods. Both are what
`Publishing` calls the rows of a file. **Stepwise** is how this module and
`SpokenText` write the loops of the code: a recursive function of the number of
elements the loop has passed, whose values at each number an induction can speak
of.

**LlmCalls** (`chat/infra/llm/*`, `chat/infra/deepserver/client.py`,
`dependencies.py`): every way to call a model through the shared client, which a
call whose connection broke closes and replaces while others use it. The
application's state keeps the client of startup for the suggestions.

**SpokenText** (`tts/infra/pipeline.py`, `parser.py`, `segmenter.py`) cuts a text
into segments. **Speech** (`tts/*`, `chat/infra/stt/client.py`) speaks them: the
rewriting by a call of `LlmCalls`, all segments requested at once, passed on in
order by the streaming endpoint or joined by the other. Its second half is a
session of speech input: the endpoint's reading, the receive task, the tasks
that forward transcripts, and both ends going away.

**Lifespan** (`core/lifespan.py`, and the thread of `rag/policy_priority.py`)
extends `LlmCalls` with the life of the server process around its calls: the
pool is made if the database is configured and answers, the refresh thread is
started or switched off, calls run and replace clients, and once they are over
the shutdown closes the clients of the application's state, empties the pool and
stops the thread, while the database comes and goes.

**ResponseTrace** (`rag/stage_trace.py`, `rag/trace_sink.py`) is the one record
of stages that all requests write, from coroutines and from search threads, and
the log it is copied to. **AdminRecords** is the four hand-kept tables: a reader
who walks the pages of a listing while administrators change rows.

`MCDocuments`, `MCSharedState`, `MCSpeech` and `MCConvLocks` instantiate several
modules that share nothing, or only the calls of `LlmCalls`. A behaviour uses one of them (`kind`, `shared`,
`used`), chosen in the initial state: letting them interleave would multiply
states and show nothing more. The `..._proofs` modules extend the modules of
one area (`ConvLocks_proofs` and `Documents_proofs` the compositions `MCConvLocks`
and `MCDocuments`) with the inductive invariants and theorems.

## 4. The runs

| Run | What it asks | Bounds, and why they are enough |
|---|---|---|
| `session` | how far active users can exceed the limit when two processes race; holders are served, slots come back | 2 workers, 3 users, limit 1: one slot, two that race for it and one that holds or lost it. Timeout 2 and delay 1 let rows of different ages expire between any two statements |
| `conv_locks` | exclusion of merges and of saves, a turn for every waiting merge, with evictions | 3 conversations with `LocksMax` 1, so that every third registration evicts; 3 merging requests, one holds, two wait; 2 saving threads, which can be past the size test with the same snapshot. One lock object more than can be in use |
| `stream_turn` | statuses in order; what the reader saw finished is stored, once; leaving ends the turn and its watcher | 2 statuses, at most 2 emissions; 3 pieces (first, middle, last); 1 failing overwrite of at most 2 saves |
| `documents` | `sequential`: nothing lost, reactions kept, no orphan, no revival. `turns`: whole turns under every overlap. `documents`: recorded texts exist, answers from own documents. `publishing`: live rows were staged at one moment, file ids survive. `parsing`: rows as written | 2 turns: the smallest number that overlap. 1 question and 2 uploads, one from elsewhere, in 2 seconds, so that names coincide or not; `DocLimit` 1, so that the older document is left out; 1 failure of any kind. 2 organisations and years, 2 processes, 2 uploads and 2 publications: one published before and after the next upload. 4 tables, so that two services wait with something between them, in 2 sections; 3 dates, of which at most 2 are kept (24 in the code) |
| `history_overwritten` | violated: a turn's save keeps what another turn stored meanwhile | 2 turns, no failure |
| `publish_year` | violated: publishing a year leaves the other years alone | the constants of `documents`, `publishing` only |
| `shared_state` | what an unchanged version says, no reload goes back, the cache follows the table; trace entries are their own; pages cover | 2 keywords, so that one can be switched off while the other keeps the version; 3 changes, 1 search and the refresh thread, 1 failing call. 2 traced requests, one streamed in 2 pieces, 1 search each, which may outlast its request. Pages of 1 of 2 rows, 2 administrators with 2 edits: one departure costs one row |
| `dialogue` | region questions are bounded, topic questions come in order, a region once typed is searched and not forgotten, nobody who says everything is asked for ever | 2 regions (a place in either, a conversation that names both), texts that users type and models write (nothing, a topic, a region kept, changed, dropped or elsewhere), 1 region question and 2 rounds of topic questions before the limit, 1 lost save; the number of turns is not bounded |
| `retrieval` | nothing ruled out is shown, the apology comes last, slow searches do not pile up, chips open what they count and what their labels conceal, every turn ends | 2 turns over 2 threads: every kind of question beside one that talks, asks for offices or picks a chip. 1 pair of facility searches and 2 search strings, so that a chain has a next element; 13 documents and rows, one or more from every source and each difference that a filter sees, and a service of two rows with different fields; lists cut at 2 and 1, so that the guide finds enough or searches again |
| `retrieval_chips` | violated: a chip opens as many cards as it shows, whatever was asked | as `retrieval` |
| `speech` | calls fail for a reason and end; every segment once and in order; what was received before the end is shown; nothing is left running; a process that served calls shuts down and releases what it made, unless its database keeps answering | 2 calls of one client, so that each can close it under the other; 2 breaking connections, as many as a call survives and one more. Texts of up to 3 words, pieces of 2 (298 characters in the code). 3 transcripts, so that two wait to be forwarded. The life of a process is run with two calls of DeepServer, each of which may replace the client |
| `suggest_refused` | violated: suggestions are served while the server runs | as `speech`, 1 breaking connection |

In `documents`, the `sequential` behaviours leave out two things that would
only repeat section 7: overwrites that fail, which are only logged, and clients
that send everything they show after a delete that failed half-way or an answer
that was an apology.

Some runs set `CHECK_DEADLOCK FALSE` because the system stops there: a turn with
its searches (`retrieval`, `stream_turn`), calls and sessions of a bounded
number (`speech`, `documents`, `history_overwritten`), and in `shared_state` the
trace of two requests and a walk through pages. `session`, `conv_locks` and
`dialogue` go on for ever and are checked for deadlock. Symmetry is used
only in `documents` and `publish_year` (organisations, years, processes), whose
properties treat these alike; `UuidKept` and `OnlyThatYear` speak of all of them
at once, so permuting them in a step permutes the step of the property.

### Fairness

- `SessionLimit`: a check that was started runs to its end, and time passes. No
  request has to come and no database call has to succeed; `SlotReclaimed`
  names in its premise who keeps asking.
- `AsyncConvLock`: the loop runs a woken task, and a merge in a pool thread
  returns. Its FIFO makes weak fairness per task enough.
- `StreamTurn`: pool threads run, the loop resumes what is ready, a reader reads
  on or leaves. Nothing is assumed of the search or the language model: their
  ends are premises of what is claimed, or not needed.
- `PolicyCache`: time passes, the refresh thread wakes up and database calls
  return or fail. `threading.Lock` may be given to searches again and again, but
  not for ever past the waiting refresh thread (strong fairness of `Enter`).
- `RagTurns`: the loop runs what is ready and its timers fire. That threads
  start and searches come back is the premise of `TurnsEnd` (`Searches`), not
  part of the specification: `MARINER_TIMEOUT` (60000 ms, `core/config.py:180`)
  and the database client's limits justify it.
- `LlmCalls`: an awaited request ends, because every client has a limit
  (`LLM_API_TIMEOUT` 120 s, `core/config.py:89`; `DEEPSERVER_TIMEOUT` 30 s, `:154`).
- `Lifespan`: the event loop goes on with the shutdown, and the refresh thread's
  waits and database calls are limited. The database may stay away or come back:
  `ShutdownReleases` excepts the one behaviour in which it answers the shutdown
  again and again.
- `Speech`: requests to the speech server have limits (15, 20 and 60 s),
  connecting to and closing the recognition server have theirs
  (`core/config.py:98-99`). No client has to speak or to stay.
- `ThreadConvLock`, `Dialogue`, `Documents`, `Publishing`, `WelfareParser`, `ResponseTrace` and
  `AdminRecords` claim safety only: their operations end when a user or a
  service makes them end.

## 5. What is proved

Every theorem holds for every value of the constants that its assumptions
allow, with no bound on how many actors there are or how often they fail.

| Module | Theorem | Inductive invariant and why it is needed |
|---|---|---|
| `SessionLimit_proofs` | active users exceed the limit by at most workers - 1, for any numbers; with one worker not at all | `CommittedBound` over `Committed`: a user whose insert is decided but not executed already takes a slot, otherwise the count of one worker and the insert of another are unrelated |
| | `SessionHoldersServed`: no count turns away a holder of a slot, unless another worker wrote the row after the look-up | `SeenInv`: an active row of a user whose check is at its count is no older than the check's threshold, because the look-up did not find it |
| `ConvLocks_proofs` | the registry never exceeds `LocksMax + 1`; merges of one conversation exclude each other unless a lock was evicted | `RegistryInv` (type and bound), and `ExclusionInv`: a task not in `dropped` uses the registered lock of its conversation (`Current`), and a lock has one holder (`OneHolder`) |
| | `SettledSavesExclude`: while nothing is evicted, saves of a conversation that once was quiet with its lock registered exclude each other; both hold of a process that has both registries (`BothRegistries`) | `SavesInv`, with `OneLock(c)`, which no step ends while the dictionary is small: the lock of `c` is registered and all saves of `c` use it |
| `StreamTurn_proofs` | the drain implements `StatusOrder`; nothing is left behind the sentinel | `DrainInv`: while the generator is open, shown messages followed by the queue without its sentinel are the emitted ones (`Backlog`) |
| | of the chat's flow: stored once; stored before `[DONE]`; stored as collected; shown up to one piece; never shortened | `FlowInv`: where the flow can be with which content (`Progress`), at most one save at a time (`OneSaver`), what the two message lists hold (`ListedLast`, `StoredAnswer`), and what a finished save has done (`Landed`) |
| | of the whole turn, both generators and a search that outlives it: stored once, stored before `[DONE]`, what was shown is stored; it implements the drain (`TurnDrainsInOrder`), and a chat turn the flow (`ChatTurnIsFlow`) | `TurnInv`: `DrainInv`, with `FlowInv` for the chat and `GuideInv` for the guide, which says where that generator can be, that one thread saves, and what it did. Each step of the turn is a step of the drain or none (`TurnDrains`), and one of the flow or none (`ChatFlows`) |
| `Documents_proofs`, histories | calls that do not overlap lose no stored message (`SequentialLosesNothing`) | `SoloInv`, from `Overlap = {}` and `MaxReadErrors = 0`: at most one call is under way (`Alone`), and its list contains the row (`Covered`) |
| | `TurnsStayWhole`: under every overlap and failure the history is whole turns, each once, for clients that send their new question (`Fronts = {"new"}`) | `TurnsInv`: the row, and what every call read, is whole turns of calls that have saved (`Base`), and what a call is about to save is such a list with its own turn behind it (`Prepared`) |
| | `SummariesStayWhole`: the same beside any number of uploads, whose summaries are read and stored without the lock of the turns | `SummariesInv`: `TurnsInv` of a history to which finished uploads have added their pairs too (`Summed`), and an upload about to store its pair holds it behind such a list (`SummaryHeld`), and stays so while others save |
| | `DeletedStays`, `HistoryIsListed`, `LikesStay`: the three parts of `KeptAlone`, for calls that follow one another; `LikesStay` of clients that send their new question, or everything they display if no answer is an apology | `DeletedInv`: between its statements a delete leaves no message, after it nothing runs. `ListedInv`: a turn lists before it answers. `LikesInv`: the reactions of the row are those acknowledged (`Marked`), and what a call holds is the row with its own messages or its own reaction (`Carries`). `ShownInv`: what is displayed is the row's text, so that the merge of everything displayed adds the new question only |
| `Documents_proofs`, services | `NeverHalfPublished`: live rows are what was staged at one moment; `LinksSurvive`: file ids stay | `TablesInv`: what the staging table holds of an organisation was staged at one moment (`TempStaged`), what a request carries is of the organisations it selected (`Waiting`), and both tables, with the rows an upload is about to write, agree on one id (`OneUuid`): the next upload takes it from either |
| `Documents_proofs`, documents | `RecordedIsThere`, `OwnDocuments` | `TextsInv`: between write, transfer and record the text is where the step says. `SecondsInv`: a file, a text and the context of a question come from uploads of one second and name |
| `Documents_proofs`, rows of a file | `RowsStayAsWritten`: each table that describes a service is one service, in order, with the contact of its own rows and the annex it is owed; the periods of a text are one at least, distinct, and none ends before it starts; for files, tables and texts of every length | `ParserInv`: a service says what its table says (`SaysIts`), those that wait are the ones of this section without a list behind them, and no table is passed over. What each loop makes of the first elements is shown of its recursive function: what a table says up to a row (`SaysUpTo`), that dates that were read are dates (`ReadDatesIs`), and that the next period ends after its start (`NextPeriodIs`) |
| `Documents_proofs`, composed | `TurnsAsComposed`, `AloneKeeps`, `AloneLosesNothing`, `DocumentsAsComposed`, `PublishingAsComposed`: every property of the run `documents` holds of `MCSpec` | the invariants above, each for the kinds of behaviour whose steps it is about. `AloneInv`: `ListedInv`, `LikesInv` and `ShownInv` together, which survive deletes that fail between their statements; `SequentialIsNext` says which failures and which clients those behaviours have |
| `SharedState_proofs` | the same version means the same keywords unless `unseen`; reloads go forward | `CacheInv`: one holder of the lock (`OneHolder`), the stored version never ahead of the table's (`Bounds`), what is in hand is not older than the cache (`InHand`), and `Seen`, the claim for every step of a reload |
| | `LogIsTrue`: an entry of the trace is its own request's, whole, and the only one | `TraceInv`: a request that shares the record is in `overlapped` (`Noticed`); the record of one that does not holds its own stages (`RecordOwn`); entries being written and written ones are of different requests, once each (`Entered`) |
| | `WalkMissesFew`: a walk through the pages misses at most one row for each that left | `PagesInv`, with `Missed`: what the reader has not seen down to any row is bounded by what left, or by what left and the part of the listing the walk has not come to (a statement about ranks, for every page size) |
| `Dialogue_proofs` | region questions of the streaming chat are at most `MaxAsks` plus the lost saves; topic questions come in order; the regions of an answer are those searched; a region once told is never asked for | `DialogueInv`: every question counted is a stored one or a lost save (`AskedIsStored`), the rounds put are those the row holds or the next (`SeenIsStored`), what was told is named in the row (`ToldIsNamed`), and between early check and search the regions stay those typed (`Decided`) |
| | `StreaksEnd`: who names region and topic is asked back at most twice in a row | `StreakInv`: how long a streak can be in each state of the conversation that the last answer leaves (`Clarifying`, `Settled`) |
| `RagTurns_proofs` | no answer is written from a service ruled out or from another region's business; a turn's facility searches, and its GSND searches, are in the engine one at a time; a chip opens the cards it counted and those whose rows name other fields too | `Placed` (types, and which pipeline a turn can be in); `CleanInv`: every search that carries the conditions returned, and every list was chosen from, documents that satisfy them; `ChainInv`: of a chain, the searches before the one reached are over and those after it untouched; `ChipInv`: the chips that are shown count the cards recommended (`Counted`), queries and drill-downs return the rows of their question (`Viewed`, `Opened`), and a chip is picked from a turn that was answered (`Linked`). The label of a card is the value of one of its rows (`MaxIsOfRow`), so what is counted is opened, and what else is opened has rows of different fields (`CountedOrConcealed`) |
| | `ApologizesLast`: an apology means that every search of the turn was made, awaited, and brought nothing | `SearchInv`: at each step of a turn, all searches before it were received, and those of a step that fell back brought nothing |
| `Speech_proofs`, calls | a call fails only for a reason, also in a process that starts and stops, and when calls speak; a stopped process leaves at most the client made last | `CallsInv`: a client closed under a call was closed by another that said so (`CutIsHit`), who may not reset has done so (`OneReset`), a replaced client is closed. `LifeInv`: no call is on its way when the shutdown closes clients |
| `Speech_proofs`, speech | `TranscriptsAreShown`: what was heard before the end reaches the client in order; `StreamsInOrder`: segments are passed on in the order of the text, all of them before the end; `EverySegmentIsSpoken`: from both endpoints every sound once and in order, and the segments are all words of the text, for texts and pieces of every length | `HeardInv`: what was shown, followed by what the forwarding tasks hold, is what was heard (`Lined`), until the client is gone. `StreamedInv`: what a stream said is a first part of its results (`Streamed`). `SpokenInv`: what was joined is the sounds that were made, in order, and the segments of a text are its cut, of which each piece starts where the one before ended and is grouped without loss |

The type invariants of all these components are proved with them. Each theorem
assumes only the named `ASSUME`s of its modules, which TLC evaluates on the
runs: that bounds are natural numbers, that sets of actors are finite and
disjoint, that a sentinel is not a message, that a page has a row, that no turn
starts as a picked chip before chips were shown. Where a theorem needs more, its
statement says so; the hypotheses are those under which the runs check the same
(section 7 tells what happens without them): `Overlap = {}` and working reads
for what overlapping calls destroy, `Fronts = {"new"}` for what clients do that
send everything they show. Those of the composition (`MCSpec`) assume nothing
more: which failures and clients a behaviour has is said by its kind there, and
the bound on failures of the kind `documents` is any number.

Loops of the code are recursive functions here, and what they compute for every
input is shown by induction over the number of elements they have passed:
`WFMin`, which takes no operator, gives the least number at which a claim fails
(`Upwards`). Sums, folds and filters of the community modules would be opaque.

The runs leave to the proofs the type invariants and `CommittedBound`,
`RegistryBound`, `NothingLeft` and `CollectedIsStored`, from which or beside
which the checked invariants follow, and `ClientsReleased` of a stopped process,
the safety part of `ShutdownReleases`.

Only model-checked:

- every liveness property (`SlotReclaimed`, `EveryMergeRuns`, `PreSaveLands`,
  `LeavingEnds`, `CacheCatchesUp`, `TurnsEnd`, `CallsEnd`, `ShutdownReleases`):
  they need fairness and ENABLED, which the prover does not handle;
- `Preprocess`, whose effect the properties of `RagTurns` check.

## 6. Where the code and its documentation disagree

1. `history_overwritten`: the per-conversation lock is documented to prevent the
   race of simultaneous requests of one conversation, but it covers the merge
   only. Two turns merge the same history one after the other, and the turn
   that saves last overwrites the row without the other's question and answer.
2. `publish_year`: with a year, only that year is to be published, but the year
   only selects organisations; all their live rows are deleted and all their
   staged rows copied. An organisation whose staged rows are of the new year
   loses its live rows of the earlier one.
3. `retrieval_chips`: chips are said to count cards by the criterion of the
   drill-down. The drill-down's slots do not carry the services that were ruled
   out, the field first asked for, nor that the stage of life was dropped for
   want of local results, and cards without a field are found by no drill-down.
   Nor do the criteria agree for a service whose rows (of the city and of the
   province) name different fields: the drill-down filters rows, while the count
   takes one label per column by `MAX` over the grouped rows, so the other field's
   chip opens a card it did not count. `ChipHolds` says what does hold: the chip
   of a broad question opens what it counted and these cards, no others.
4. `suggest_refused`: the clients are said to be made once at startup and to be
   made anew after they broke. The reset replaces the one of the module; the
   application's state keeps the closed one, and suggestions are refused until
   the server is restarted.

Others were met on the way and are not runs of their own:

- `chat/infra/rag/pipeline_utils.py:611` promises the results received until the
  limit of the office searches; when the facility chain used it up, results of
  office searches that had ended are dropped as well (`PartialKept` of
  `RagTurns` states the promise and fails).
- `document/_upload.py:23` means to avoid that files of one name meet
  ("파일명 충돌 방지"), but two in one second overwrite each other.
- `chat/preprocessing.py:249` says that rules stand in when the classifier of
  tags failed; on the default path from the database no stage of life is then
  applied.
- The docstring of the year filter (`shared/utils/year_filter.py:49`) says that a question without a year gives an
  empty list; it gives the current year. A birth year ("1990년생") becomes a
  filter too.
- A comment of the speech output speaks of a limit of 15 seconds where the
  argument is 60 (`tts/infra/tts_helpers.py:188`); one of its sentence splitter says that numbers are protected,
  but a point at the end of a 298-character slice ends a sentence, so that a
  number may be cut there (`tts/infra/pipeline.py:172`).
- A log line of the general pipeline calls a search without a year filter
  "기본값: 올해", this year by default; the query then covers all years
  (`mariner/queryset_okms.py:474-477`).

## 7. Limits of the code met while modelling

These follow from the models but contradict no document.

Histories and turns:

- A turn in flight when its conversation is deleted stores it again when it
  ends; hence `StaysDeleted` is checked without overlaps. In the same way
  feedback given while a turn is in flight is overwritten (`LikeKept`).
- `get_history` returns an empty list after a database error, the merge takes
  it for an empty conversation, and the save replaces the stored history by the
  current turn. What is left are whole turns (`WholeTurns`).
- The summary of an upload is read, extended and stored without the lock of the
  turns: it may put back what was there before a turn, never a torn one
  (`SummariesStayWhole`).
- A client that sends everything it shows stores a question twice after a
  refused or failed turn, because the merge compares contents from the end of
  the stored history; after a delete that failed half-way it brings messages
  back.
- A failed overwrite is reported as success (`upsert_history` swallows the
  error), so the save before `[DONE]` is a guarantee only without write errors.
- If `ensure_conversation_exists` fails after a document question, the history
  is stored and the conversation not listed; `KeptAlone` is about calls whose
  writes, those of deletes apart, succeed.
- The first saves of a conversation can hold different thread locks, because
  the look-up in the registry is not atomic; and an eviction takes a lock away
  from those that use it.
- Answers of the paths that save only in `finally` (no search needed, region
  question, out of scope) are stored after `[DONE]`: a reader that goes away in
  between through a cancelled task leaves them unstored. The generator of the
  recommendation endpoints stores nothing of an answer whose reader leaves.

Decisions:

- Without streaming and in the recommendation endpoint, a region question is
  not stored. For clients that send only their new question it is never counted,
  so the limit of three never arrives there, and the next message is not
  recognised as its answer. `AskedAtMost` is about the streaming chat, whose
  exits all store.
- A region question about an ambiguous place names the candidates, and the
  next turn reads a region from the last answer: a reply without a region
  silently takes the first candidate.
- A question back of the pre-check that does not end with a question mark is
  not recognised in the next turn, and nothing bounds how often it comes.
- After a vague first question the answer to the region question leads to a
  topic question even when that answer names a topic, because the question
  before is what is tested. With `StreakBound` that is one of at most two.
- Without streaming the rewritten question is stored in the place of the typed
  one when a search was made. A rewriting that drops a region loses it for
  later turns; `Remembered` therefore starts from turns of the streaming chat.

Retrieval:

- GSND searches of a general question carry neither the region
  (`pipeline_general.py:303` passes none) nor the services ruled out; nor does
  the recommended question. `RuledOutUnseen` says which searches do.
- The rules name a household "보훈대상자" where the classifier says "보훈".
- Switching off or deleting a policy rule that is not the latest one does not
  move `MAX(updated_at)` of the active rows: the comparison of versions does not
  see it, and the keyword goes on boosting results. So does a second change
  within the second of the stored version. `SeenIsCurrent` names both as its
  exceptions (`unseen`).

Calls of models, trace, start-up:

- A stream that breaks after pieces were sent is repeated from its beginning.
- A client that replaced another is never closed at shutdown, although
  `core/lifespan.py:5` promises the release of every resource. The loop that
  empties the connection pool (`core/lifespan.py:202`) puts each connection back
  into the pool it takes it from, and ends only when the database fails it: while
  the database answers, the process hangs in its shutdown, and the refresh thread
  behind it is not stopped. `ShutdownReleases` names both as its exceptions.
- An entry of the trace tells its own request's stages only if no other request
  ran and no search of an earlier one was still to record (`overlapped`).
- The lock of the trace's spreadsheet is never contended within a process and
  does not protect it from other processes.

Documents and services:

- The file name of an upload is made of its second: of two uploads of one name
  in one second the later replaces the earlier (`AnswersFromOwn` excepts it).
- `_ask` passes its arguments shifted by one, so that Mariner never finds an
  uploaded document; the texts from the files always answer.
- Extraction never lists the conversation, and replies success even if the
  metadata could not be stored: the document can then not be asked about.
- Uploading an organisation again keeps its old file id, so that rows link to
  the first file; if saving the file failed they link to none.
- An organisation whose staged rows were all deleted stays live; publishing
  while its staged rows are being deleted can leave it no live rows, which is
  what was staged at that moment.
- An exception while a file is parsed drops the section it is in and those after
  it; the services of earlier sections are inserted all the same, and only a
  printed line tells (`_hwpx_parser_lib.py:1444`).
- An annex that stands in the next section is not found; the reference to it is
  then removed, and the contact may be empty. Any table with a number of four
  digits, a year too, counts as an annex with phone numbers.
- A mended day may be one that its month does not have (30 February); ranges of
  years are not checked for their order.

Speech:

- A final transcript that arrives after the speaker's "EOS" is never forwarded,
  and a silent speaker is not told that the recognition server went away. Nor is
  one that the server sent before, but that is still on its way or in the
  websocket's queue when `close` cancels the receive task
  (`stt/client.py:149`): `HeardIsShown` is about what that task had received.

## 8. What is not modelled

What language models, the search engine and the speech services answer (their
answers are choices of the environment), prompts, formatting and logging.

Components without a module: settings, logging and wiring; result selection (`rag/rrf_reranker.py`,
`rag/variable_count.py`: pure functions on real-valued scores); the
normalisation of text for speech (pure string processing); the stateless
endpoints of search and RAG; endpoints that are one SQL statement; the
cross-encoder service; schemas, constants and helpers.

Within the modelled components:

- *Limit of users*: `update_user_activity`, `get_active_user_count` and
  `cleanup_user_session`, which nothing calls.
- *Histories*: the counters of the feedback table, titles and times of the
  listing, rows of an older user id, the table of anonymous rows (guests are stored
  in the main one under the conversation's id, and the other is read where that
  has none), and requests without a conversation id, which take no lock.
- *Policy rules*: a database call that takes longer than the check interval, and
  a cache that is loaded but not ready; what the keywords do to results.
- *Dialogue*: model-written answers that contain the wording of a topic question.
  The code recognises one by a phrase in any assistant message
  (`topic_clarify.py:50`) and would count such an answer as a round, which
  `RoundsInOrder` and `StreakBound` leave aside. The standardisation of dialect,
  suggested questions, clients that
  send all the messages they show and overlapping turns (for both see
  `ChatHistory`), the cache of rewritten texts, and the functions that nothing
  calls (`contextual_query_rewriter`, `ask_judgment`, `re_ask`,
  `rag_norag_judgment`).
- *Preprocessing and retrieval*: household tags, the boost and cleaning of
  keywords, the text of multi-turn prompts, several topics per question, the
  order of documents where nothing is cut; the branches for excluded documents
  and more results, which no caller reaches; the reserve, the recursion and the
  steps of the guide pipeline that settings switch off
  (`GUIDE_POST_RERANK_FILTER_ENABLED`, `GUIDE_TOPIC_GATE_ENABLED`);
  `query_okms_documents_by_display_name`, which nothing calls.
- *Model calls*: `_reset_ce_client`, which nothing calls.
- *Start-up and shutdown*: whether the JVM and the retriever could be made, on
  which nothing else of it depends.
- *Documents*: downloads and the plain extraction of text, which change nothing,
  the limit of characters of a question, `DocumentSummaryService`, which nothing
  uses.
- *Publishing and parser*: the columns of a row, the codes of regions, how the
  text of a cell is put together, phone formats, the command line of the parser;
  the changes of live rows through `wlf_srvc`, which `AdminRecords` has by
  itself.
- *Trace*: the spreadsheet, the rendering of expressions, lists of documents,
  whose callers a setting switches off (`GUIDE_DB_DIRECT_ENABLED`).
- *Admin records*: the values of columns, and the total that goes with a page.
- *Speech*: sounds and how they are joined, the rewriting of numbers as words,
  `_request_tts_with_chunk_fallback` and `send_text_to_tts_server`, which
  nothing calls.
