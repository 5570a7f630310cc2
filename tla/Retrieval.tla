------------------------------ MODULE Retrieval ------------------------------
(***************************************************************************)
(* What the answering pipelines (chat/infra/rag/pipeline_*.py) share: one  *)
(* executor whose threads run the blocking searches of every turn, the     *)
(* documents a search may return, and how a pipeline hands over its reply. *)
(* A pipeline submits searches as jobs, waits for some of them and goes on *)
(* without others; a job it gave up keeps its thread until it returns.     *)
(*                                                                         *)
(* A list of documents without duplicates is a set: the order only matters *)
(* where a list is cut, and that cut is TopBy.                             *)
(***************************************************************************)
EXTENDS Integers, Sequences, FiniteSets

CONSTANTS
    Turns,     \* turns being answered by this process
    Pairs,     \* pairs of a question and its keywords a turn searches OKMS by
    Queries,   \* strings the sequential searches of a turn go through
    Threads,   \* threads of the default executor
    Docs,      \* the documents of all collections and the rows of both views
    Services,  \* the services they describe
    Topics,    \* the fields a service belongs to (housing, jobs, ...)
    Other,     \* the field of a service that has none
    NoTopic,       \* no field asked for
    Asks       \* the questions that may be put, turn by turn

\* Mariner's collections, and the two database views of services: of the
\* region and of the government.
Homes == {"okms", "gov", "gsnd", "center", "tel", "local", "central"}

Labels == Topics \cup {Other}

\* What preprocessing found out about a question.
Questions ==
    [intent : {"talk", "search", "general", "comparison", "guide", "picked",
               "recommend", "pick", "picked chip"},
     target : {"none", "facility", "office", "both"},
     ruledOut : SUBSET Services,   \* services the asker does not want
     region : BOOLEAN, thisYear : BOOLEAN, life : BOOLEAN, disabled : BOOLEAN,
     referred : SUBSET Services,   \* of the previous answer
     topic : Labels \cup {NoTopic},
     from : Turns]                 \* the turn whose chip is picked

ASSUME RetrievalAssumption ==
    /\ Pairs \in Nat \ {0} /\ Queries \in Nat \ {0}
    /\ Threads \in Nat \ {0}
    /\ IsFiniteSet(Docs)
    /\ \A d \in Docs : /\ d.home \in Homes
                       /\ d.service \in Services
                       /\ d.weight \in Nat        \* relevance
                       /\ d.past \in BOOLEAN      \* of an earlier year
                       /\ d.named \in BOOLEAN     \* its name has a word asked for
                       /\ d.elsewhere \in BOOLEAN \* of another region
                       /\ d.life \in BOOLEAN      \* for the asker's stage of life
                       /\ d.disabled \in BOOLEAN  \* for disabled people only
                       /\ d.fields \in [1 .. 2 -> SUBSET Labels]
                                                  \* what its two columns name
    /\ NoTopic \notin Labels
    /\ Asks \subseteq [Turns -> Questions]

\* A chip is picked by PickChip alone.
ASSUME AskedAssumption == \A a \in Asks : \A t \in Turns : a[t].intent # "picked chip"

Legs == {"okms", "gov", "gsnd", "again", "last", "center", "tel", "names",
         "view", "recount"}
Sequential == {"gsnd", "center", "tel"}
Strings(leg) == 1 .. (IF leg \in Sequential THEN Queries ELSE Pairs)
Jobs == UNION {Turns \X {leg} \X Strings(leg) : leg \in Legs}

Of(j)    == j[1]
LegOf(j) == j[2]

\* The searches of a turn in one leg: as a set, and in order.
Part(t, leg) == {t} \X {leg} \X Strings(leg)
Line(t, leg) == [i \in Strings(leg) |-> <<t, leg, i>>]
Mine(t)      == {j \in Jobs : Of(j) = t}

VARIABLES
    ask,      \* turn -> the question: what preprocessing found out
    queue,    \* jobs waiting for a thread, first come first served
    job,      \* job -> "new", "queued", "running", "retrying", "done",
              \*        "timedout", "raised" or "cancelled"
    found,    \* job -> the documents it returned
    intime,   \* jobs that ended before the limit of their turn's stage
    pc,       \* turn -> where its pipeline is
    at,       \* turn -> the search string its sequential part has reached
    late,     \* turns whose search stage has used up its time
    taken,    \* jobs whose result their pipeline has received
    misses,   \* turn -> GSND searches that timed out twice
    top,      \* turn -> the documents the answer is written from
    reply     \* turn -> "none", "answer", "apology" or "failed"

pool  == <<queue, job, found, intime>>
stage == <<at, late, taken, misses>>
rvars == <<ask, queue, job, found, intime, pc, at, late, taken, misses, top, reply>>

RInit ==
    /\ ask \in Asks
    /\ queue = << >>
    /\ job = [j \in Jobs |-> "new"]
    /\ found = [j \in Jobs |-> {}]
    /\ intime = {}
    /\ pc = [t \in Turns |-> "begin"]
    /\ at = [t \in Turns |-> 1]
    /\ late = {}
    /\ taken = {}
    /\ misses = [t \in Turns |-> 0]
    /\ top = [t \in Turns |-> {}]
    /\ reply = [t \in Turns |-> "none"]

-----------------------------------------------------------------------------
(* What a search may return. Conditions of Mariner's WHERE clause that are *)
(* hard (AND, NOT, a year filter) bound the result; the stage of life and  *)
(* the household only add weight (OP_WEIGHTAND).                           *)

\* The services the asker ruled out are a NOT on the name in both welfare
\* collections.
Allowed(t) == {d \in Docs : d.service \notin ask[t].ruledOut}

\* Facilities are filtered by region once more when the rows are read; without a
\* region every document is near.
Near(t) == {d \in Docs : ask[t].region => ~ d.elsewhere}

\* OKMS: the years of the question, else every year; guide_recommend always
\* asks for the current one. Only in the first search of a general question
\* must a word of the question be in the name (the business anchor).
\* The region is a condition of all of them.
FaultyFromOkms(t, first) ==
    {d \in IF first THEN Allowed(t) \cap Near(t) ELSE Allowed(t) :
        /\ d.home = "okms"
        /\ ask[t].thisYear => ~ d.past
        /\ first /\ ask[t].intent = "general" => d.named}

FromOkms(t, first) ==
    {d \in Allowed(t) \cap Near(t) :
                        /\ d.home = "okms"
                        /\ ask[t].thisYear => ~ d.past
                        /\ first /\ ask[t].intent = "general" => d.named}

\* GOV_OKMS: no year and no region is indexed.
FromGov(t) == {d \in Allowed(t) : d.home = "gov"}

\* GSND: the current year unless others are named; the second attempt after
\* a timeout drops the years. Neither services nor regions are ruled out here.
FromGsnd(retried) == {d \in Docs : d.home = "gsnd" /\ (retried \/ ~ d.past)}

\* Facilities; local offices, which need a region.
FromCenter(t) == {d \in Near(t) : d.home = "center"}
FromTel(t) == {d \in Near(t) : d.home = "tel" /\ ask[t].region}

\* By the names of the documents the previous answer referred to, of this year
\* (or of those the question names).
FromNames(t) ==
    {d \in Docs : d.home = "gov" /\ d.service \in ask[t].referred /\ ~ d.past}

Answers(j, retried) ==
    LET t == Of(j) IN
    {d \in Docs :
        \/ LegOf(j) = "okms" /\ d \in FromOkms(t, TRUE)
        \/ LegOf(j) \in {"again", "last"} /\ d \in FromOkms(t, FALSE)
        \/ LegOf(j) = "gov" /\ d \in FromGov(t)
        \/ LegOf(j) = "gsnd" /\ d \in FromGsnd(retried)
        \/ LegOf(j) = "center" /\ d \in FromCenter(t)
        \/ LegOf(j) = "tel" /\ d \in FromTel(t)
        \/ LegOf(j) = "names" /\ d \in FromNames(t)}

-----------------------------------------------------------------------------
(* The executor: run_in_executor(None, ...) and to_thread.                 *)

Active(j) == job[j] \in {"queued", "running", "retrying"}
Running  == {j \in Jobs : job[j] \in {"running", "retrying"}}
Ended(j) == job[j] \in {"done", "timedout", "raised"}
AllEnded(js) == \A j \in js : Ended(j)

\* Hand over new jobs, in the order given.
Submit(js) ==
    /\ queue' = queue \o js
    /\ job' = [j \in Jobs |-> IF \E i \in DOMAIN js : js[i] = j
                              THEN "queued" ELSE job[j]]
    /\ UNCHANGED <<found, intime>>

FaultyGiveUp(js) ==
    /\ job' = [j \in Jobs |-> IF job[j] = "queued" THEN "cancelled" ELSE job[j]]
    /\ UNCHANGED <<queue, found, intime>>

\* Give jobs up: one that has not started never will, one that runs goes on.
GiveUp(js) ==
    /\ job' = [j \in Jobs |-> IF j \in js /\ job[j] = "queued" THEN "cancelled"
                              ELSE job[j]]
    /\ UNCHANGED <<queue, found, intime>>

Pipelines == <<ask, pc, at, late, taken, misses, top, reply>>

\* A free thread takes the next job, and drops it when it was given up.
StartJob ==
    /\ queue # << >>
    /\ Cardinality(Running) < Threads
    /\ queue' = Tail(queue)
    /\ job' = [j \in Jobs |-> IF j = Head(queue) /\ job[j] = "queued" THEN "running"
                              ELSE job[j]]
    /\ UNCHANGED <<found, intime>> /\ UNCHANGED Pipelines

End(j, how, docs) ==
    /\ job' = [job EXCEPT ![j] = how]
    /\ found' = [found EXCEPT ![j] = docs]
    /\ intime' = IF Of(j) \in late THEN intime ELSE intime \cup {j}
    /\ UNCHANGED queue /\ UNCHANGED Pipelines

\* A search of Mariner returns what it found; one that fails is caught by the
\* wrapper of the pipeline and returns nothing.
FinishJob(j) ==
    /\ j \in Running /\ LegOf(j) \notin {"view", "recount"}
    /\ \E docs \in SUBSET Answers(j, job[j] = "retrying") : End(j, "done", docs)

\* A GSND search that times out is repeated once, by keyword only and for
\* every year; the second timeout is reported.
RetryGsnd(j) ==
    /\ LegOf(j) = "gsnd" /\ job[j] = "running"
    /\ job' = [job EXCEPT ![j] = "retrying"]
    /\ UNCHANGED <<queue, found, intime>> /\ UNCHANGED Pipelines

MissGsnd(j) ==
    /\ LegOf(j) = "gsnd" /\ job[j] = "retrying"
    /\ End(j, "timedout", {})

-----------------------------------------------------------------------------
\* The n weightiest documents of a collected list.
TopBy(docs, n) ==
    {d \in docs : Cardinality({e \in docs : e.weight > d.weight}) < n}

Got(js) == UNION {found[j] : j \in js}

\* The 15 seconds of the turn's search stage are over.
Expire(t) ==
    /\ pc[t] \in {"gather", "center", "tel"} /\ t \notin late
    /\ ask[t].intent \in {"general", "search"}
    /\ late' = late \cup {t}
    /\ UNCHANGED <<ask, pc, at, taken, misses, top, reply>> /\ UNCHANGED pool

\* Small talk is answered without any search.
Talk(t) ==
    /\ ask[t].intent = "talk" /\ pc[t] = "begin"
    /\ pc' = [pc EXCEPT ![t] = "write"]
    /\ UNCHANGED <<ask, top, reply>> /\ UNCHANGED pool /\ UNCHANGED stage

\* Writing the answer from the documents chosen; the model's service may
\* fail, and the pipeline raises the error again.
Write(t) ==
    /\ pc[t] = "write"
    /\ pc' = [pc EXCEPT ![t] = "end"]
    /\ \E r \in {"answer", "failed"} : reply' = [reply EXCEPT ![t] = r]
    /\ UNCHANGED <<ask, top>> /\ UNCHANGED pool /\ UNCHANGED stage
=============================================================================
