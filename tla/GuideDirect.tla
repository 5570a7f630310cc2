----------------------------- MODULE GuideDirect -----------------------------
(***************************************************************************)
(* Recommendations from the database, the way they are made by default     *)
(* (GUIDE_DB_DIRECT_ENABLED): _recommend_via_db of                         *)
(* pipeline_guide_recommend.py over search_recommend of                    *)
(* chat/infra/db/welfare_recommend.py. Many results are shown as a list of *)
(* fields with their counts, the chips; the client sends the chip that is  *)
(* picked back with the slots it was given, and gets that field's cards    *)
(* (the drill-down of chat/router.py).                                     *)
(*                                                                         *)
(* Rows are those of the asker's region and household in the latest year;  *)
(* both views filter them alike in question and drill-down. A service may  *)
(* have several, of the city, the province or every city: a query filters  *)
(* rows, and then makes one card of those of a name.                       *)
(***************************************************************************)
EXTENDS Retrieval

CONSTANTS
    Many,   \* GUIDE_MAX_RESULTS: more cards than this are shown by field
    Place   \* the place of a column's value in the descending order of texts

ASSUME GuideAssumption == Many \in Nat /\ Place \in [SUBSET Labels -> Nat]

Recommending(t) == ask[t].intent \in {"recommend", "picked chip"}

\* The conditions of a WHERE clause. A field is a LIKE on both columns of a row
\* (ITRST_TPC1, ITRST_TPC2; of the government, one that names any number of
\* them), which a row without any does not meet.
Rows(view, q, life) ==
    {d \in Docs : /\ d.home = view
                  /\ d.service \notin q.ruledOut
                  /\ life => d.life
                  /\ q.topic # NoTopic => \E c \in 1 .. 2 : q.topic \in d.fields[c]}

FaultyBroadened(q) == q.life /\ Rows("local", q, TRUE) = {}

\* A broad question that finds nothing local for the stage of life is asked
\* again without it, in the local view alone.
Broadened(q) == q.life /\ q.topic = NoTopic /\ Rows("local", q, TRUE) = {}

Recommended(q) ==
    Rows("local", q, q.life /\ ~ Broadened(q)) \cup Rows("central", q, q.life)

\* GROUP BY: the rows of one view with one name are one card.
CardOf(d) == <<d.home, d.service>>
Cards(rows) == {CardOf(d) : d \in rows}

\* The first column's IFNULL.
Value(d, c) == IF c = 1 /\ d.fields[c] = {} THEN {Other} ELSE d.fields[c]

\* A card is labelled by what MAX finds in each column among its rows.
MaxValue(rows, card, c) ==
    LET values == {Value(d, c) : d \in {e \in rows : CardOf(e) = card}}
    IN  CHOOSE v \in values : \A w \in values : Place[v] <= Place[w]
Labelled(rows, card) == MaxValue(rows, card, 1) \cup MaxValue(rows, card, 2)

\* topic_chips: cards per field.
Chips(rows) == [l \in Labels |-> Cardinality({k \in Cards(rows) : l \in Labelled(rows, k)})]
NoChips == [l \in Labels |-> 0]

VARIABLE chips   \* turn -> field -> count shown; 0 is no chip

\* A database query in a thread: its rows, or an error.
Query(j) ==
    /\ j \in Running
    /\ \/ LegOf(j) = "view"    /\ End(j, "done", Recommended(ask[Of(j)]))
       \/ LegOf(j) = "recount" /\ End(j, "done", Recommended([ask[Of(j)] EXCEPT !.topic = NoTopic]))
       \/ LegOf(j) \in {"view", "recount"} /\ End(j, "raised", {})
    /\ UNCHANGED chips

ViewJob(t) == <<t, "view", 1>>
RecountJob(t) == <<t, "recount", 1>>

\* The chip picked is one of an earlier turn that has ended; the client sends
\* back the slots of that turn (region, stage of life, household).
PickChip(t) ==
    /\ ask[t].intent = "pick" /\ pc[t] = "begin"
    /\ \E p \in Turns, l \in Labels :
          /\ reply[p] = "answer" /\ chips[p][l] > 0
          /\ ask' = [ask EXCEPT ![t] =
                [ask[p] EXCEPT !.intent = "picked chip", !.topic = l,
                               !.ruledOut = {}, !.from = p]]
    /\ UNCHANGED <<pc, top, reply, chips>> /\ UNCHANGED pool /\ UNCHANGED stage

RecommendBegin(t) ==
    /\ Recommending(t) /\ pc[t] = "begin"
    /\ Submit(<< ViewJob(t) >>)
    /\ pc' = [pc EXCEPT ![t] = "view"]
    /\ UNCHANGED <<ask, top, reply, chips>> /\ UNCHANGED stage

Reply(t, r) == reply' = [reply EXCEPT ![t] = r]

\* Cards of a chip, and the chips of the whole question are counted anew; the
\* list of fields, which no model writes; or few enough for the model.
RecommendFound(t) ==
    LET rows == found[ViewJob(t)]
        cards == Cards(rows) IN
    /\ pc[t] = "view" /\ job[ViewJob(t)] = "done"
    /\ taken' = taken \cup {ViewJob(t)}
    /\ top' = [top EXCEPT ![t] = rows]
    /\ \/ /\ ask[t].intent = "picked chip"
          /\ pc' = [pc EXCEPT ![t] = "recount"]
          /\ chips' = [chips EXCEPT ![t] = Chips(rows)]
          /\ Submit(<< RecountJob(t) >>)
          /\ UNCHANGED reply
       \/ /\ ask[t].intent = "recommend" /\ Cardinality(cards) > Many
          /\ pc' = [pc EXCEPT ![t] = "end"]
          /\ chips' = [chips EXCEPT ![t] = Chips(rows)]
          /\ Reply(t, "answer")
          /\ UNCHANGED pool
       \/ /\ ask[t].intent = "recommend" /\ Cardinality(cards) <= Many
          /\ pc' = [pc EXCEPT ![t] = "write"]
          /\ UNCHANGED <<chips, reply>> /\ UNCHANGED pool
    /\ UNCHANGED <<ask, at, late, misses>>

\* The query raised, and so does the pipeline.
RecommendFailed(t) ==
    /\ pc[t] = "view" /\ job[ViewJob(t)] = "raised"
    /\ pc' = [pc EXCEPT ![t] = "end"]
    /\ Reply(t, "failed")
    /\ UNCHANGED <<ask, top, chips>> /\ UNCHANGED pool /\ UNCHANGED stage

\* A recount that failed leaves the chips of the picked field.
Recounted(t) ==
    /\ pc[t] = "recount" /\ Ended(RecountJob(t))
    /\ taken' = taken \cup {RecountJob(t)}
    /\ chips' = IF job[RecountJob(t)] = "done"
                THEN [chips EXCEPT ![t] = Chips(found[RecountJob(t)])]
                ELSE chips
    /\ pc' = [pc EXCEPT ![t] = "end"]
    /\ Reply(t, "answer")
    /\ UNCHANGED <<ask, at, late, misses, top>> /\ UNCHANGED pool

GuideNext(t) ==
    \/ PickChip(t) \/ RecommendBegin(t) \/ RecommendFound(t)
    \/ RecommendFailed(t) \/ Recounted(t)
=============================================================================
