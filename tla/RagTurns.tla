------------------------------ MODULE RagTurns ------------------------------
(***************************************************************************)
(* The answering pipelines over their common executor, and what they owe   *)
(* the asker. chat/_helpers.py routes a turn to its pipeline by its intent.*)
(***************************************************************************)
EXTENDS FacilitySearch, ServiceSearch, GuideDirect

vars == <<rvars, chips>>

Init == RInit /\ chips = [t \in Turns |-> NoChips]

\* A job's thread starts, and its search comes back.
Start     == StartJob /\ UNCHANGED chips
Return(j) == Query(j) \/ ((FinishJob(j) \/ RetryGsnd(j) \/ MissGsnd(j)) /\ UNCHANGED chips)

TurnNext(t) ==
    \/ GuideNext(t)
    \/ (Talk(t) \/ FacilityNext(t) \/ ServiceNext(t) \/ Write(t)) /\ UNCHANGED chips

TimeUp(t) == Expire(t) /\ UNCHANGED chips

Next == Start \/ (\E j \in Jobs : Return(j)) \/ \E t \in Turns : TurnNext(t) \/ TimeUp(t)

\* The event loop runs what is ready and its timers fire.
Loop == \A t \in Turns : WF_vars(TurnNext(t)) /\ WF_vars(TimeUp(t))
Spec == Init /\ [][Next]_vars /\ Loop

\* Threads start what waits, and a search or query comes back: the clients of
\* the engine and of the database have timeouts of their own.
Searches == WF_vars(Start) /\ \A j \in Jobs : WF_vars(Return(j))

TypeOK ==
    /\ ask \in [Turns -> Questions]
    /\ queue \in Seq(Jobs)
    /\ job \in [Jobs -> {"new", "queued", "running", "retrying", "done",
                        "timedout", "raised", "cancelled"}]
    /\ found \in [Jobs -> SUBSET Docs]
    /\ intime \subseteq Jobs /\ taken \subseteq Jobs /\ late \subseteq Turns
    /\ pc \in [Turns -> {"begin", "gather", "again", "last", "center", "tel",
                         "names", "view", "recount", "write", "end"}]
    /\ at \in [Turns -> 1 .. Queries + 1]
    /\ misses \in [Turns -> Nat]
    /\ top \in [Turns -> SUBSET Docs]
    /\ reply \in [Turns -> {"none", "answer", "apology", "failed"}]
    /\ chips \in [Turns -> [Labels -> Nat]]

-----------------------------------------------------------------------------
\* No answer about services is written from a document of a service the asker
\* ruled out, or from the business of another region, whichever of its searches
\* brought the document: the first ones, the fallback, the last one
\* (llm_excluded_services and sigun_filters in every wrapper), or the views
\* (must_not in both).
RuledOutUnseen ==
    \A t \in Turns : Asking(t) \/ Recommending(t) =>
        \A d \in top[t] :
           /\ d.home # "gsnd" => d.service \notin ask[t].ruledOut
           /\ d.home = "okms" /\ Asking(t) /\ ask[t].region => ~ d.elsewhere

\* "No answer could be found" is only said after every way to find one: no
\* document came from any search the turn waited for, and OKMS was searched
\* three times, twice without the anchor.
ApologyLast ==
    \A t \in Turns : reply[t] = "apology" =>
        /\ Got(taken \cap Mine(t)) = {}
        /\ \A leg \in {"okms", "gov", "again", "last"} : Part(t, leg) \subseteq taken

\* A turn never has two facility searches in the engine at once, nor two of
\* GSND, not even when it gives one up that goes on in its thread: run side
\* by side they drive the engine into its timeout.
OneAtATime ==
    \A t \in Turns : \A leg \in {"center", "gsnd"} : \A j, k \in Part(t, leg) :
        Active(j) /\ Active(k) => j = k

\* When searches do come back, every turn ends, whatever other turns left
\* running in the threads.
TurnsEnd == Searches => \A t \in Turns : pc[t] # "begin" ~> pc[t] = "end"

\* The chip that was picked: of the turn it was taken from.
PickedFrom(t) == ask[ask[t].from]

\* The cards a chip conceals: a row of theirs names the field, and their label,
\* which MAX took from another row with other fields, does not.
Concealed(rows, l) ==
    {card \in Cards(rows) :
        /\ l \notin Labelled(rows, card)
        /\ \E d, e \in rows : /\ CardOf(d) = card /\ CardOf(e) = card
                             /\ l \in d.fields[1] \cup d.fields[2]
                             /\ e.fields # d.fields}

\* A broad question that rules nothing out and was not broadened: each of its
\* chips opens the cards it counted, beyond those only services whose rows name
\* different fields, and the chips stay as they were (unless the recount failed).
ChipHolds ==
    \A t \in Turns :
        LET q == PickedFrom(t)
            l == ask[t].topic
            p == ask[t].from
        IN  /\ ask[t].intent = "picked chip" /\ reply[t] = "answer"
            /\ q.topic = NoTopic /\ q.ruledOut = {} /\ ~ Broadened(q) /\ l # Other
            => /\ Cardinality(Cards(top[t])) =
                     chips[p][l] + Cardinality(Concealed(top[p], l))
               /\ job[RecountJob(t)] = "done" => chips[t] = chips[p]

-----------------------------------------------------------------------------
\* "The partial results collected by then are returned": an office search
\* that ended before the limit is part of the answer.
PartialKept ==
    \A t \in Turns : Facility(t) /\ pc[t] \in {"write", "end"} =>
        intime \cap Part(t, "tel") \subseteq taken

\* "topic_chips: cards of the field (by the same criterion as the drill-down)":
\* whatever was asked, a chip opens as many cards as it counted.
ChipShowsItsCount ==
    \A t \in Turns : ask[t].intent = "picked chip" /\ reply[t] = "answer" =>
        Cardinality(Cards(top[t])) = chips[ask[t].from][ask[t].topic]
=============================================================================
