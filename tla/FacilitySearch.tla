--------------------------- MODULE FacilitySearch ---------------------------
(***************************************************************************)
(* Facility and office questions: process_rag_search (pipeline_search.py)  *)
(* over collect_welfare_center_tel_docs (pipeline_utils.py). The searches  *)
(* of the offices start at once; those of the facilities run one after the *)
(* other. One limit covers the whole stage, and the answer is written from *)
(* what was received by then.                                              *)
(***************************************************************************)
EXTENDS Retrieval

Facility(t) == ask[t].intent = "search"

\* The collections preprocessing chose: facilities, offices, or both when it
\* could not tell.
WantsCenter(t) == ask[t].target \in {"facility", "both"}
WantsTel(t)    == ask[t].target \in {"office", "both"}

\* The stage is left: searches still pending are given up, and whatever has
\* been received is ranked, none of it cut.
LeaveStage(t, received) ==
    /\ GiveUp(Mine(t))
    /\ taken' = received
    /\ top' = [top EXCEPT ![t] = Got(received \cap Mine(t))]
    /\ pc' = [pc EXCEPT ![t] = "write"]

\* Wait for the offices, unless there are none to wait for or the time is up.
AwaitTel(t, received) ==
    IF WantsTel(t) /\ t \notin late
    THEN /\ pc' = [pc EXCEPT ![t] = "tel"]
         /\ taken' = received
         /\ UNCHANGED top /\ UNCHANGED pool
    ELSE LeaveStage(t, received)

FacilityBegin(t) ==
    /\ Facility(t) /\ pc[t] = "begin"
    /\ Submit((IF WantsTel(t) THEN Line(t, "tel") ELSE << >>)
              \o (IF WantsCenter(t) THEN << <<t, "center", 1>> >> ELSE << >>))
    /\ pc' = [pc EXCEPT ![t] = IF WantsCenter(t) THEN "center" ELSE "tel"]
    /\ UNCHANGED <<ask, top, reply>> /\ UNCHANGED stage

\* A facility search returned: the next one, while there is time.
CenterAnswer(t) ==
    LET j == <<t, "center", at[t]>> IN
    /\ Facility(t) /\ pc[t] = "center" /\ Ended(j)
    /\ at' = [at EXCEPT ![t] = @ + 1]
    /\ IF t \notin late /\ at[t] < Queries
       THEN /\ Submit(<< <<t, "center", at[t] + 1>> >>)
            /\ taken' = taken \cup {j}
            /\ UNCHANGED <<pc, top>>
       ELSE AwaitTel(t, taken \cup {j})
    /\ UNCHANGED <<ask, late, misses, reply>>

\* wait_for gives a facility search up at the limit; its thread goes on.
CenterAbandon(t) ==
    /\ Facility(t) /\ pc[t] = "center" /\ t \in late
    /\ ~ Ended(<<t, "center", at[t]>>)
    /\ LeaveStage(t, taken)
    /\ UNCHANGED <<ask, at, late, misses, reply>>

\* asyncio.wait returns with the office searches done, or empty-handed at
\* the limit.
TelWake(t) ==
    LET ready == {j \in Part(t, "tel") : Ended(j)} IN
    /\ Facility(t) /\ pc[t] = "tel"
    /\ t \in late \/ ~ (ready \subseteq taken)
    /\ IF t \in late \/ ready = Part(t, "tel")
       THEN LeaveStage(t, taken \cup ready)
       ELSE /\ taken' = taken \cup ready
            /\ UNCHANGED <<pc, top>> /\ UNCHANGED pool
    /\ UNCHANGED <<ask, at, late, misses, reply>>

FacilityNext(t) ==
    FacilityBegin(t) \/ CenterAnswer(t) \/ CenterAbandon(t) \/ TelWake(t)
=============================================================================
