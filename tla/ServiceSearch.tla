---------------------------- MODULE ServiceSearch ----------------------------
(***************************************************************************)
(* Questions about welfare services over Mariner: pipeline_general.py,     *)
(* pipeline_comparison.py, the search branch of pipeline_guide_recommend.py*)
(* and pipeline_recommended_question.py. All OKMS and GOV searches of a    *)
(* turn run at once and are awaited together; a general question also runs *)
(* the GSND searches, one after the other and within a limit. When that    *)
(* finds too little, OKMS is searched again without the anchor.            *)
(***************************************************************************)
EXTENDS Retrieval

CONSTANTS
    OkmsTop,   \* OKMS and GOV documents kept after a gather
    GsndTop,   \* GSND documents added to them
    GuideFew,  \* fewer OKMS documents than this make the guide search again
    GuideTop   \* documents the guide shows the model

ASSUME CutAssumption ==
    OkmsTop \in Nat \ {0} /\ GsndTop \in Nat \ {0}
    /\ GuideFew \in Nat /\ GuideTop \in Nat \ {0}

Asking(t)  == ask[t].intent \in {"general", "comparison", "guide"}
General(t) == ask[t].intent = "general"
Guide(t)   == ask[t].intent = "guide"

Welfare(t) == Part(t, "okms") \cup Part(t, "gov")

\* The GSND chain is over, or was never part of the question.
ChainOver(t) == ~ General(t) \/ at[t] > Queries

ServiceBegin(t) ==
    /\ Asking(t) /\ pc[t] = "begin"
    /\ Submit(Line(t, "okms") \o Line(t, "gov")
              \o (IF General(t) THEN << <<t, "gsnd", 1>> >> ELSE << >>))
    /\ pc' = [pc EXCEPT ![t] = "gather"]
    /\ UNCHANGED <<ask, top, reply>> /\ UNCHANGED stage

\* A GSND search returned: the next one, unless the time is up or a second
\* one timed out.
GsndAnswer(t) ==
    LET j      == <<t, "gsnd", at[t]>>
        missed == misses[t] + (IF job[j] = "timedout" THEN 1 ELSE 0)
        goOn   == t \notin late /\ missed < 2 /\ at[t] < Queries
    IN
    /\ General(t) /\ pc[t] = "gather" /\ at[t] <= Queries /\ Ended(j)
    /\ taken' = taken \cup {j}
    /\ misses' = [misses EXCEPT ![t] = missed]
    /\ at' = [at EXCEPT ![t] = IF goOn THEN @ + 1 ELSE Queries + 1]
    /\ IF goOn THEN Submit(<< <<t, "gsnd", at[t] + 1>> >>) ELSE UNCHANGED pool
    /\ UNCHANGED <<ask, pc, late, top, reply>>

FaultyGsndAbandon(t) ==
    /\ General(t) /\ pc[t] = "gather" /\ at[t] <= Queries
    /\ t \in late /\ ~ Ended(<<t, "gsnd", at[t]>>)
    /\ IF at[t] < Queries THEN Submit(<< <<t, "gsnd", at[t] + 1>> >>)
       ELSE UNCHANGED pool
    /\ at' = [at EXCEPT ![t] = @ + 1]
    /\ UNCHANGED <<ask, pc, late, taken, misses, top, reply>>

\* wait_for gives a GSND search up at the limit; its thread goes on.
GsndAbandon(t) ==
    LET j == <<t, "gsnd", at[t]>> IN
    /\ General(t) /\ pc[t] = "gather" /\ at[t] <= Queries
    /\ t \in late /\ ~ Ended(j)
    /\ GiveUp({j})
    /\ at' = [at EXCEPT ![t] = Queries + 1]
    /\ UNCHANGED <<ask, pc, late, taken, misses, top, reply>>

-----------------------------------------------------------------------------
(* Choosing the documents: each operator is a function of the jobs the     *)
(* pipeline has received.                                                  *)

\* The guide ranks OKMS alone; the others rank both collections together.
Okms(t, js) ==
    TopBy(Got(IF Guide(t) THEN js \cap Part(t, "okms") ELSE js \cap Welfare(t)),
          OkmsTop)

FaultyFew(t, docs) == Guide(t) /\ Cardinality(docs) < GuideFew

\* Too little: another search without the anchor.
Few(t, docs) == IF Guide(t) THEN Cardinality(docs) < GuideFew ELSE docs = {}

\* With the documents of the second search.
OkmsAgain(t, js) ==
    LET docs == Okms(t, js) \cup Got(js \cap Part(t, "again"))
    IN  IF Guide(t) THEN docs ELSE TopBy(docs, OkmsTop)

\* GOV documents of another stage of life than the asker's are dropped, by
\* the guide alone, when it knows the stage.
GovOfGuide(t, js) ==
    {d \in Got(js \cap Part(t, "gov")) : ask[t].life => d.life}

\* Services for disabled people only, to a user who never mentioned it.
Suits(t, d) == ask[t].disabled \/ ~ d.disabled

\* The guide's list is cut by the cross encoder's rank, of which nothing is
\* known, and then rid of what does not suit the asker.
GuideChosen(t, all) ==
    {{d \in cut : Suits(t, d)} :
        cut \in {s \in SUBSET all : \/ s = all /\ Cardinality(s) <= GuideTop
                                   \/ Cardinality(s) = GuideTop}}

\* What the answer may be written from.
Chosen(t, js, okms) ==
    IF Guide(t) THEN GuideChosen(t, okms \cup GovOfGuide(t, js))
    ELSE {okms \cup (IF General(t) THEN TopBy(Got(js \cap Part(t, "gsnd")), GsndTop)
                     ELSE {})}

\* Go on with what was chosen: a general question without any document is
\* searched a last time, the others are answered.
Choose(t, js, okms) ==
    \E docs \in Chosen(t, js, okms) :
       /\ top' = [top EXCEPT ![t] = docs]
       /\ IF General(t) /\ docs = {}
          THEN Submit(Line(t, "last")) /\ pc' = [pc EXCEPT ![t] = "last"]
          ELSE UNCHANGED pool /\ pc' = [pc EXCEPT ![t] = "write"]

Gathered(t) ==
    LET js == taken \cup Welfare(t) IN
    /\ Asking(t) /\ pc[t] = "gather" /\ AllEnded(Welfare(t)) /\ ChainOver(t)
    /\ taken' = js
    /\ IF Few(t, Okms(t, js))
       THEN /\ Submit(Line(t, "again"))
            /\ pc' = [pc EXCEPT ![t] = "again"]
            /\ UNCHANGED top
       ELSE Choose(t, js, Okms(t, js))
    /\ UNCHANGED <<ask, at, late, misses, reply>>

GatheredAgain(t) ==
    LET js == taken \cup Part(t, "again") IN
    /\ pc[t] = "again" /\ AllEnded(Part(t, "again"))
    /\ taken' = js
    /\ Choose(t, js, OkmsAgain(t, js))
    /\ UNCHANGED <<ask, at, late, misses, reply>>

\* The last search of a general question: still nothing, and the reply is a
\* fixed apology that no model writes.
GatheredLast(t) ==
    LET js   == taken \cup Part(t, "last")
        docs == TopBy(Got(Part(t, "last")), OkmsTop)
    IN
    /\ pc[t] = "last" /\ AllEnded(Part(t, "last"))
    /\ taken' = js
    /\ top' = [top EXCEPT ![t] = docs]
    /\ IF docs = {} THEN /\ pc' = [pc EXCEPT ![t] = "end"]
                         /\ reply' = [reply EXCEPT ![t] = "apology"]
                    ELSE /\ pc' = [pc EXCEPT ![t] = "write"]
                         /\ UNCHANGED reply
    /\ UNCHANGED <<ask, at, late, misses>> /\ UNCHANGED pool

-----------------------------------------------------------------------------
(* A recommended question that was picked: one thread searches the names   *)
(* of the documents the last answer referred to, one after the other.      *)

Picked(t) == ask[t].intent = "picked"
NamesJob(t) == <<t, "names", 1>>

\* The reference entries themselves, when nothing was found by name.
ReferredDocs(t) == {d \in Docs : d.home = "gov" /\ d.service \in ask[t].referred}

PickedBegin(t) ==
    /\ Picked(t) /\ pc[t] = "begin"
    /\ IF ask[t].referred = {}
       THEN pc' = [pc EXCEPT ![t] = "write"] /\ UNCHANGED pool
       ELSE pc' = [pc EXCEPT ![t] = "names"] /\ Submit(<< NamesJob(t) >>)
    /\ UNCHANGED <<ask, top, reply>> /\ UNCHANGED stage

PickedFound(t) ==
    /\ pc[t] = "names" /\ Ended(NamesJob(t))
    /\ taken' = taken \cup {NamesJob(t)}
    /\ top' = [top EXCEPT ![t] = IF found[NamesJob(t)] = {} THEN ReferredDocs(t)
                                 ELSE found[NamesJob(t)]]
    /\ pc' = [pc EXCEPT ![t] = "write"]
    /\ UNCHANGED <<ask, at, late, misses, reply>> /\ UNCHANGED pool

ServiceNext(t) ==
    \/ ServiceBegin(t) \/ GsndAnswer(t) \/ GsndAbandon(t)
    \/ Gathered(t) \/ GatheredAgain(t) \/ GatheredLast(t)
    \/ PickedBegin(t) \/ PickedFound(t)
=============================================================================
