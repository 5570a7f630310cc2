--------------------------- MODULE RagTurns_proofs ---------------------------
(***************************************************************************)
(* What the answering pipelines owe the asker, for any number of turns,    *)
(* threads, search strings and documents.                                  *)
(***************************************************************************)
EXTENDS RagTurns, FiniteSetTheorems, SequenceTheorems, WellFoundedInduction, TLAPS

\* A service document that suits the question.
Clean(t) ==
    {d \in Docs : /\ d.home # "gsnd" => d.service \notin ask[t].ruledOut
                  /\ d.home = "okms" /\ Asking(t) /\ ask[t].region => ~ d.elsewhere}

\* Where a turn can be, by its intent.
Routes ==
    \A t \in Turns :
        /\ pc[t] = "begin" => at[t] = 1
        /\ pc[t] \in {"center", "tel"} => Facility(t)
        /\ pc[t] = "center" => at[t] <= Queries
        /\ pc[t] = "names" => Picked(t)
        /\ pc[t] \in {"gather", "again", "last"} => Asking(t)
        /\ pc[t] = "view" => Recommending(t)
        /\ pc[t] = "recount" => ask[t].intent = "picked chip"
        /\ reply[t] # "none" => pc[t] = "end"

\* Searches about services bring clean documents.
Filtered == {"okms", "gov", "again", "last", "gsnd", "view", "recount"}
FoundClean ==
    \A t \in Turns : \A leg \in Filtered : \A j \in Part(t, leg) : found[j] \subseteq Clean(t)
TopClean ==
    \A t \in Turns : Asking(t) \/ Recommending(t) => top[t] \subseteq Clean(t)

-----------------------------------------------------------------------------
(* What the operators return.                                              *)

\* Collecting results collects what each search brought.
LEMMA GotIn ==
  ASSUME NEW D, NEW js, \A j \in js : found[j] \subseteq D
  PROVE  Got(js) \subseteq D
  BY DEF Got

\* A cut list is part of the list.
LEMMA TopByIn ==
  ASSUME NEW docs, NEW n
  PROVE  TopBy(docs, n) \subseteq docs
  BY DEF TopBy

\* The jobs of one leg are jobs, of that turn and leg.
LEMMA PartIn ==
  ASSUME NEW t \in Turns, NEW leg \in Legs
  PROVE  /\ Part(t, leg) \subseteq Jobs
         /\ \A j \in Part(t, leg) : Of(j) = t /\ LegOf(j) = leg
         /\ \A i \in Strings(leg) : <<t, leg, i>> \in Part(t, leg)
  BY DEF Part, Jobs, Of, LegOf

\* Every job belongs to a turn and to a leg.
LEMMA JobOf ==
  ASSUME NEW j \in Jobs
  PROVE  Of(j) \in Turns /\ LegOf(j) \in Legs /\ j \in Part(Of(j), LegOf(j))
  BY DEF Part, Jobs, Of, LegOf

\* There is a first string of every leg.
LEMMA FirstString ==
  ASSUME NEW leg \in Legs
  PROVE  1 \in Strings(leg) /\ Strings(leg) \in SUBSET Nat
  BY RetrievalAssumption DEF Strings

\* A line holds the jobs of its leg.
LEMMA LineIn ==
  ASSUME NEW t \in Turns, NEW leg \in Legs
  PROVE  Line(t, leg) \in Seq(Jobs)
  <1>1. \A i \in Strings(leg) : <<t, leg, i>> \in Jobs
    BY PartIn
  <1>2. PICK n \in Nat : Strings(leg) = 1 .. n
    BY RetrievalAssumption DEF Strings
  <1> QED BY <1>1, <1>2 DEF Line

\* What a search returns are documents, and clean ones when it is one for
\* services.
LEMMA AnswersIn ==
  ASSUME NEW j \in Jobs, NEW r \in BOOLEAN
  PROVE  /\ Answers(j, r) \subseteq Docs
         /\ LegOf(j) \in Filtered => Answers(j, r) \subseteq Clean(Of(j))
  BY DEF Answers, Filtered, Clean, FromOkms, FromGov, FromGsnd, Allowed, Near

\* The views show clean cards.
LEMMA RecommendedIn ==
  ASSUME NEW q
  PROVE  /\ Recommended(q) \subseteq Docs
         /\ \A d \in Recommended(q) : d.service \notin q.ruledOut /\ d.home # "okms"
  BY DEF Recommended, Rows

\* The documents of an answer are found ones.
LEMMA OkmsIn ==
  ASSUME NEW t \in Turns, NEW js, NEW D, Got(js \cap Part(t, "okms")) \subseteq D,
         Got(js \cap Part(t, "gov")) \subseteq D
  PROVE  Okms(t, js) \subseteq D
  <1>1. Got(IF Guide(t) THEN js \cap Part(t, "okms") ELSE js \cap Welfare(t)) \subseteq D
    BY DEF Got, Welfare
  <1> QED BY <1>1, TopByIn DEF Okms

LEMMA AgainIn ==
  ASSUME NEW t \in Turns, NEW js, NEW D, Got(js \cap Part(t, "okms")) \subseteq D,
         Got(js \cap Part(t, "gov")) \subseteq D, Got(js \cap Part(t, "again")) \subseteq D
  PROVE  OkmsAgain(t, js) \subseteq D
  <1>1. Okms(t, js) \cup Got(js \cap Part(t, "again")) \subseteq D
    BY OkmsIn
  <1> QED BY <1>1, TopByIn DEF OkmsAgain

LEMMA ChosenIn ==
  ASSUME NEW t \in Turns, NEW js, NEW D, NEW okms, okms \subseteq D,
         Got(js \cap Part(t, "gov")) \subseteq D, Got(js \cap Part(t, "gsnd")) \subseteq D,
         NEW docs \in Chosen(t, js, okms)
  PROVE  docs \subseteq D
  <1>1. CASE Guide(t)
    <2>1. GovOfGuide(t, js) \subseteq D
      BY DEF GovOfGuide
    <2>2. docs \subseteq okms \cup GovOfGuide(t, js)
      BY <1>1 DEF Chosen, GuideChosen
    <2> QED BY <2>1, <2>2
  <1>2. CASE ~ Guide(t)
    <2>1. TopBy(Got(js \cap Part(t, "gsnd")), GsndTop) \subseteq D
      BY TopByIn
    <2> QED BY <1>2, <2>1 DEF Chosen
  <1> QED BY <1>1, <1>2

-----------------------------------------------------------------------------
(* Types, and where a turn can be.                                         *)

\* The type invariant in parts, which different steps disturb.
PoolType ==
    /\ queue \in Seq(Jobs)
    /\ job \in [Jobs -> {"new", "queued", "running", "retrying", "done",
                        "timedout", "raised", "cancelled"}]
    /\ found \in [Jobs -> SUBSET Docs]
    /\ intime \subseteq Jobs
StageType ==
    /\ at \in [Turns -> 1 .. Queries + 1]
    /\ taken \subseteq Jobs /\ late \subseteq Turns
    /\ misses \in [Turns -> Nat]
TurnType ==
    /\ ask \in [Turns -> Questions]
    /\ pc \in [Turns -> {"begin", "gather", "again", "last", "center", "tel",
                         "names", "view", "recount", "write", "end"}]
    /\ top \in [Turns -> SUBSET Docs]
    /\ reply \in [Turns -> {"none", "answer", "apology", "failed"}]
ChipType == chips \in [Turns -> [Labels -> Nat]]

LEMMA TypeParts == TypeOK <=> PoolType /\ StageType /\ TurnType /\ ChipType
  BY DEF TypeOK, PoolType, StageType, TurnType, ChipType

LEMMA TypePartsNext == TypeOK' <=> PoolType' /\ StageType' /\ TurnType' /\ ChipType'
  BY DEF TypeOK, PoolType, StageType, TurnType, ChipType

LEMMA SubmitType ==
  ASSUME PoolType, NEW js \in Seq(Jobs), Submit(js)
  PROVE  PoolType'
  BY DEF PoolType, Submit

LEMMA GiveUpType ==
  ASSUME PoolType, NEW js, GiveUp(js)
  PROVE  PoolType'
  BY DEF PoolType, GiveUp

LEMMA EndType ==
  ASSUME PoolType, NEW j \in Jobs, NEW docs \in SUBSET Docs,
         NEW how \in {"done", "timedout", "raised"}, End(j, how, docs)
  PROVE  PoolType'
  BY DEF PoolType, End

LEMMA OneJobType ==
  ASSUME NEW t \in Turns, NEW leg \in Legs, NEW i \in Strings(leg)
  PROVE  << <<t, leg, i>> >> \in Seq(Jobs)
  BY PartIn

LEMMA QueriesPositive == Queries \in Nat /\ Queries >= 1
  BY RetrievalAssumption

\* The string a turn has reached.
LEMMA AtRange ==
  ASSUME StageType, NEW t \in Turns
  PROVE  at[t] \in Nat /\ 1 <= at[t] /\ at[t] <= Queries + 1
  BY QueriesPositive DEF StageType

LEMMA AtMoved ==
  ASSUME StageType, NEW t \in Turns, NEW n \in Nat, 1 <= n, n <= Queries + 1,
         at' = [at EXCEPT ![t] = n]
  PROVE  at' \in [Turns -> 1 .. Queries + 1] /\ at'[t] = n
  <1>1. n \in 1 .. Queries + 1
    BY QueriesPositive
  <1> QED BY <1>1 DEF StageType

LEMMA SequentialJob ==
  ASSUME NEW t \in Turns, NEW leg \in Sequential, NEW n \in Nat, 1 <= n, n <= Queries
  PROVE  <<t, leg, n>> \in Jobs /\ << <<t, leg, n>> >> \in Seq(Jobs)
  <1>1. n \in Strings(leg) /\ leg \in Legs
    BY QueriesPositive DEF Strings, Sequential, Legs
  <1> QED BY <1>1, OneJobType, PartIn

\* Results of a turn's own jobs are documents.
LEMMA GotType ==
  ASSUME PoolType, NEW js \in SUBSET Jobs
  PROVE  Got(js) \subseteq Docs
  BY GotIn DEF PoolType

\* There are finitely many cards, and so of each kind.
LEMMA CardsFinite ==
  ASSUME NEW rows \in SUBSET Docs, NEW some \in SUBSET Cards(rows)
  PROVE  IsFiniteSet(some) /\ Cardinality(some) \in Nat
  <1>1. IsFiniteSet(rows)
    BY FS_Subset, RetrievalAssumption
  <1>2. IsFiniteSet(Cards(rows))
    <2> DEFINE f == [d \in rows |-> CardOf(d)]
    <2>1. f \in Surjection(rows, Cards(rows))
      BY DEF Surjection, Cards
    <2> QED BY <1>1, <2>1, FS_Surjection
  <1> QED BY <1>2, FS_Subset, FS_CardinalityType

\* The fields of some cards are counted.
LEMMA ChipsType ==
  ASSUME NEW rows \in SUBSET Docs
  PROVE  Chips(rows) \in [Labels -> Nat]
  <1>1. ASSUME NEW l \in Labels
        PROVE  Cardinality({k \in Cards(rows) : l \in Labelled(rows, k)}) \in Nat
    BY CardsFinite
  <1> QED BY <1>1 DEF Chips

Placed == TypeOK /\ Routes

THEOREM PlacedInit == Init => Placed
  <1> SUFFICES ASSUME Init PROVE Placed
    OBVIOUS
  <1> USE DEF Init, RInit
  <1>1. PoolType /\ StageType
    BY RetrievalAssumption DEF PoolType, StageType
  <1>2. TurnType
    BY RetrievalAssumption DEF TurnType
  <1>3. ChipType
    BY DEF ChipType, NoChips
  <1>4. Routes
    BY DEF Routes
  <1> QED BY <1>1, <1>2, <1>3, <1>4, TypeParts DEF Placed

\* The steps of the threads leave the pipelines alone.
LEMMA PlacedPool ==
  ASSUME Placed, PoolType', UNCHANGED Pipelines, UNCHANGED chips
  PROVE  Placed'
  <1>1. StageType' /\ TurnType' /\ ChipType'
    BY TypeParts DEF Placed, Pipelines, StageType, TurnType, ChipType
  <1>2. Routes'
    BY DEF Placed, Pipelines, Routes, Facility, Picked, Asking, Recommending
  <1> QED BY <1>1, <1>2, TypePartsNext DEF Placed

LEMMA PlacedStart ==
  ASSUME Placed, Start
  PROVE  Placed'
  <1>1. queue' \in Seq(Jobs)
    BY TypeParts DEF Placed, PoolType, Start, StartJob
  <1>2. PoolType'
    BY <1>1, TypeParts DEF Placed, PoolType, Start, StartJob
  <1> QED BY <1>2, PlacedPool DEF Start, StartJob

LEMMA PlacedReturn ==
  ASSUME Placed, NEW j \in Jobs, Return(j)
  PROVE  Placed'
  <1> USE TypeParts DEF Placed
  <1>1. CASE Query(j)
    <2>1. \A q : Recommended(q) \in SUBSET Docs
      BY RecommendedIn
    <2>2. PICK how \in {"done", "raised"}, docs \in SUBSET Docs : End(j, how, docs)
      BY <1>1, <2>1 DEF Query
    <2>3. PoolType'
      BY <2>2, EndType
    <2> QED BY <1>1, <2>2, <2>3, PlacedPool DEF Query, End
  <1>2. CASE FinishJob(j) /\ UNCHANGED chips
    <2>1. PICK docs \in SUBSET Docs : End(j, "done", docs)
      BY <1>2, AnswersIn DEF FinishJob
    <2>2. PoolType'
      BY <2>1, EndType
    <2> QED BY <1>2, <2>1, <2>2, PlacedPool DEF End
  <1>3. CASE RetryGsnd(j) /\ UNCHANGED chips
    <2>1. PoolType'
      BY <1>3 DEF RetryGsnd, PoolType
    <2> QED BY <1>3, <2>1, PlacedPool DEF RetryGsnd
  <1>4. CASE MissGsnd(j) /\ UNCHANGED chips
    <2>1. PoolType'
      BY <1>4, EndType DEF MissGsnd
    <2> QED BY <1>4, <2>1, PlacedPool DEF MissGsnd, End
  <1> QED BY <1>1, <1>2, <1>3, <1>4 DEF Return

\* A step of one turn whose parts are typed and which goes where it may.
LEMMA PlacedTurn ==
  ASSUME Placed, NEW t \in Turns, PoolType', StageType', TurnType', ChipType',
         \A u \in Turns \ {t} : /\ pc'[u] = pc[u] /\ ask'[u] = ask[u]
                                /\ at'[u] = at[u] /\ reply'[u] = reply[u],
         pc'[t] = "begin" => at'[t] = 1,
         pc'[t] \in {"center", "tel"} => Facility(t)',
         pc'[t] = "center" => at'[t] <= Queries,
         pc'[t] = "names" => Picked(t)',
         pc'[t] \in {"gather", "again", "last"} => Asking(t)',
         pc'[t] = "view" => Recommending(t)',
         pc'[t] = "recount" => ask'[t].intent = "picked chip",
         reply'[t] # "none" => pc'[t] = "end"
  PROVE  Placed'
  <1>1. Routes'
    BY DEF Placed, Routes, Facility, Picked, Asking, Recommending
  <1> QED BY <1>1, TypePartsNext DEF Placed

LEMMA PlacedShared ==
  ASSUME Placed, NEW t \in Turns, UNCHANGED chips, Talk(t) \/ Write(t) \/ Expire(t)
  PROVE  Placed'
  <1> USE TypeParts DEF Placed
  <1>1. PoolType'
    BY DEF Talk, Write, Expire, pool, PoolType
  <1>2. StageType' /\ ChipType'
    BY DEF Talk, Write, Expire, stage, StageType, ChipType
  <1>3. TurnType'
    BY DEF Talk, Write, Expire, TurnType
  <1>4. Routes'
    <2> USE DEF Routes, TurnType, Facility, Picked, Asking, Recommending
    <2>1. CASE Talk(t)
      BY <2>1 DEF Talk, stage
    <2>2. CASE Write(t)
      BY <2>2 DEF Write, stage
    <2>3. CASE Expire(t)
      BY <2>3 DEF Expire
    <2> QED BY <2>1, <2>2, <2>3
  <1> QED BY <1>1, <1>2, <1>3, <1>4, TypePartsNext

LEMMA PlacedFacility ==
  ASSUME Placed, NEW t \in Turns, UNCHANGED chips, FacilityNext(t)
  PROVE  Placed'
  <1> USE TypeParts DEF Placed
  <1> DEFINE c == <<t, "center", at[t]>>
  <1>0. "center" \in Legs /\ "tel" \in Legs
    BY DEF Legs
  <1>1. ASSUME NEW js, js \subseteq Jobs, LeaveStage(t, js)
        PROVE  /\ PoolType' /\ taken' \subseteq Jobs /\ top' \in [Turns -> SUBSET Docs]
               /\ pc' = [pc EXCEPT ![t] = "write"]
    <2>1. Got(js \cap Mine(t)) \subseteq Docs
      BY <1>1, GotType
    <2> QED BY <1>1, <2>1, GiveUpType DEF LeaveStage, TurnType
  <1>2. ASSUME NEW js, js \subseteq Jobs, AwaitTel(t, js)
        PROVE  /\ PoolType' /\ taken' \subseteq Jobs /\ top' \in [Turns -> SUBSET Docs]
               /\ \E to \in {"tel", "write"} : pc' = [pc EXCEPT ![t] = to]
    <2>1. CASE WantsTel(t) /\ t \notin late
      BY <1>2, <2>1 DEF AwaitTel, PoolType, TurnType, pool
    <2>2. CASE ~ (WantsTel(t) /\ t \notin late)
      BY <1>1, <1>2, <2>2 DEF AwaitTel
    <2> QED BY <2>1, <2>2
  <1>3. CASE FacilityBegin(t)
    <2>1. Line(t, "tel") \in Seq(Jobs)
      BY <1>0, LineIn
    <2>2. << <<t, "center", 1>> >> \in Seq(Jobs)
      BY <1>0, OneJobType, FirstString
    <2>3. (IF WantsTel(t) THEN Line(t, "tel") ELSE << >>)
              \o (IF WantsCenter(t) THEN << <<t, "center", 1>> >> ELSE << >>) \in Seq(Jobs)
      BY <2>1, <2>2
    <2>4. PoolType'
      BY <1>3, <2>3, SubmitType DEF FacilityBegin
    <2>5. StageType' /\ ChipType'
      BY <1>3 DEF FacilityBegin, stage, StageType, ChipType
    <2>6. TurnType'
      BY <1>3 DEF FacilityBegin, TurnType
    <2>7. at'[t] = 1 /\ Queries >= 1
      BY <1>3, QueriesPositive DEF FacilityBegin, stage, Routes
    <2>8. at'[t] <= Queries
      BY <2>7, QueriesPositive
    <2>9. pc'[t] \in {"center", "tel"}
      BY <1>3 DEF FacilityBegin, TurnType
    <2>10. /\ Facility(t)' /\ reply'[t] = "none"
           /\ \A u \in Turns \ {t} : /\ pc'[u] = pc[u] /\ ask'[u] = ask[u]
                                     /\ at'[u] = at[u] /\ reply'[u] = reply[u]
      BY <1>3 DEF FacilityBegin, stage, Facility, TurnType, Routes
    <2> QED BY <2>4, <2>5, <2>6, <2>7, <2>8, <2>9, <2>10, PlacedTurn
  <1>4. CASE CenterAnswer(t)
    <2>1. at[t] \in Nat /\ 1 <= at[t] /\ at[t] <= Queries
      BY <1>4, AtRange DEF CenterAnswer, Routes
    <2>2. c \in Jobs
      BY <2>1, SequentialJob DEF Sequential
    <2>3. at' \in [Turns -> 1 .. Queries + 1] /\ at'[t] = at[t] + 1
      <3>1. at' = [at EXCEPT ![t] = at[t] + 1]
        BY <1>4 DEF CenterAnswer
      <3>2. at[t] + 1 \in Nat /\ 1 <= at[t] + 1 /\ at[t] + 1 <= Queries + 1
        BY <2>1, QueriesPositive
      <3> QED BY <3>1, <3>2, AtMoved
    <2>4. /\ Facility(t)' /\ reply'[t] = "none" /\ pc[t] = "center"
          /\ \A u \in Turns \ {t} : /\ ask'[u] = ask[u]
                                    /\ at'[u] = at[u] /\ reply'[u] = reply[u]
      BY <1>4 DEF CenterAnswer, Facility, StageType, TurnType, Routes
    <2>5. CASE t \notin late /\ at[t] < Queries
      <3>1. << <<t, "center", at[t] + 1>> >> \in Seq(Jobs)
        BY <2>1, <2>5, QueriesPositive, SequentialJob DEF Sequential
      <3>2. PoolType'
        BY <1>4, <2>5, <3>1, SubmitType DEF CenterAnswer
      <3>3. StageType' /\ ChipType'
        BY <1>4, <2>2, <2>3, <2>5 DEF CenterAnswer, StageType, ChipType
      <3>4. TurnType' /\ pc' = pc
        BY <1>4, <2>5 DEF CenterAnswer, TurnType
      <3>5. at'[t] <= Queries
        BY <2>1, <2>3, <2>5, QueriesPositive
      <3> QED BY <2>4, <3>2, <3>3, <3>4, <3>5, PlacedTurn
    <2>6. CASE ~ (t \notin late /\ at[t] < Queries)
      <3>1. taken \cup {c} \subseteq Jobs
        BY <2>2 DEF StageType
      <3>2. AwaitTel(t, taken \cup {c})
        BY <1>4, <2>6 DEF CenterAnswer
      <3>3. PICK to \in {"tel", "write"} : pc' = [pc EXCEPT ![t] = to]
        BY <3>1, <3>2, <1>2
      <3>4. PoolType' /\ taken' \subseteq Jobs /\ top' \in [Turns -> SUBSET Docs]
        BY <3>1, <3>2, <1>2
      <3>5. StageType' /\ ChipType'
        BY <1>4, <2>3, <3>4 DEF CenterAnswer, StageType, ChipType
      <3>6. TurnType'
        BY <1>4, <3>3, <3>4 DEF CenterAnswer, TurnType
      <3>7. pc'[t] = to /\ \A u \in Turns \ {t} : pc'[u] = pc[u]
        BY <3>3 DEF TurnType
      <3> QED BY <2>4, <3>4, <3>5, <3>6, <3>7, PlacedTurn
    <2> QED BY <2>5, <2>6
  <1>5. CASE CenterAbandon(t) \/ TelWake(t)
    <2>1. Part(t, "tel") \subseteq Jobs
      BY <1>0, PartIn
    <2>2. \A r \in SUBSET Part(t, "tel") : taken \cup r \subseteq Jobs
      BY <2>1 DEF StageType
    <2>3. /\ PoolType' /\ taken' \subseteq Jobs /\ top' \in [Turns -> SUBSET Docs]
          /\ pc' = [pc EXCEPT ![t] = "write"] \/ pc' = pc
      <3>1. CASE CenterAbandon(t)
        BY <3>1, <1>1 DEF CenterAbandon, StageType
      <3>2. CASE TelWake(t)
        <4> DEFINE ready == {j \in Part(t, "tel") : Ended(j)}
        <4>1. taken \cup ready \subseteq Jobs
          BY <2>2
        <4>2. CASE t \in late \/ ready = Part(t, "tel")
          <5>1. LeaveStage(t, taken \cup ready)
            BY <3>2, <4>2 DEF TelWake
          <5> QED BY <5>1, <4>1, <1>1
        <4>3. CASE ~ (t \in late \/ ready = Part(t, "tel"))
          <5>1. taken' = taken \cup ready /\ UNCHANGED <<pc, top>> /\ UNCHANGED pool
            BY <3>2, <4>3 DEF TelWake
          <5> QED BY <5>1, <4>1 DEF pool, PoolType, TurnType
        <4> QED BY <4>2, <4>3
      <3> QED BY <1>5, <3>1, <3>2
    <2>4. UNCHANGED <<ask, at, late, misses, reply>> /\ Facility(t)
      BY <1>5 DEF CenterAbandon, TelWake
    <2>5. StageType' /\ ChipType'
      BY <2>3, <2>4 DEF StageType, ChipType
    <2>6. TurnType'
      BY <2>3, <2>4 DEF TurnType
    <2>7. pc[t] \in {"center", "tel"}
      BY <1>5 DEF CenterAbandon, TelWake
    <2> QED BY <2>3, <2>4, <2>5, <2>6, <2>7, PlacedTurn DEF Facility, TurnType, Routes
  <1> QED BY <1>3, <1>4, <1>5 DEF FacilityNext

\* Everything a pipeline has received, and what it makes of it, are documents.
LEMMA ReceivedType ==
  ASSUME PoolType, StageType, NEW t \in Turns, NEW leg \in Legs
  PROVE  /\ Got(taken \cap Part(t, leg)) \subseteq Docs
         /\ taken \cup Part(t, leg) \subseteq Jobs
         /\ taken \cup Welfare(t) \subseteq Jobs
  <1>1. "okms" \in Legs /\ "gov" \in Legs
    BY DEF Legs
  <1>2. \A l \in Legs : Part(t, l) \subseteq Jobs
    BY PartIn
  <1>3. taken \cap Part(t, leg) \subseteq Jobs /\ taken \subseteq Jobs
    BY DEF StageType
  <1> QED BY <1>1, <1>2, <1>3, GotType DEF Welfare

LEMMA ChooseType ==
  ASSUME PoolType, TurnType, NEW t \in Turns, NEW js, js \subseteq Jobs,
         NEW okms, okms \subseteq Docs, Choose(t, js, okms)
  PROVE  /\ PoolType' /\ top' \in [Turns -> SUBSET Docs]
         /\ \/ pc' = [pc EXCEPT ![t] = "write"]
            \/ pc' = [pc EXCEPT ![t] = "last"] /\ General(t)
  <1>1. PICK docs \in Chosen(t, js, okms) :
          /\ top' = [top EXCEPT ![t] = docs]
          /\ IF General(t) /\ docs = {}
             THEN Submit(Line(t, "last")) /\ pc' = [pc EXCEPT ![t] = "last"]
             ELSE UNCHANGED pool /\ pc' = [pc EXCEPT ![t] = "write"]
    BY DEF Choose
  <1>2. \A l : Got(js \cap Part(t, l)) \subseteq Docs
    BY GotType
  <1>3. docs \subseteq Docs
    BY <1>1, <1>2, ChosenIn
  <1>4. Line(t, "last") \in Seq(Jobs)
    BY LineIn DEF Legs
  <1>5. PoolType'
    BY <1>1, <1>4, SubmitType DEF pool, PoolType
  <1> QED BY <1>1, <1>3, <1>5 DEF TurnType

\* After a gather: the parts are typed, and the turn searches on or writes.
LEMMA PlacedChoice ==
  ASSUME Placed, NEW t \in Turns, PoolType', StageType', UNCHANGED <<ask, reply, chips>>,
         at' = at, reply[t] = "none", top' \in [Turns -> SUBSET Docs], Asking(t),
         NEW to \in {"again", "last", "write"}, pc' = [pc EXCEPT ![t] = to]
  PROVE  Placed'
  <1>1. TurnType' /\ ChipType'
    BY TypeParts DEF Placed, TurnType, ChipType
  <1>2. pc'[t] = to /\ \A u \in Turns \ {t} : pc'[u] = pc[u]
    BY TypeParts DEF Placed, TurnType
  <1> QED BY <1>1, <1>2, PlacedTurn DEF Asking

LEMMA PlacedGsnd ==
  ASSUME Placed, NEW t \in Turns, UNCHANGED chips, GsndAnswer(t) \/ GsndAbandon(t)
  PROVE  Placed'
  <1> USE TypeParts DEF Placed
  <1>1. at[t] \in Nat /\ 1 <= at[t] /\ at[t] <= Queries /\ Queries \in Nat
    BY AtRange, QueriesPositive DEF GsndAnswer, GsndAbandon
  <1>2. <<t, "gsnd", at[t]>> \in Jobs
    BY <1>1, SequentialJob DEF Sequential
  <1>3. at' \in [Turns -> 1 .. Queries + 1] /\ taken' \subseteq Jobs /\ misses' \in [Turns -> Nat]
    <2>1. CASE GsndAnswer(t)
      <3>1. PICK n \in {at[t] + 1, Queries + 1} : at' = [at EXCEPT ![t] = n]
        BY <2>1 DEF GsndAnswer
      <3>2. n \in Nat /\ 1 <= n /\ n <= Queries + 1
        BY <3>1, <1>1
      <3>3. at' \in [Turns -> 1 .. Queries + 1]
        BY <3>1, <3>2, AtMoved
      <3>4. taken' \subseteq Jobs
        BY <2>1, <1>2 DEF GsndAnswer, StageType
      <3>5. \E k \in {0, 1} : misses' = [misses EXCEPT ![t] = misses[t] + k]
        BY <2>1 DEF GsndAnswer
      <3>6. misses' \in [Turns -> Nat]
        BY <3>5 DEF StageType
      <3> QED BY <3>3, <3>4, <3>6
    <2>2. CASE GsndAbandon(t)
      <3>1. at' = [at EXCEPT ![t] = Queries + 1] /\ UNCHANGED <<taken, misses>>
        BY <2>2 DEF GsndAbandon
      <3>2. Queries + 1 \in Nat /\ 1 <= Queries + 1 /\ Queries + 1 <= Queries + 1
        BY <1>1
      <3>3. at' \in [Turns -> 1 .. Queries + 1]
        BY <3>1, <3>2, AtMoved
      <3> QED BY <3>1, <3>3 DEF StageType
    <2> QED BY <2>1, <2>2
  <1>4. PoolType'
    <2>1. CASE GsndAnswer(t)
      <3>1. UNCHANGED pool \/ (at[t] < Queries /\ Submit(<< <<t, "gsnd", at[t] + 1>> >>))
        BY <2>1 DEF GsndAnswer
      <3>2. at[t] < Queries => << <<t, "gsnd", at[t] + 1>> >> \in Seq(Jobs)
        BY <1>1, SequentialJob DEF Sequential
      <3> QED BY <3>1, <3>2, SubmitType DEF pool, PoolType
    <2>2. CASE GsndAbandon(t)
      BY <2>2, GiveUpType DEF GsndAbandon
    <2> QED BY <2>1, <2>2
  <1>5. UNCHANGED <<ask, pc, late, top, reply>> /\ pc[t] = "gather"
    BY DEF GsndAnswer, GsndAbandon
  <1>6. StageType'
    BY <1>3, <1>5 DEF StageType
  <1>7. TurnType' /\ ChipType'
    BY <1>5 DEF TurnType, ChipType
  <1>8. Routes'
    <2>1. \A u \in Turns : u # t => at'[u] = at[u]
      BY DEF GsndAnswer, GsndAbandon, StageType
    <2> QED BY <1>5, <2>1 DEF Routes, Facility, Picked, Asking, Recommending
  <1> QED BY <1>4, <1>6, <1>7, <1>8, TypePartsNext

LEMMA PlacedService ==
  ASSUME Placed, NEW t \in Turns, UNCHANGED chips, ServiceNext(t)
  PROVE  Placed'
  <1> USE TypeParts DEF Placed
  <1>0. {"okms", "gov", "gsnd", "again", "last", "names"} \subseteq Legs
    BY DEF Legs
  <1>1. CASE ServiceBegin(t)
    <2>1. Line(t, "okms") \in Seq(Jobs) /\ Line(t, "gov") \in Seq(Jobs)
      BY <1>0, LineIn
    <2>2. << <<t, "gsnd", 1>> >> \in Seq(Jobs)
      BY SequentialJob, QueriesPositive DEF Sequential
    <2>3. Line(t, "okms") \o Line(t, "gov")
              \o (IF General(t) THEN << <<t, "gsnd", 1>> >> ELSE << >>) \in Seq(Jobs)
      BY <2>1, <2>2
    <2>4. PoolType'
      BY <1>1, <2>3, SubmitType DEF ServiceBegin
    <2>5. StageType' /\ ChipType'
      BY <1>1 DEF ServiceBegin, stage, StageType, ChipType
    <2>6. TurnType'
      BY <1>1 DEF ServiceBegin, TurnType
    <2>7. /\ pc'[t] = "gather" /\ Asking(t)' /\ reply'[t] = "none"
          /\ \A u \in Turns \ {t} : /\ pc'[u] = pc[u] /\ ask'[u] = ask[u]
                                    /\ at'[u] = at[u] /\ reply'[u] = reply[u]
      BY <1>1 DEF ServiceBegin, stage, Asking, TurnType, Routes
    <2> QED BY <2>4, <2>5, <2>6, <2>7, PlacedTurn
  <1>2. CASE GsndAnswer(t) \/ GsndAbandon(t)
    BY <1>2, PlacedGsnd
  <1>3. CASE Gathered(t)
    <2> DEFINE js == taken \cup Welfare(t)
    <2>1. js \subseteq Jobs
      BY <1>0, ReceivedType
    <2>2. \A l : Got(js \cap Part(t, l)) \subseteq Docs
      BY <2>1, GotType
    <2>3. Okms(t, js) \subseteq Docs
      BY <2>2, OkmsIn
    <2>4. /\ PoolType' /\ top' \in [Turns -> SUBSET Docs]
          /\ \E to \in {"again", "last", "write"} : pc' = [pc EXCEPT ![t] = to]
      <3>1. CASE Few(t, Okms(t, js))
        <4>1. Submit(Line(t, "again")) /\ pc' = [pc EXCEPT ![t] = "again"] /\ UNCHANGED top
          BY <1>3, <3>1 DEF Gathered
        <4> QED BY <4>1, <1>0, LineIn, SubmitType DEF TurnType
      <3>2. CASE ~ Few(t, Okms(t, js))
        <4>1. Choose(t, js, Okms(t, js))
          BY <1>3, <3>2 DEF Gathered
        <4> QED BY <4>1, <2>1, <2>3, ChooseType
      <3> QED BY <3>1, <3>2
    <2>5. /\ UNCHANGED <<ask, at, late, misses, reply>> /\ taken' = js
          /\ reply[t] = "none" /\ Asking(t)
      BY <1>3 DEF Gathered, Routes, TurnType
    <2>6. StageType'
      BY <2>1, <2>5 DEF StageType
    <2> QED BY <2>4, <2>5, <2>6, PlacedChoice
  <1>4. CASE GatheredAgain(t)
    <2> DEFINE js == taken \cup Part(t, "again")
    <2>1. js \subseteq Jobs
      BY <1>0, ReceivedType
    <2>2. \A l : Got(js \cap Part(t, l)) \subseteq Docs
      BY <2>1, GotType
    <2>3. OkmsAgain(t, js) \subseteq Docs
      BY <2>2, AgainIn
    <2>4. Choose(t, js, OkmsAgain(t, js)) /\ taken' = js
      BY <1>4 DEF GatheredAgain
    <2>5. /\ PoolType' /\ top' \in [Turns -> SUBSET Docs]
          /\ \E to \in {"again", "last", "write"} : pc' = [pc EXCEPT ![t] = to]
      BY <2>1, <2>3, <2>4, ChooseType
    <2>6. UNCHANGED <<ask, at, late, misses, reply>> /\ reply[t] = "none" /\ Asking(t)
      BY <1>4 DEF GatheredAgain, Routes, TurnType
    <2>7. StageType'
      BY <2>1, <2>4, <2>6 DEF StageType
    <2> QED BY <2>5, <2>6, <2>7, PlacedChoice
  <1>5. CASE GatheredLast(t)
    <2>1. taken' \subseteq Jobs
      BY <1>5, <1>0, ReceivedType DEF GatheredLast
    <2>2. Got(Part(t, "last")) \subseteq Docs
      BY <1>0, PartIn, GotType
    <2>3. TopBy(Got(Part(t, "last")), OkmsTop) \subseteq Docs
      BY <2>2, TopByIn
    <2>4. PoolType' /\ StageType' /\ ChipType'
      BY <1>5, <2>1 DEF GatheredLast, pool, PoolType, StageType, ChipType
    <2>5. /\ UNCHANGED ask /\ UNCHANGED at /\ pc[t] = "last"
          /\ top' \in [Turns -> SUBSET Docs]
          /\ \/ pc' = [pc EXCEPT ![t] = "end"] /\ reply' = [reply EXCEPT ![t] = "apology"]
             \/ pc' = [pc EXCEPT ![t] = "write"] /\ UNCHANGED reply
      BY <1>5, <2>3 DEF GatheredLast, TurnType
    <2>6. TurnType'
      BY <2>5 DEF TurnType
    <2>7. /\ pc'[t] \in {"write", "end"}
          /\ reply'[t] # "none" => pc'[t] = "end"
          /\ \A u \in Turns \ {t} : /\ pc'[u] = pc[u] /\ ask'[u] = ask[u]
                                    /\ at'[u] = at[u] /\ reply'[u] = reply[u]
      BY <2>5 DEF TurnType, Routes
    <2> QED BY <2>4, <2>6, <2>7, PlacedTurn
  <1>6. CASE PickedBegin(t)
    <2>1. << NamesJob(t) >> \in Seq(Jobs)
      BY <1>0, OneJobType, FirstString DEF NamesJob
    <2>2. PoolType'
      BY <1>6, <2>1, SubmitType DEF PickedBegin, pool, PoolType
    <2>3. StageType' /\ ChipType'
      BY <1>6 DEF PickedBegin, stage, StageType, ChipType
    <2>4. TurnType'
      BY <1>6 DEF PickedBegin, TurnType
    <2>5. /\ pc'[t] \in {"names", "write"} /\ Picked(t)' /\ reply'[t] = "none"
          /\ \A u \in Turns \ {t} : /\ pc'[u] = pc[u] /\ ask'[u] = ask[u]
                                    /\ at'[u] = at[u] /\ reply'[u] = reply[u]
      BY <1>6 DEF PickedBegin, stage, Picked, TurnType, Routes
    <2> QED BY <2>2, <2>3, <2>4, <2>5, PlacedTurn
  <1>7. CASE PickedFound(t)
    <2>1. NamesJob(t) \in Jobs
      BY <1>0, PartIn, FirstString DEF NamesJob
    <2>2. ReferredDocs(t) \subseteq Docs /\ found[NamesJob(t)] \subseteq Docs
      BY <2>1 DEF ReferredDocs, PoolType
    <2>3. PoolType' /\ StageType' /\ ChipType'
      BY <1>7, <2>1 DEF PickedFound, pool, PoolType, StageType, ChipType
    <2>4. TurnType'
      BY <1>7, <2>2 DEF PickedFound, TurnType
    <2>5. /\ pc'[t] = "write" /\ reply'[t] = "none"
          /\ \A u \in Turns \ {t} : /\ pc'[u] = pc[u] /\ ask'[u] = ask[u]
                                    /\ at'[u] = at[u] /\ reply'[u] = reply[u]
      BY <1>7 DEF PickedFound, TurnType, Routes
    <2> QED BY <2>3, <2>4, <2>5, PlacedTurn
  <1> QED BY <1>1, <1>2, <1>3, <1>4, <1>5, <1>6, <1>7 DEF ServiceNext

LEMMA PlacedGuide ==
  ASSUME Placed, NEW t \in Turns, GuideNext(t)
  PROVE  Placed'
  <1> USE TypeParts DEF Placed
  <1>0. /\ << ViewJob(t) >> \in Seq(Jobs) /\ << RecountJob(t) >> \in Seq(Jobs)
        /\ ViewJob(t) \in Jobs /\ RecountJob(t) \in Jobs
    <2>1. "view" \in Legs /\ "recount" \in Legs
      BY DEF Legs
    <2> QED BY <2>1, OneJobType, PartIn, FirstString DEF ViewJob, RecountJob
  <1>1. CASE PickChip(t)
    <2>1. PICK p \in Turns, l \in Labels :
            ask' = [ask EXCEPT ![t] = [ask[p] EXCEPT !.intent = "picked chip", !.topic = l,
                                                     !.ruledOut = {}, !.from = p]]
      BY <1>1 DEF PickChip
    <2>2. ask[p] \in Questions /\ l \in Labels \cup {NoTopic}
      BY DEF TurnType
    <2>3. [ask[p] EXCEPT !.intent = "picked chip", !.topic = l, !.ruledOut = {}, !.from = p]
            \in Questions
      BY <2>2 DEF Questions
    <2>4. TurnType'
      BY <1>1, <2>1, <2>3 DEF PickChip, TurnType
    <2>5. PoolType' /\ StageType' /\ ChipType'
      BY <1>1 DEF PickChip, pool, stage, PoolType, StageType, ChipType
    <2>6. /\ pc'[t] = "begin" /\ at'[t] = 1 /\ reply'[t] = "none"
          /\ \A u \in Turns \ {t} : /\ pc'[u] = pc[u] /\ ask'[u] = ask[u]
                                    /\ at'[u] = at[u] /\ reply'[u] = reply[u]
      BY <1>1, <2>1 DEF PickChip, stage, TurnType, Routes
    <2> QED BY <2>4, <2>5, <2>6, PlacedTurn
  <1>2. CASE RecommendBegin(t)
    <2>1. PoolType'
      BY <1>2, <1>0, SubmitType DEF RecommendBegin
    <2>2. StageType' /\ ChipType' /\ TurnType'
      BY <1>2 DEF RecommendBegin, stage, StageType, ChipType, TurnType
    <2>3. /\ pc'[t] = "view" /\ Recommending(t)' /\ reply'[t] = "none"
          /\ \A u \in Turns \ {t} : /\ pc'[u] = pc[u] /\ ask'[u] = ask[u]
                                    /\ at'[u] = at[u] /\ reply'[u] = reply[u]
      BY <1>2 DEF RecommendBegin, stage, Recommending, TurnType, Routes
    <2> QED BY <2>1, <2>2, <2>3, PlacedTurn
  <1>3. CASE RecommendFound(t)
    <2>1. found[ViewJob(t)] \in SUBSET Docs
      BY <1>0 DEF PoolType
    <2>2. Chips(found[ViewJob(t)]) \in [Labels -> Nat]
      BY <2>1, ChipsType
    <2>3. UNCHANGED <<ask, at, late, misses>> /\ reply[t] = "none"
          /\ taken' = taken \cup {ViewJob(t)} /\ top' = [top EXCEPT ![t] = found[ViewJob(t)]]
      BY <1>3 DEF RecommendFound, Routes, TurnType
    <2>4. /\ chips' = chips \/ chips' = [chips EXCEPT ![t] = Chips(found[ViewJob(t)])]
          /\ Submit(<< RecountJob(t) >>) \/ UNCHANGED pool
      BY <1>3 DEF RecommendFound
    <2>5. \/ pc' = [pc EXCEPT ![t] = "recount"] /\ UNCHANGED reply /\ ask[t].intent = "picked chip"
          \/ pc' = [pc EXCEPT ![t] = "end"] /\ reply' = [reply EXCEPT ![t] = "answer"]
          \/ pc' = [pc EXCEPT ![t] = "write"] /\ UNCHANGED reply
      BY <1>3 DEF RecommendFound, Reply
    <2>6. PoolType' /\ ChipType' /\ StageType'
      BY <1>0, <2>2, <2>3, <2>4, SubmitType DEF pool, PoolType, ChipType, StageType
    <2>7. TurnType'
      BY <2>1, <2>3, <2>5 DEF TurnType
    <2>8. CASE pc' = [pc EXCEPT ![t] = "recount"] /\ UNCHANGED reply /\ ask[t].intent = "picked chip"
      <3>1. /\ pc'[t] = "recount" /\ ask'[t].intent = "picked chip" /\ reply'[t] = "none"
            /\ \A u \in Turns \ {t} : /\ pc'[u] = pc[u] /\ ask'[u] = ask[u]
                                      /\ at'[u] = at[u] /\ reply'[u] = reply[u]
        BY <2>3, <2>8 DEF TurnType
      <3> QED BY <2>6, <2>7, <3>1, PlacedTurn
    <2>9. CASE pc' = [pc EXCEPT ![t] = "end"] /\ reply' = [reply EXCEPT ![t] = "answer"]
      <3>1. /\ pc'[t] = "end"
            /\ \A u \in Turns \ {t} : /\ pc'[u] = pc[u] /\ ask'[u] = ask[u]
                                      /\ at'[u] = at[u] /\ reply'[u] = reply[u]
        BY <2>3, <2>9 DEF TurnType
      <3> QED BY <2>6, <2>7, <3>1, PlacedTurn
    <2>10. CASE pc' = [pc EXCEPT ![t] = "write"] /\ UNCHANGED reply
      <3>1. /\ pc'[t] = "write" /\ reply'[t] = "none"
            /\ \A u \in Turns \ {t} : /\ pc'[u] = pc[u] /\ ask'[u] = ask[u]
                                      /\ at'[u] = at[u] /\ reply'[u] = reply[u]
        BY <2>3, <2>10 DEF TurnType
      <3> QED BY <2>6, <2>7, <3>1, PlacedTurn
    <2> QED BY <2>5, <2>8, <2>9, <2>10
  <1>4. CASE RecommendFailed(t) \/ Recounted(t)
    <2>1. PoolType'
      BY <1>4 DEF RecommendFailed, Recounted, pool, PoolType
    <2>2. StageType'
      BY <1>0, <1>4 DEF RecommendFailed, Recounted, stage, StageType
    <2>3. found[RecountJob(t)] \in SUBSET Docs
      BY <1>0 DEF PoolType
    <2>4. Chips(found[RecountJob(t)]) \in [Labels -> Nat]
      BY <2>3, ChipsType
    <2>5. ChipType'
      BY <1>4, <2>4 DEF RecommendFailed, Recounted, ChipType
    <2>6. /\ pc' = [pc EXCEPT ![t] = "end"] /\ UNCHANGED <<ask, at, top>>
          /\ \E r \in {"answer", "failed"} : reply' = [reply EXCEPT ![t] = r]
      BY <1>4 DEF RecommendFailed, Recounted, Reply, stage
    <2>7. TurnType'
      BY <2>6 DEF TurnType
    <2>8. /\ pc'[t] = "end"
          /\ \A u \in Turns \ {t} : /\ pc'[u] = pc[u] /\ ask'[u] = ask[u]
                                    /\ at'[u] = at[u] /\ reply'[u] = reply[u]
      BY <2>6 DEF TurnType
    <2> QED BY <2>1, <2>2, <2>5, <2>7, <2>8, PlacedTurn
  <1> QED BY <1>1, <1>2, <1>3, <1>4 DEF GuideNext

LEMMA PlacedNext == Placed /\ [Next]_vars => Placed'
  <1> SUFFICES ASSUME Placed, [Next]_vars PROVE Placed'
    OBVIOUS
  <1>1. ASSUME NEW t \in Turns, TurnNext(t)
        PROVE  Placed'
    <2>1. CASE GuideNext(t)
      BY <2>1, PlacedGuide
    <2>2. CASE (Talk(t) \/ Write(t)) /\ UNCHANGED chips
      BY <2>2, PlacedShared
    <2>3. CASE FacilityNext(t) /\ UNCHANGED chips
      BY <2>3, PlacedFacility
    <2>4. CASE ServiceNext(t) /\ UNCHANGED chips
      BY <2>4, PlacedService
    <2> QED BY <1>1, <2>1, <2>2, <2>3, <2>4 DEF TurnNext
  <1>2. ASSUME NEW t \in Turns, TimeUp(t)
        PROVE  Placed'
    BY <1>2, PlacedShared DEF TimeUp
  <1>3. CASE UNCHANGED vars
    <2>1. PoolType' /\ StageType' /\ TurnType' /\ ChipType'
      BY <1>3, TypeParts DEF Placed, vars, rvars, PoolType, StageType, TurnType, ChipType
    <2>2. Routes'
      BY <1>3 DEF Placed, vars, rvars, Routes, Facility, Picked, Asking, Recommending
    <2> QED BY <2>1, <2>2, TypePartsNext DEF Placed
  <1> QED BY <1>1, <1>2, <1>3, PlacedStart, PlacedReturn DEF Next

\* Every reachable state is well typed.
THEOREM TypeCorrect == Spec => []TypeOK
  <1>1. Spec => []Placed
    BY PlacedInit, PlacedNext, PTL DEF Spec
  <1>2. Placed => TypeOK
    BY DEF Placed
  <1> QED BY <1>1, <1>2, PTL

-----------------------------------------------------------------------------
(* Nothing the asker ruled out.                                            *)

CleanInv == FoundClean /\ TopClean

\* What a turn has received from its searches for services is clean.
LEMMA CleanGot ==
  ASSUME FoundClean, NEW t \in Turns, NEW js, NEW leg \in Filtered
  PROVE  Got(js \cap Part(t, leg)) \subseteq Clean(t)
  BY GotIn DEF FoundClean

\* The pipelines keep what was found; they must choose clean documents.
LEMMA CleanChosen ==
  ASSUME Placed, CleanInv, NEW t \in Turns, ask' = ask, found' = found,
         NEW docs, top' = [top EXCEPT ![t] = docs],
         Asking(t) \/ Recommending(t) => docs \subseteq Clean(t)
  PROVE  CleanInv'
  <1>1. \A u \in Turns : Clean(u)' = Clean(u)
    BY DEF Clean, Asking
  <1>2. FoundClean'
    BY <1>1 DEF CleanInv, FoundClean
  <1>3. TopClean'
    <2> SUFFICES ASSUME NEW u \in Turns, Asking(u) \/ Recommending(u)
                 PROVE  top'[u] \subseteq Clean(u)
      BY <1>1 DEF TopClean, Asking, Recommending
    <2>1. CASE u = t
      BY <2>1 DEF Placed, TypeOK
    <2>2. CASE u # t
      BY <2>2 DEF Placed, TypeOK, CleanInv, TopClean
    <2> QED BY <2>1, <2>2
  <1> QED BY <1>2, <1>3 DEF CleanInv

LEMMA CleanKept ==
  ASSUME CleanInv, UNCHANGED <<ask, found, top>>
  PROVE  CleanInv'
  BY DEF CleanInv, FoundClean, TopClean, Clean, Asking, Recommending

LEMMA CleanEnd ==
  ASSUME Placed, CleanInv, NEW j \in Jobs, NEW how, NEW docs, End(j, how, docs),
         LegOf(j) \in Filtered => docs \subseteq Clean(Of(j))
  PROVE  CleanInv'
  <1>1. ask' = ask /\ top' = top
    BY DEF End, Pipelines
  <1>2. \A u \in Turns : Clean(u)' = Clean(u)
    BY <1>1 DEF Clean, Asking
  <1>3. FoundClean'
    <2> SUFFICES ASSUME NEW t \in Turns, NEW leg \in Filtered, NEW k \in Part(t, leg)
                 PROVE  found'[k] \subseteq Clean(t)
      BY <1>2 DEF FoundClean
    <2>1. leg \in Legs
      BY DEF Filtered, Legs
    <2>2. k \in Jobs /\ Of(k) = t /\ LegOf(k) = leg
      BY <2>1, PartIn
    <2>3. found' = [found EXCEPT ![j] = docs]
      BY DEF End
    <2>4. CASE k = j
      BY <2>2, <2>3, <2>4 DEF Placed, TypeOK
    <2>5. CASE k # j
      BY <2>2, <2>3, <2>5 DEF Placed, TypeOK, CleanInv, FoundClean
    <2> QED BY <2>4, <2>5
  <1>4. TopClean'
    BY <1>1, <1>2 DEF CleanInv, TopClean, Asking, Recommending
  <1> QED BY <1>3, <1>4 DEF CleanInv

LEMMA CleanReturn ==
  ASSUME Placed, CleanInv, NEW j \in Jobs, Return(j)
  PROVE  CleanInv'
  <1>1. CASE Query(j)
    <2>1. ask[Of(j)] \in Questions
      BY JobOf DEF Placed, TypeOK
    <2>2. [ask[Of(j)] EXCEPT !.topic = NoTopic].ruledOut = ask[Of(j)].ruledOut
      BY <2>1 DEF Questions
    <2>3. /\ Recommended(ask[Of(j)]) \subseteq Clean(Of(j))
          /\ Recommended([ask[Of(j)] EXCEPT !.topic = NoTopic]) \subseteq Clean(Of(j))
      BY <2>2, RecommendedIn DEF Clean
    <2>4. PICK how \in {"done", "raised"}, docs \in SUBSET Clean(Of(j)) : End(j, how, docs)
      BY <1>1, <2>3 DEF Query
    <2> QED BY <2>4, CleanEnd
  <1>2. CASE FinishJob(j)
    <2>1. PICK docs \in SUBSET Answers(j, job[j] = "retrying") : End(j, "done", docs)
      BY <1>2 DEF FinishJob
    <2>2. LegOf(j) \in Filtered => docs \subseteq Clean(Of(j))
      BY AnswersIn
    <2> QED BY <2>1, <2>2, CleanEnd
  <1>3. CASE RetryGsnd(j)
    BY <1>3, CleanKept DEF RetryGsnd, Pipelines
  <1>4. CASE MissGsnd(j)
    BY <1>4, CleanEnd DEF MissGsnd
  <1> QED BY <1>1, <1>2, <1>3, <1>4 DEF Return

LEMMA CleanService ==
  ASSUME Placed, CleanInv, NEW t \in Turns, ServiceNext(t)
  PROVE  CleanInv'
  <1> USE DEF CleanInv
  <1>0. /\ {"okms", "gov", "gsnd", "again", "last"} \subseteq Filtered
        /\ Part(t, "last") \cap Part(t, "last") = Part(t, "last")
    BY DEF Filtered
  <1>1. ASSUME NEW js, NEW okms, okms \subseteq Clean(t), Choose(t, js, okms), ask' = ask
        PROVE  CleanInv'
    <2>1. PICK docs \in Chosen(t, js, okms) : top' = [top EXCEPT ![t] = docs]
      BY <1>1 DEF Choose
    <2>2. found' = found
      BY <1>1 DEF Choose, Submit, pool
    <2>3. docs \subseteq Clean(t)
      BY <1>0, <1>1, <2>1, CleanGot, ChosenIn
    <2> QED BY <1>1, <2>1, <2>2, <2>3, CleanChosen
  <1>2. CASE ServiceBegin(t) \/ GsndAnswer(t) \/ GsndAbandon(t) \/ PickedBegin(t)
    <2>1. UNCHANGED <<ask, found, top>>
      BY <1>2 DEF ServiceBegin, GsndAnswer, GsndAbandon, PickedBegin, Submit, GiveUp, pool
    <2> QED BY <2>1, CleanKept
  <1>3. CASE Gathered(t)
    <2> DEFINE js == taken \cup Welfare(t)
    <2>1. Okms(t, js) \subseteq Clean(t)
      BY <1>0, CleanGot, OkmsIn
    <2>2. CASE Few(t, Okms(t, js))
      <3>1. UNCHANGED <<ask, found, top>>
        BY <1>3, <2>2 DEF Gathered, Submit
      <3> QED BY <3>1, CleanKept
    <2>3. CASE ~ Few(t, Okms(t, js))
      BY <1>3, <2>1, <2>3, <1>1 DEF Gathered
    <2> QED BY <2>2, <2>3
  <1>4. CASE GatheredAgain(t)
    <2> DEFINE js == taken \cup Part(t, "again")
    <2>1. OkmsAgain(t, js) \subseteq Clean(t)
      BY <1>0, CleanGot, AgainIn
    <2> QED BY <1>4, <2>1, <1>1 DEF GatheredAgain
  <1>5. CASE GatheredLast(t)
    <2>1. Got(Part(t, "last")) \subseteq Clean(t)
      BY <1>0, CleanGot
    <2>2. TopBy(Got(Part(t, "last")), OkmsTop) \subseteq Clean(t)
      BY <2>1, TopByIn
    <2> QED BY <1>5, <2>2, CleanChosen DEF GatheredLast, pool
  <1>6. CASE PickedFound(t)
    <2>1. ~ Asking(t) /\ ~ Recommending(t)
      BY <1>6 DEF PickedFound, Placed, Routes, Picked, Asking, Recommending
    <2>2. PICK docs : top' = [top EXCEPT ![t] = docs]
      BY <1>6 DEF PickedFound
    <2> QED BY <1>6, <2>1, <2>2, CleanChosen DEF PickedFound, pool
  <1> QED BY <1>2, <1>3, <1>4, <1>5, <1>6 DEF ServiceNext

LEMMA CleanFacility ==
  ASSUME Placed, CleanInv, NEW t \in Turns, FacilityNext(t)
  PROVE  CleanInv'
  <1>1. Facility(t) /\ ask' = ask
    BY DEF FacilityNext, FacilityBegin, CenterAnswer, CenterAbandon, TelWake
  <1>2. ~ Asking(t) /\ ~ Recommending(t)
    BY <1>1 DEF Facility, Asking, Recommending
  <1>3. found' = found
    BY DEF FacilityNext, FacilityBegin, CenterAnswer, CenterAbandon, TelWake, AwaitTel,
           LeaveStage, Submit, GiveUp, pool
  <1>4. top' = top \/ \E docs : top' = [top EXCEPT ![t] = docs]
    BY DEF FacilityNext, FacilityBegin, CenterAnswer, CenterAbandon, TelWake, AwaitTel,
           LeaveStage
  <1> QED BY <1>1, <1>2, <1>3, <1>4, CleanChosen, CleanKept

LEMMA CleanGuide ==
  ASSUME Placed, CleanInv, NEW t \in Turns, GuideNext(t)
  PROVE  CleanInv'
  <1>1. CASE PickChip(t)
    <2>1. PICK p \in Turns, l \in Labels :
            ask' = [ask EXCEPT ![t] = [ask[p] EXCEPT !.intent = "picked chip", !.topic = l,
                                                     !.ruledOut = {}, !.from = p]]
      BY <1>1 DEF PickChip
    <2>2. /\ ask'[t].ruledOut = {} /\ ask'[t].intent = "picked chip"
          /\ \A u \in Turns \ {t} : ask'[u] = ask[u]
      <3> DEFINE q == [ask[p] EXCEPT !.intent = "picked chip", !.topic = l,
                                     !.ruledOut = {}, !.from = p]
      <3>1. ask[p] \in Questions
        BY DEF Placed, TypeOK
      <3>2. q.ruledOut = {} /\ q.intent = "picked chip"
        BY <3>1 DEF Questions
      <3> HIDE DEF q
      <3>3. ask' = [ask EXCEPT ![t] = q]
        BY <2>1 DEF q
      <3> QED BY <3>2, <3>3 DEF Placed, TypeOK
    <2>3. Clean(t)' = Docs /\ \A u \in Turns \ {t} : Clean(u)' = Clean(u)
      BY <2>2 DEF Clean, Asking
    <2>4. found' = found /\ top' = top
      BY <1>1 DEF PickChip, pool
    <2>5. FoundClean'
      <3> SUFFICES ASSUME NEW u \in Turns, NEW leg \in Filtered, NEW k \in Part(u, leg)
                   PROVE  found[k] \subseteq Clean(u)'
        BY <2>4 DEF FoundClean
      <3>1. k \in Jobs
        BY PartIn DEF Filtered, Legs
      <3>2. found[k] \subseteq Docs
        BY <3>1 DEF Placed, TypeOK
      <3> QED BY <2>3, <3>2 DEF CleanInv, FoundClean
    <2>6. TopClean'
      BY <2>2, <2>3, <2>4 DEF Placed, TypeOK, CleanInv, TopClean, Asking, Recommending
    <2> QED BY <2>5, <2>6 DEF CleanInv
  <1>2. CASE RecommendFound(t)
    <2>1. "view" \in Legs /\ "view" \in Filtered
      BY DEF Legs, Filtered
    <2>2. ViewJob(t) \in Part(t, "view")
      BY <2>1, PartIn, FirstString DEF ViewJob
    <2>3. found[ViewJob(t)] \subseteq Clean(t)
      BY <2>1, <2>2 DEF CleanInv, FoundClean
    <2>4. ask' = ask /\ found' = found /\ top' = [top EXCEPT ![t] = found[ViewJob(t)]]
      BY <1>2 DEF RecommendFound, Submit, pool
    <2> QED BY <2>3, <2>4, CleanChosen
  <1>3. CASE RecommendBegin(t) \/ RecommendFailed(t) \/ Recounted(t)
    <2>1. UNCHANGED <<ask, found, top>>
      BY <1>3 DEF RecommendBegin, RecommendFailed, Recounted, Submit, pool
    <2> QED BY <2>1, CleanKept
  <1> QED BY <1>1, <1>2, <1>3 DEF GuideNext

LEMMA CleanNext == Placed /\ CleanInv /\ [Next]_vars => CleanInv'
  <1> SUFFICES ASSUME Placed, CleanInv, [Next]_vars PROVE CleanInv'
    OBVIOUS
  <1>1. ASSUME NEW t \in Turns, TurnNext(t)
        PROVE  CleanInv'
    <2>1. CASE GuideNext(t)
      BY <2>1, CleanGuide
    <2>2. CASE Talk(t) \/ Write(t)
      BY <2>2, CleanKept DEF Talk, Write, pool
    <2>3. CASE FacilityNext(t)
      BY <2>3, CleanFacility
    <2>4. CASE ServiceNext(t)
      BY <2>4, CleanService
    <2> QED BY <1>1, <2>1, <2>2, <2>3, <2>4 DEF TurnNext
  <1>2. ASSUME NEW t \in Turns, TimeUp(t)
        PROVE  CleanInv'
    BY <1>2, CleanKept DEF TimeUp, Expire, pool
  <1>3. CASE Start
    BY <1>3, CleanKept DEF Start, StartJob, Pipelines
  <1>4. CASE UNCHANGED vars
    BY <1>4, CleanKept DEF vars, rvars
  <1> QED BY <1>1, <1>2, <1>3, <1>4, CleanReturn DEF Next

\* No answer about services is written from a document of a service the asker
\* ruled out, whichever search brought it, for any number of searches,
\* documents and turns that share the threads.
THEOREM NothingRuledOut == Spec => []RuledOutUnseen
  <1>1. Init => CleanInv
    BY DEF Init, RInit, CleanInv, FoundClean, TopClean, Part, Jobs, Filtered, Legs
  <1>2. CleanInv => RuledOutUnseen
    BY DEF CleanInv, TopClean, Clean, RuledOutUnseen
  <1> QED BY <1>1, <1>2, PlacedInit, PlacedNext, CleanNext, PTL DEF Spec

-----------------------------------------------------------------------------
(* One search at a time.                                                   *)

\* The sequential searches are still going on.
Going(t) == pc[t] \in {"begin", "center", "gather"} /\ at[t] <= Queries

\* The legs whose searches must not run side by side, each in one kind of turn.
Chains == {"center", "gsnd"}
Chained(t, leg) == (leg = "center" /\ Facility(t)) \/ (leg = "gsnd" /\ General(t))

\* Searches ahead of the one reached are untouched, those behind it over.
ChainInv ==
    \A t \in Turns : \A leg \in Chains : \A i \in 1 .. Queries :
        /\ i > at[t] => job[<<t, leg, i>>] = "new"
        /\ Going(t) /\ i < at[t] => ~ Active(<<t, leg, i>>)
        /\ pc[t] = "begin" \/ ~ Chained(t, leg) => job[<<t, leg, i>>] = "new"

\* The jobs of a chain.
LEMMA ChainJobs ==
  ASSUME NEW t \in Turns, NEW leg \in Chains
  PROVE  /\ \A j \in Part(t, leg) : \E i \in 1 .. Queries : j = <<t, leg, i>>
         /\ \A i \in 1 .. Queries : <<t, leg, i>> \in Jobs /\ <<t, leg, i>> \in Part(t, leg)
  <1>1. leg \in Legs /\ Strings(leg) = 1 .. Queries
    BY DEF Chains, Legs, Strings, Sequential
  <1>2. \A j \in Part(t, leg) : \E i \in 1 .. Queries : j = <<t, leg, i>>
    BY <1>1 DEF Part
  <1> QED BY <1>1, <1>2, PartIn

\* The limit on searches side by side, search by search.
LEMMA OneByOne ==
  OneAtATime <=>
    \A t \in Turns : \A leg \in Chains : \A i, k \in 1 .. Queries :
        Active(<<t, leg, i>>) /\ Active(<<t, leg, k>>) => <<t, leg, i>> = <<t, leg, k>>
  BY ChainJobs DEF OneAtATime, Chains

LEMMA OneByOneNext ==
  OneAtATime' <=>
    \A t \in Turns : \A leg \in Chains : \A i, k \in 1 .. Queries :
        Active(<<t, leg, i>>)' /\ Active(<<t, leg, k>>)' => <<t, leg, i>> = <<t, leg, k>>
  BY ChainJobs DEF OneAtATime, Chains, Active

\* Which of its jobs a line hands over.
LEMMA LineLeg ==
  ASSUME NEW t \in Turns, NEW leg \in Legs, NEW i \in DOMAIN Line(t, leg)
  PROVE  Line(t, leg)[i] = <<t, leg, i>>
  BY DEF Line

LEMMA InConcat ==
  ASSUME NEW S, NEW a \in Seq(S), NEW b \in Seq(S), NEW j,
         NEW i \in DOMAIN (a \o b), (a \o b)[i] = j
  PROVE  (\E k \in DOMAIN a : a[k] = j) \/ (\E k \in DOMAIN b : b[k] = j)
  <1>1. i \in 1 .. Len(a) + Len(b)
    OBVIOUS
  <1>2. CASE i <= Len(a)
    <2>1. i \in DOMAIN a /\ a[i] = j
      BY <1>1, <1>2
    <2> QED BY <2>1
  <1>3. CASE i > Len(a)
    <2>1. i - Len(a) \in DOMAIN b /\ b[i - Len(a)] = j
      BY <1>1, <1>3
    <2> QED BY <2>1
  <1> QED BY <1>1, <1>2, <1>3

\* A step by which no search of a chain begins.
LEMMA ChainKept ==
  ASSUME Placed, Placed', ChainInv, OneAtATime,
         \A k \in Jobs : LegOf(k) \in Chains =>
            /\ Active(k)' => Active(k)
            /\ job[k] = "new" => job'[k] = "new",
         \A t \in Turns :
            /\ pc'[t] = "begin" => pc[t] = "begin"
            /\ Going(t)' => Going(t) /\ at'[t] = at[t]
            /\ at'[t] >= at[t]
            /\ ask'[t].intent = ask[t].intent \/ pc[t] = "begin"
  PROVE  ChainInv' /\ OneAtATime'
  <1>0. \A t \in Turns : \A leg \in Chains : \A i \in 1 .. Queries :
            /\ Active(<<t, leg, i>>)' => Active(<<t, leg, i>>)
            /\ job[<<t, leg, i>>] = "new" => job'[<<t, leg, i>>] = "new"
    BY ChainJobs DEF LegOf
  <1>1. \A t \in Turns : at[t] \in Nat /\ at'[t] \in Nat
    BY QueriesPositive DEF Placed, TypeOK
  <1>2. ChainInv'
    <2> SUFFICES ASSUME NEW t \in Turns, NEW leg \in Chains, NEW i \in 1 .. Queries
                 PROVE  /\ i > at'[t] => job'[<<t, leg, i>>] = "new"
                        /\ Going(t)' /\ i < at'[t] => ~ Active(<<t, leg, i>>)'
                        /\ pc'[t] = "begin" \/ ~ Chained(t, leg)' => job'[<<t, leg, i>>] = "new"
      BY DEF ChainInv, Active
    <2>1. i > at'[t] => job'[<<t, leg, i>>] = "new"
      BY <1>0, <1>1 DEF ChainInv
    <2>2. Going(t)' /\ i < at'[t] => ~ Active(<<t, leg, i>>)'
      BY <1>0 DEF ChainInv
    <2>3. pc'[t] = "begin" \/ ~ Chained(t, leg)' => pc[t] = "begin" \/ ~ Chained(t, leg)
      BY DEF Chained, Facility, General
    <2>4. pc'[t] = "begin" \/ ~ Chained(t, leg)' => job'[<<t, leg, i>>] = "new"
      BY <1>0, <2>3 DEF ChainInv
    <2> QED BY <2>1, <2>2, <2>4
  <1>3. OneAtATime'
    BY <1>0, OneByOne, OneByOneNext
  <1> QED BY <1>2, <1>3

\* The next search of a chain is handed over.
LEMMA ChainGoesOn ==
  ASSUME Placed, Placed', ChainInv, OneAtATime, NEW t \in Turns, NEW leg \in Chains,
         Going(t), pc[t] # "begin", at[t] < Queries, Chained(t, leg),
         ~ Active(<<t, leg, at[t]>>), Submit(<< <<t, leg, at[t] + 1>> >>),
         at' = [at EXCEPT ![t] = @ + 1], UNCHANGED <<ask, pc>>
  PROVE  ChainInv' /\ OneAtATime'
  <1> DEFINE new == <<t, leg, at[t] + 1>>
  <1>1. at[t] \in Nat /\ Queries \in Nat /\ at[t] >= 1 /\ \A u \in Turns : at[u] \in Nat
    BY AtRange, QueriesPositive, TypeParts DEF Placed
  <1>2. at'[t] = at[t] + 1 /\ \A u \in Turns \ {t} : at'[u] = at[u]
    BY DEF Placed, TypeOK
  <1>3. job' = [j \in Jobs |-> IF j = new THEN "queued" ELSE job[j]]
    BY DEF Submit
  <1>4. ASSUME NEW u \in Turns, NEW g \in Chains, NEW i \in 1 .. Queries
        PROVE  job'[<<u, g, i>>] = IF u = t /\ g = leg /\ i = at[t] + 1 THEN "queued"
                                   ELSE job[<<u, g, i>>]
    BY <1>3, ChainJobs
  <1>5. ASSUME NEW g \in Chains, g # leg
        PROVE  ~ Chained(t, g)
    BY <1>5 DEF Chained, Chains, Facility, General
  <1>6. ChainInv'
    <2> SUFFICES ASSUME NEW u \in Turns, NEW g \in Chains, NEW i \in 1 .. Queries
                 PROVE  /\ i > at'[u] => job'[<<u, g, i>>] = "new"
                        /\ Going(u)' /\ i < at'[u] => ~ Active(<<u, g, i>>)'
                        /\ pc'[u] = "begin" \/ ~ Chained(u, g)' => job'[<<u, g, i>>] = "new"
      BY DEF ChainInv, Active
    <2>1. CASE u # t
      BY <1>2, <1>4, <2>1 DEF ChainInv, Going, Active, Chained, Facility, General
    <2>2. CASE u = t /\ g # leg
      BY <1>1, <1>2, <1>4, <1>5, <2>2 DEF ChainInv, Active, Chained, Facility, General
    <2>3. CASE u = t /\ g = leg
      <3>1. i > at'[u] => job'[<<u, g, i>>] = "new"
        BY <1>1, <1>2, <1>4, <2>3 DEF ChainInv
      <3>2. i < at'[u] => ~ Active(<<u, g, i>>)'
        <4>1. i < at'[u] => i < at[t] \/ i = at[t]
          BY <1>1, <1>2, <2>3
        <4>2. i < at'[u] => job'[<<u, g, i>>] = job[<<u, g, i>>]
          BY <1>1, <1>2, <1>4, <2>3
        <4> QED BY <4>1, <4>2, <2>3 DEF ChainInv, Active
      <3> QED BY <3>1, <3>2, <2>3 DEF Chained, Facility, General
    <2> QED BY <2>1, <2>2, <2>3
  <1>7. OneAtATime'
    <2> SUFFICES ASSUME NEW u \in Turns, NEW g \in Chains, NEW i \in 1 .. Queries,
                        NEW k \in 1 .. Queries, Active(<<u, g, i>>)', Active(<<u, g, k>>)'
                 PROVE  <<u, g, i>> = <<u, g, k>>
      BY OneByOneNext
    <2>1. CASE u = t /\ g = leg
      <3>1. \A n \in 1 .. Queries : Active(<<t, leg, n>>)' => n = at[t] + 1
        <4> SUFFICES ASSUME NEW n \in 1 .. Queries, n # at[t] + 1
                     PROVE  ~ Active(<<t, leg, n>>)
          BY <1>4 DEF Active
        <4>1. n < at[t] \/ n = at[t] \/ n > at[t]
          BY <1>1
        <4> QED BY <4>1 DEF ChainInv, Active
      <3> QED BY <2>1, <3>1
    <2>2. CASE ~ (u = t /\ g = leg)
      BY <2>2, <1>4, OneByOne DEF Active
    <2> QED BY <2>1, <2>2
  <1> QED BY <1>6, <1>7

\* The first search of a chain is handed over, or there is none.
LEMMA ChainBegins ==
  ASSUME Placed, Placed', ChainInv, OneAtATime, NEW t \in Turns, NEW leg \in Chains,
         Chained(t, leg) \/ UNCHANGED job, pc[t] = "begin", UNCHANGED <<ask, at>>,
         pc'[t] # "begin", \A u \in Turns \ {t} : pc'[u] = pc[u],
         \A u \in Turns : \A g \in Chains : \A i \in 1 .. Queries :
            \/ job'[<<u, g, i>>] = job[<<u, g, i>>]
            \/ u = t /\ g = leg /\ i = 1
  PROVE  ChainInv' /\ OneAtATime'
  <1>1. at[t] = 1
    BY DEF Placed, Routes
  <1>2. \A g \in Chains : \A i \in 1 .. Queries : job[<<t, g, i>>] = "new"
    BY DEF ChainInv
  <1>3. ChainInv'
    <2> SUFFICES ASSUME NEW u \in Turns, NEW g \in Chains, NEW i \in 1 .. Queries
                 PROVE  /\ i > at[u] => job'[<<u, g, i>>] = "new"
                        /\ Going(u)' /\ i < at[u] => ~ Active(<<u, g, i>>)'
                        /\ pc'[u] = "begin" \/ ~ Chained(u, g) => job'[<<u, g, i>>] = "new"
      BY DEF ChainInv, Active, Chained, Facility, General
    <2>1. CASE u # t
      BY <2>1 DEF ChainInv, Going, Active
    <2>2. CASE u = t
      <3>1. i > at[u] => job'[<<u, g, i>>] = "new"
        BY <1>1, <1>2, <2>2
      <3>2. ~ (i < at[u])
        BY <1>1, <2>2
      <3>3. ~ Chained(u, g) => job'[<<u, g, i>>] = "new"
        BY <1>2, <2>2
      <3> QED BY <3>1, <3>2, <3>3, <2>2
    <2> QED BY <2>1, <2>2
  <1>4. OneAtATime'
    <2> SUFFICES ASSUME NEW u \in Turns, NEW g \in Chains, NEW i \in 1 .. Queries,
                        NEW k \in 1 .. Queries, Active(<<u, g, i>>)', Active(<<u, g, k>>)'
                 PROVE  <<u, g, i>> = <<u, g, k>>
      BY OneByOneNext
    <2>1. CASE u = t
      <3>1. \A n \in 1 .. Queries : Active(<<t, g, n>>)' => n = 1
        BY <1>2 DEF Active
      <3> QED BY <2>1, <3>1
    <2>2. CASE u # t
      BY <2>2, OneByOne DEF Active
    <2> QED BY <2>1, <2>2
  <1> QED BY <1>3, <1>4

\* Jobs of other legs are handed over without disturbing a chain.
LEMMA OtherLegs ==
  ASSUME NEW js, Submit(js), \A i \in DOMAIN js : LegOf(js[i]) \notin Chains
  PROVE  \A k \in Jobs : LegOf(k) \in Chains => job'[k] = job[k]
  BY DEF Submit

\* A line of another leg is such a sequence.
LEMMA LineOther ==
  ASSUME NEW t \in Turns, NEW l \in Legs
  PROVE  \A i \in DOMAIN Line(t, l) : LegOf(Line(t, l)[i]) = l
  BY DEF Line, LegOf

\* Other legs, then perhaps the first search of a chain.
LEMMA ThenFirst ==
  ASSUME NEW t \in Turns, NEW leg \in Chains, NEW js \in Seq(Jobs), NEW yes \in BOOLEAN,
         \A i \in DOMAIN js : LegOf(js[i]) \notin Chains,
         Submit(js \o (IF yes THEN << <<t, leg, 1>> >> ELSE << >>))
  PROVE  \A u \in Turns : \A g \in Chains : \A i \in 1 .. Queries :
            \/ job'[<<u, g, i>>] = job[<<u, g, i>>]
            \/ u = t /\ g = leg /\ i = 1
  <1> DEFINE first == IF yes THEN << <<t, leg, 1>> >> ELSE << >>
  <1>1. first \in Seq(Jobs)
    BY SequentialJob, QueriesPositive DEF Sequential, Chains
  <1> SUFFICES ASSUME NEW u \in Turns, NEW g \in Chains, NEW i \in 1 .. Queries,
                      job'[<<u, g, i>>] # job[<<u, g, i>>]
               PROVE  u = t /\ g = leg /\ i = 1
    OBVIOUS
  <1> DEFINE j == <<u, g, i>>
  <1>2. j \in Jobs /\ LegOf(j) = g
    BY ChainJobs DEF LegOf
  <1>3. \E k \in DOMAIN (js \o first) : (js \o first)[k] = j
    BY <1>2 DEF Submit
  <1>4. ~ \E k \in DOMAIN js : js[k] = j
    BY <1>2
  <1> HIDE DEF j, first
  <1>5. \E k \in DOMAIN first : first[k] = j
    BY <1>1, <1>3, <1>4, InConcat
  <1>6. j = <<t, leg, 1>>
    BY <1>5 DEF first
  <1> QED BY <1>6 DEF j

LEMMA ChainReturn ==
  ASSUME Placed, Placed', ChainInv, OneAtATime, NEW j \in Jobs, Return(j)
  PROVE  ChainInv' /\ OneAtATime'
  <1>1. PICK to \in {"retrying", "done", "timedout", "raised"} :
          job' = [job EXCEPT ![j] = to]
    BY DEF Return, Query, FinishJob, RetryGsnd, MissGsnd, End
  <1>2. job[j] \in {"running", "retrying"}
    BY DEF Return, Query, FinishJob, RetryGsnd, MissGsnd, Running
  <1>3. UNCHANGED <<ask, pc, at>>
    BY DEF Return, Query, FinishJob, RetryGsnd, MissGsnd, End, Pipelines
  <1>4. \A k \in Jobs : LegOf(k) \in Chains =>
            /\ Active(k)' => Active(k)
            /\ job[k] = "new" => job'[k] = "new"
    BY <1>1, <1>2 DEF Active, Placed, TypeOK
  <1>5. \A t \in Turns : Going(t)' => Going(t)
    BY <1>3 DEF Going
  <1>6. \A t \in Turns : at[t] \in Nat
    BY DEF Placed, TypeOK
  <1>7. \A u \in Turns :
            /\ pc'[u] = "begin" => pc[u] = "begin"
            /\ Going(u)' => Going(u) /\ at'[u] = at[u]
            /\ at'[u] >= at[u]
            /\ ask'[u].intent = ask[u].intent \/ pc[u] = "begin"
    BY <1>3, <1>5, <1>6
  <1> QED BY <1>4, <1>7, ChainKept

LEMMA ChainFacility ==
  ASSUME Placed, Placed', ChainInv, OneAtATime, NEW t \in Turns, FacilityNext(t)
  PROVE  ChainInv' /\ OneAtATime'
  <1>0. \A u \in Turns : at[u] \in Nat
    BY DEF Placed, TypeOK
  <1>1. CASE FacilityBegin(t)
    <2> DEFINE a == IF WantsTel(t) THEN Line(t, "tel") ELSE << >>
               b == IF WantsCenter(t) THEN << <<t, "center", 1>> >> ELSE << >>
    <2>0. "tel" \in Legs /\ "tel" \notin Chains /\ "center" \in Chains
      BY DEF Legs, Chains
    <2>1. a \in Seq(Jobs) /\ \A i \in DOMAIN a : LegOf(a[i]) \notin Chains
      BY <2>0, LineIn, LineOther
    <2>3. Submit(a \o b)
      BY <1>1 DEF FacilityBegin
    <2> HIDE DEF a
    <2>4. \A u \in Turns : \A g \in Chains : \A i \in 1 .. Queries :
            \/ job'[<<u, g, i>>] = job[<<u, g, i>>]
            \/ u = t /\ g = "center" /\ i = 1
      BY <2>0, <2>1, <2>3, ThenFirst
    <2>5. /\ pc[t] = "begin" /\ pc'[t] # "begin" /\ UNCHANGED <<ask, at>>
          /\ \A u \in Turns \ {t} : pc'[u] = pc[u]
      BY <1>1 DEF FacilityBegin, stage, Placed, TypeOK
    <2>6. Chained(t, "center")
      BY <1>1 DEF FacilityBegin, Chained
    <2> QED BY <2>0, <2>4, <2>5, <2>6, ChainBegins
  <1>2. CASE CenterAnswer(t)
    <2>1. Facility(t) /\ pc[t] = "center" /\ Ended(<<t, "center", at[t]>>) /\ at[t] <= Queries
      BY <1>2 DEF CenterAnswer, Placed, Routes
    <2>2. CASE t \notin late /\ at[t] < Queries
      <3>1. "center" \in Chains /\ Chained(t, "center") /\ Going(t) /\ pc[t] # "begin"
        BY <2>1 DEF Chains, Chained, Going
      <3>2. ~ Active(<<t, "center", at[t]>>)
        BY <2>1 DEF Ended, Active
      <3>3. Submit(<< <<t, "center", at[t] + 1>> >>) /\ at' = [at EXCEPT ![t] = @ + 1]
             /\ UNCHANGED <<ask, pc>>
        BY <1>2, <2>2 DEF CenterAnswer
      <3> QED BY <3>1, <3>2, <3>3, <2>2, ChainGoesOn
    <2>3. CASE ~ (t \notin late /\ at[t] < Queries)
      <3>1. PICK js : AwaitTel(t, js)
        BY <1>2, <2>3 DEF CenterAnswer
      <3>2. UNCHANGED job \/ GiveUp(Mine(t))
        BY <3>1 DEF AwaitTel, LeaveStage, pool
      <3>3. pc'[t] \notin {"begin", "center", "gather"} /\ \A u \in Turns \ {t} : pc'[u] = pc[u]
        BY <3>1 DEF AwaitTel, LeaveStage, Placed, TypeOK
      <3>4. at'[t] = at[t] + 1 /\ ask' = ask /\ \A u \in Turns \ {t} : at'[u] = at[u]
        BY <1>2 DEF CenterAnswer, Placed, TypeOK
      <3>5. \A u \in Turns : /\ pc'[u] = "begin" => pc[u] = "begin"
                             /\ Going(u)' => Going(u) /\ at'[u] = at[u]
                             /\ at'[u] >= at[u]
        BY <1>0, <3>3, <3>4 DEF Going
      <3>6. \A k \in Jobs : LegOf(k) \in Chains =>
            /\ Active(k)' => Active(k)
            /\ job[k] = "new" => job'[k] = "new"
        BY <3>2 DEF GiveUp, Active, Placed, TypeOK
      <3>7. \A u \in Turns :
            /\ pc'[u] = "begin" => pc[u] = "begin"
            /\ Going(u)' => Going(u) /\ at'[u] = at[u]
            /\ at'[u] >= at[u]
            /\ ask'[u].intent = ask[u].intent \/ pc[u] = "begin"
        BY <3>4, <3>5
      <3> QED BY <3>6, <3>7, ChainKept
    <2> QED BY <2>2, <2>3
  <1>3. CASE CenterAbandon(t) \/ TelWake(t)
    <2>1. UNCHANGED <<ask, at>> /\ pc[t] \in {"center", "tel"}
      BY <1>3 DEF CenterAbandon, TelWake
    <2>2. \/ UNCHANGED <<job, pc>>
          \/ GiveUp(Mine(t)) /\ pc' = [pc EXCEPT ![t] = "write"]
      BY <1>3 DEF CenterAbandon, TelWake, LeaveStage, pool
    <2>3. \A k \in Jobs : LegOf(k) \in Chains =>
            /\ Active(k)' => Active(k)
            /\ job[k] = "new" => job'[k] = "new"
      BY <2>2 DEF GiveUp, Active, Placed, TypeOK
    <2>4. \A u \in Turns : /\ pc'[u] = "begin" => pc[u] = "begin"
                           /\ Going(u)' => Going(u)
      BY <2>1, <2>2 DEF Going, Placed, TypeOK
    <2>5. \A u \in Turns :
            /\ pc'[u] = "begin" => pc[u] = "begin"
            /\ Going(u)' => Going(u) /\ at'[u] = at[u]
            /\ at'[u] >= at[u]
            /\ ask'[u].intent = ask[u].intent \/ pc[u] = "begin"
      BY <1>0, <2>1, <2>4
    <2> QED BY <2>3, <2>5, ChainKept
  <1> QED BY <1>1, <1>2, <1>3 DEF FacilityNext

\* A step that leaves the question and the string reached alone, and begins
\* no search of a chain.
LEMMA ChainStill ==
  ASSUME Placed, Placed', ChainInv, OneAtATime, UNCHANGED <<ask, at>>,
         \A k \in Jobs : LegOf(k) \in Chains => job'[k] = job[k],
         \A u \in Turns : /\ pc'[u] = "begin" => pc[u] = "begin"
                          /\ Going(u)' => Going(u)
  PROVE  ChainInv' /\ OneAtATime'
  <1>1. \A k \in Jobs : LegOf(k) \in Chains =>
            /\ Active(k)' => Active(k)
            /\ job[k] = "new" => job'[k] = "new"
    BY DEF Active
  <1>2. \A u \in Turns : at[u] \in Nat
    BY DEF Placed, TypeOK
  <1>3. \A u \in Turns : at'[u] = at[u] /\ at'[u] >= at[u] /\ ask'[u].intent = ask[u].intent
    BY <1>2
  <1>4. \A u \in Turns :
            /\ pc'[u] = "begin" => pc[u] = "begin"
            /\ Going(u)' => Going(u) /\ at'[u] = at[u]
            /\ at'[u] >= at[u]
            /\ ask'[u].intent = ask[u].intent \/ pc[u] = "begin"
    BY <1>3, Zenon
  <1> QED BY <1>1, <1>4, ChainKept

LEMMA ChainService ==
  ASSUME Placed, Placed', ChainInv, OneAtATime, NEW t \in Turns, ServiceNext(t)
  PROVE  ChainInv' /\ OneAtATime'
  <1>0. /\ {"okms", "gov", "again", "last", "names"} \subseteq Legs \ Chains
        /\ "gsnd" \in Chains
        /\ \A u \in Turns : at[u] \in Nat
    BY DEF Legs, Chains, Placed, TypeOK
  <1>1. CASE ServiceBegin(t)
    <2> DEFINE a == Line(t, "okms") \o Line(t, "gov")
    <2>1. Line(t, "okms") \in Seq(Jobs) /\ Line(t, "gov") \in Seq(Jobs)
      BY <1>0, LineIn
    <2>2. ASSUME NEW i \in DOMAIN a
          PROVE  LegOf(a[i]) \notin Chains
      <3>1. \/ \E k \in DOMAIN Line(t, "okms") : Line(t, "okms")[k] = a[i]
            \/ \E k \in DOMAIN Line(t, "gov") : Line(t, "gov")[k] = a[i]
        BY <2>1, InConcat
      <3>2. LegOf(a[i]) \in {"okms", "gov"}
        BY <1>0, <3>1, LineOther
      <3> QED BY <3>2, <1>0
    <2>3. a \in Seq(Jobs) /\ \A i \in DOMAIN a : LegOf(a[i]) \notin Chains
      BY <2>1, <2>2
    <2>4. Submit(a \o (IF General(t) THEN << <<t, "gsnd", 1>> >> ELSE << >>))
      BY <1>1 DEF ServiceBegin
    <2> HIDE DEF a
    <2>5. General(t) \in BOOLEAN
      BY DEF General
    <2>6. \A u \in Turns : \A g \in Chains : \A i \in 1 .. Queries :
            \/ job'[<<u, g, i>>] = job[<<u, g, i>>]
            \/ u = t /\ g = "gsnd" /\ i = 1
      BY <1>0, <2>3, <2>4, <2>5, ThenFirst
    <2>7. /\ pc[t] = "begin" /\ pc'[t] # "begin" /\ UNCHANGED <<ask, at>>
          /\ \A u \in Turns \ {t} : pc'[u] = pc[u]
      BY <1>1 DEF ServiceBegin, stage, Placed, TypeOK
    <2>8. CASE General(t)
      <3>1. Chained(t, "gsnd")
        BY <2>8 DEF Chained
      <3> QED BY <1>0, <2>6, <2>7, <3>1, ChainBegins
    <2>9. CASE ~ General(t)
      <3>1. Submit(a)
        <4>1. a \o << >> = a
          BY <2>3
        <4> QED BY <2>4, <2>9, <4>1
      <3>2. \A k \in Jobs : LegOf(k) \in Chains => job'[k] = job[k]
        BY <2>3, <3>1, OtherLegs
      <3>3. \A u \in Turns : /\ pc'[u] = "begin" => pc[u] = "begin"
                             /\ Going(u)' => Going(u)
        BY <2>7 DEF Going
      <3> QED BY <2>7, <3>2, <3>3, ChainStill
    <2> QED BY <2>8, <2>9
  <1>2. CASE GsndAnswer(t)
    <2>1. /\ General(t) /\ pc[t] = "gather" /\ Ended(<<t, "gsnd", at[t]>>)
          /\ at[t] <= Queries /\ UNCHANGED <<ask, pc>>
      BY <1>2 DEF GsndAnswer
    <2>2. \/ /\ at[t] < Queries /\ Submit(<< <<t, "gsnd", at[t] + 1>> >>)
             /\ at' = [at EXCEPT ![t] = @ + 1]
          \/ UNCHANGED job /\ at' = [at EXCEPT ![t] = Queries + 1]
      BY <1>2 DEF GsndAnswer, pool
    <2>3. CASE at[t] < Queries /\ Submit(<< <<t, "gsnd", at[t] + 1>> >>)
               /\ at' = [at EXCEPT ![t] = @ + 1]
      <3>1. Chained(t, "gsnd") /\ Going(t) /\ pc[t] # "begin" /\ ~ Active(<<t, "gsnd", at[t]>>)
        BY <2>1 DEF Chained, Going, Ended, Active
      <3> QED BY <1>0, <2>1, <2>3, <3>1, ChainGoesOn
    <2>4. CASE UNCHANGED job /\ at' = [at EXCEPT ![t] = Queries + 1]
      <3>1. at'[t] = Queries + 1 /\ \A u \in Turns \ {t} : at'[u] = at[u]
        BY <2>4 DEF Placed, TypeOK
      <3>2. ~ (Queries + 1 <= Queries) /\ Queries + 1 >= at[t]
        BY <1>0, <2>1, QueriesPositive
      <3>3. \A u \in Turns :
            /\ pc'[u] = "begin" => pc[u] = "begin"
            /\ Going(u)' => Going(u) /\ at'[u] = at[u]
            /\ at'[u] >= at[u]
            /\ ask'[u].intent = ask[u].intent \/ pc[u] = "begin"
        BY <1>0, <2>1, <3>1, <3>2 DEF Going
      <3>4. \A k \in Jobs : LegOf(k) \in Chains =>
            /\ Active(k)' => Active(k)
            /\ job[k] = "new" => job'[k] = "new"
        BY <2>4 DEF Active
      <3> QED BY <3>3, <3>4, ChainKept
    <2> QED BY <2>2, <2>3, <2>4
  <1>3. CASE GsndAbandon(t)
    <2>1. UNCHANGED <<ask, pc>> /\ at' = [at EXCEPT ![t] = Queries + 1] /\ at[t] <= Queries
      BY <1>3 DEF GsndAbandon
    <2>2. at'[t] = Queries + 1 /\ \A u \in Turns \ {t} : at'[u] = at[u]
      BY <2>1 DEF Placed, TypeOK
    <2>3. ~ (Queries + 1 <= Queries) /\ Queries + 1 >= at[t]
      BY <1>0, <2>1, QueriesPositive
    <2>4. \A u \in Turns :
            /\ pc'[u] = "begin" => pc[u] = "begin"
            /\ Going(u)' => Going(u) /\ at'[u] = at[u]
            /\ at'[u] >= at[u]
            /\ ask'[u].intent = ask[u].intent \/ pc[u] = "begin"
      BY <1>0, <2>1, <2>2, <2>3 DEF Going
    <2>5. \A k \in Jobs : LegOf(k) \in Chains =>
            /\ Active(k)' => Active(k)
            /\ job[k] = "new" => job'[k] = "new"
      BY <1>3 DEF GsndAbandon, GiveUp, Active, Placed, TypeOK
    <2> QED BY <2>4, <2>5, ChainKept
  <1>4. CASE Gathered(t) \/ GatheredAgain(t) \/ GatheredLast(t) \/ PickedBegin(t) \/ PickedFound(t)
    <2>1. \/ \E leg \in {"again", "last"} : Submit(Line(t, leg))
          \/ Submit(<< NamesJob(t) >>)
          \/ UNCHANGED pool
      BY <1>4 DEF Gathered, GatheredAgain, GatheredLast, PickedBegin, PickedFound, Choose
    <2>2. \A k \in Jobs : LegOf(k) \in Chains => job'[k] = job[k]
      <3>1. ASSUME NEW leg \in {"again", "last"}, Submit(Line(t, leg))
            PROVE  \A k \in Jobs : LegOf(k) \in Chains => job'[k] = job[k]
        BY <1>0, <3>1, LineOther, OtherLegs
      <3>2. ASSUME Submit(<< NamesJob(t) >>)
            PROVE  \A k \in Jobs : LegOf(k) \in Chains => job'[k] = job[k]
        <4>1. \A i \in DOMAIN << NamesJob(t) >> : LegOf(<< NamesJob(t) >>[i]) \notin Chains
          BY <1>0 DEF NamesJob, LegOf
        <4> QED BY <3>2, <4>1, OtherLegs
      <3> QED BY <2>1, <3>1, <3>2 DEF pool
    <2>3. UNCHANGED <<ask, at>>
      BY <1>4 DEF Gathered, GatheredAgain, GatheredLast, PickedBegin, PickedFound, stage
    <2>4. \E to \in {"again", "last", "names", "write", "end"} : pc' = [pc EXCEPT ![t] = to]
      BY <1>4 DEF Gathered, GatheredAgain, GatheredLast, PickedBegin, PickedFound, Choose
    <2>5. \A u \in Turns : /\ pc'[u] = "begin" => pc[u] = "begin"
                           /\ Going(u)' => Going(u)
      BY <2>3, <2>4 DEF Going, Placed, TypeOK
    <2> QED BY <2>2, <2>3, <2>5, ChainStill
  <1> QED BY <1>1, <1>2, <1>3, <1>4 DEF ServiceNext

LEMMA ChainGuide ==
  ASSUME Placed, Placed', ChainInv, OneAtATime, NEW t \in Turns, GuideNext(t)
  PROVE  ChainInv' /\ OneAtATime'
  <1>0. \A u \in Turns : at[u] \in Nat
    BY DEF Placed, TypeOK
  <1>1. CASE PickChip(t)
    <2>1. /\ \A u \in Turns : ask'[u].intent = ask[u].intent \/ pc[u] = "begin"
          /\ UNCHANGED <<pc, at, job>>
      BY <1>1 DEF PickChip, pool, stage, Placed, TypeOK
    <2>2. \A u \in Turns :
            /\ pc'[u] = "begin" => pc[u] = "begin"
            /\ Going(u)' => Going(u) /\ at'[u] = at[u]
            /\ at'[u] >= at[u]
            /\ ask'[u].intent = ask[u].intent \/ pc[u] = "begin"
      BY <1>0, <2>1 DEF Going
    <2>3. \A k \in Jobs : LegOf(k) \in Chains =>
            /\ Active(k)' => Active(k)
            /\ job[k] = "new" => job'[k] = "new"
      BY <2>1 DEF Active
    <2> QED BY <2>2, <2>3, ChainKept
  <1>2. CASE RecommendBegin(t) \/ RecommendFound(t) \/ RecommendFailed(t) \/ Recounted(t)
    <2>1. \/ Submit(<< ViewJob(t) >>) \/ Submit(<< RecountJob(t) >>) \/ UNCHANGED pool
      BY <1>2 DEF RecommendBegin, RecommendFound, RecommendFailed, Recounted
    <2>2. /\ \A i \in DOMAIN << ViewJob(t) >> : LegOf(<< ViewJob(t) >>[i]) \notin Chains
          /\ \A i \in DOMAIN << RecountJob(t) >> : LegOf(<< RecountJob(t) >>[i]) \notin Chains
      BY DEF ViewJob, RecountJob, LegOf, Chains
    <2>3. \A k \in Jobs : LegOf(k) \in Chains => job'[k] = job[k]
      BY <2>1, <2>2, OtherLegs DEF pool
    <2>4. UNCHANGED <<ask, at>>
      BY <1>2 DEF RecommendBegin, RecommendFound, RecommendFailed, Recounted, stage
    <2>5. \E to \in {"view", "recount", "write", "end"} : pc' = [pc EXCEPT ![t] = to]
      BY <1>2 DEF RecommendBegin, RecommendFound, RecommendFailed, Recounted
    <2>6. \A u \in Turns : /\ pc'[u] = "begin" => pc[u] = "begin"
                           /\ Going(u)' => Going(u)
      BY <2>4, <2>5 DEF Going, Placed, TypeOK
    <2> QED BY <2>3, <2>4, <2>6, ChainStill
  <1> QED BY <1>1, <1>2 DEF GuideNext

LEMMA ChainNext == Placed /\ Placed' /\ ChainInv /\ OneAtATime /\ [Next]_vars => ChainInv' /\ OneAtATime'
  <1> SUFFICES ASSUME Placed, Placed', ChainInv, OneAtATime, [Next]_vars
               PROVE  ChainInv' /\ OneAtATime'
    OBVIOUS
  <1>0. \A u \in Turns : at[u] \in Nat
    BY DEF Placed, TypeOK
  <1>1. ASSUME NEW t \in Turns, TurnNext(t)
        PROVE  ChainInv' /\ OneAtATime'
    <2>1. CASE GuideNext(t)
      BY <2>1, ChainGuide
    <2>2. CASE Talk(t) \/ Write(t)
      <3>1. UNCHANGED <<ask, at, job>> /\ \E to \in {"write", "end"} : pc' = [pc EXCEPT ![t] = to]
        BY <2>2 DEF Talk, Write, pool, stage
      <3>2. \A u \in Turns : /\ pc'[u] = "begin" => pc[u] = "begin"
                             /\ Going(u)' => Going(u)
        BY <3>1 DEF Going, Placed, TypeOK
      <3> QED BY <3>1, <3>2, ChainStill
    <2>3. CASE FacilityNext(t)
      BY <2>3, ChainFacility
    <2>4. CASE ServiceNext(t)
      BY <2>4, ChainService
    <2> QED BY <1>1, <2>1, <2>2, <2>3, <2>4 DEF TurnNext
  <1>2. CASE (\E t \in Turns : TimeUp(t)) \/ UNCHANGED vars
    <2>1. UNCHANGED <<ask, at, job, pc>>
      BY <1>2 DEF TimeUp, Expire, pool, vars, rvars
    <2>2. \A u \in Turns : /\ pc'[u] = "begin" => pc[u] = "begin"
                           /\ Going(u)' => Going(u)
      BY <2>1 DEF Going
    <2> QED BY <2>1, <2>2, ChainStill
  <1>3. CASE Start
    <2>1. UNCHANGED <<ask, at, pc>>
      BY <1>3 DEF Start, StartJob, Pipelines
    <2>2. \A u \in Turns :
            /\ pc'[u] = "begin" => pc[u] = "begin"
            /\ Going(u)' => Going(u) /\ at'[u] = at[u]
            /\ at'[u] >= at[u]
            /\ ask'[u].intent = ask[u].intent \/ pc[u] = "begin"
      BY <1>0, <2>1 DEF Going
    <2>3. \A k \in Jobs : LegOf(k) \in Chains =>
            /\ Active(k)' => Active(k)
            /\ job[k] = "new" => job'[k] = "new"
      BY <1>3 DEF Start, StartJob, Active, Placed, TypeOK
    <2> QED BY <2>2, <2>3, ChainKept
  <1> QED BY <1>1, <1>2, <1>3, ChainReturn DEF Next

\* A turn never has two facility searches, nor two of GSND, with the engine at
\* once, whatever it gives up and however many turns share the threads.
THEOREM SearchesOneAtATime == Spec => []OneAtATime
  <1>1. Init => ChainInv /\ OneAtATime
    <2> SUFFICES ASSUME Init PROVE ChainInv /\ OneAtATime
      OBVIOUS
    <2>1. \A t \in Turns : \A leg \in Chains : \A i \in 1 .. Queries :
            job[<<t, leg, i>>] = "new"
      BY ChainJobs DEF Init, RInit
    <2>2. ChainInv
      BY <2>1 DEF ChainInv, Active
    <2>3. OneAtATime
      BY <2>1, OneByOne DEF Active
    <2> QED BY <2>2, <2>3
  <1> QED BY <1>1, PlacedInit, PlacedNext, ChainNext, PTL DEF Spec

-----------------------------------------------------------------------------
(* The chips.                                                              *)

Chipped(t) == ask[t].intent = "picked chip"

\* The question of a chip, as the client sends it back.
Picking(q, p, l) ==
    [q EXCEPT !.intent = "picked chip", !.topic = l, !.ruledOut = {}, !.from = p]

\* No query of a turn that has not begun.
Fresh == \A t \in Turns : pc[t] = "begin" => \A j \in Mine(t) : job[j] = "new"

\* What is counted are the cards recommended.
CountedBy(t) ==
    \/ chips[t] = NoChips
    \/ /\ ask[t].intent = "recommend"
       /\ chips[t] = Chips(top[t]) /\ top[t] = Recommended(ask[t])
Counted == \A t \in Turns : ~ Chipped(t) => CountedBy(t)

\* The queries return the cards recommended.
Viewed ==
    \A t \in Turns :
        /\ job[ViewJob(t)] = "done" => found[ViewJob(t)] = Recommended(ask[t])
        /\ job[RecountJob(t)] = "done" =>
              found[RecountJob(t)] = Recommended([ask[t] EXCEPT !.topic = NoTopic])

\* A chip opens its cards, and then counts those of the whole question.
OpenedBy(t) ==
    /\ pc[t] \in {"begin", "view", "recount", "end"}
    /\ pc[t] = "recount" \/ reply[t] = "answer" => top[t] = Recommended(ask[t])
    /\ reply[t] = "answer" =>
          /\ Ended(RecountJob(t))
          /\ job[RecountJob(t)] = "done" =>
                chips[t] = Chips(Recommended([ask[t] EXCEPT !.topic = NoTopic]))
Opened == \A t \in Turns : Chipped(t) => OpenedBy(t)

\* A picked chip is of a turn that was answered.
Linked ==
    \A t \in Turns : Chipped(t) =>
        \E p \in Turns, l \in Labels :
            /\ reply[p] = "answer" /\ chips[p][l] > 0
            /\ ask[t] = Picking(ask[p], p, l)

ChipInv == Fresh /\ Counted /\ Viewed /\ Opened /\ Linked

\* A recommendation depends on three parts of the question.
LEMMA SameCards ==
  ASSUME NEW q, NEW r, q.life = r.life, q.ruledOut = r.ruledOut, q.topic = r.topic
  PROVE  Recommended(q) = Recommended(r)
  <1>1. \A view, life : Rows(view, q, life) = Rows(view, r, life)
    BY DEF Rows
  <1>2. Broadened(q) = Broadened(r)
    BY <1>1 DEF Broadened
  <1> QED BY <1>1, <1>2 DEF Recommended

\* Among values one comes first.
LEMMA FirstPlace ==
  ASSUME NEW values \in SUBSET SUBSET Labels, values # {}
  PROVE  \E v \in values : \A w \in values : Place[v] <= Place[w]
  <1> DEFINE places == {Place[v] : v \in values}
  <1>1. places \subseteq Nat /\ places # {} /\ \A v \in values : Place[v] \in places
    BY GuideAssumption
  <1>2. \A x \in places : \E v \in values : Place[v] = x
    OBVIOUS
  <1> HIDE DEF places
  <1>3. PICK x \in places : \A y \in places : <<y, x>> \notin OpToRel(<, Nat)
    BY <1>1, NatLessThanWellFounded, WFMin
  <1>4. PICK v \in values : Place[v] = x
    BY <1>2
  <1>5. ASSUME NEW w \in values PROVE Place[v] <= Place[w]
    <2>1. Place[w] \in Nat /\ x \in Nat
      BY <1>1
    <2>2. <<Place[w], x>> \notin OpToRel(<, Nat)
      BY <1>1, <1>3
    <2>3. ~ (Place[w] < x)
      BY <2>1, <2>2 DEF OpToRel
    <2> QED BY <1>4, <2>1, <2>3
  <1> QED BY <1>5

\* What MAX finds in a column is the value of one of the card's rows.
LEMMA MaxIsOfRow ==
  ASSUME NEW rows \in SUBSET Docs, NEW card \in Cards(rows), NEW c \in 1 .. 2
  PROVE  \E e \in rows : CardOf(e) = card /\ Value(e, c) = MaxValue(rows, card, c)
  <1> DEFINE values == {Value(d, c) : d \in {e \in rows : CardOf(e) = card}}
  <1>1. \A d \in rows : Value(d, c) \in SUBSET Labels
    BY RetrievalAssumption DEF Value, Labels
  <1>2. values \in SUBSET SUBSET Labels /\ values # {}
    BY <1>1 DEF Cards
  <1>3. MaxValue(rows, card, c) = CHOOSE v \in values : \A w \in values : Place[v] <= Place[w]
    BY DEF MaxValue
  <1>4. \A v \in values : \E e \in rows : CardOf(e) = card /\ Value(e, c) = v
    OBVIOUS
  <1> HIDE DEF values
  <1>5. MaxValue(rows, card, c) \in values
    BY <1>2, <1>3, FirstPlace
  <1> QED BY <1>4, <1>5

\* The cards of the rows that name a field are those counted under it, and those
\* that conceal it.
LEMMA CountedOrConcealed ==
  ASSUME NEW rows \in SUBSET Docs, NEW l, l # Other
  PROVE  LET drill   == {d \in rows : l \in d.fields[1] \cup d.fields[2]}
             counted == {k \in Cards(rows) : l \in Labelled(rows, k)}
         IN  /\ Cards(drill) = counted \cup Concealed(rows, l)
             /\ counted \cap Concealed(rows, l) = {}
  <1> DEFINE drill   == {d \in rows : l \in d.fields[1] \cup d.fields[2]}
             counted == {k \in Cards(rows) : l \in Labelled(rows, k)}
  <1>1. ASSUME NEW k \in Cards(drill), k \notin counted
        PROVE  k \in Concealed(rows, l)
    <2>1. PICK d \in rows : CardOf(d) = k /\ l \in d.fields[1] \cup d.fields[2]
      BY DEF Cards
    <2>2. k \in Cards(rows) /\ l \notin Labelled(rows, k)
      BY <1>1, <2>1 DEF Cards
    <2>3. PICK c \in 1 .. 2 : l \in d.fields[c]
      BY <2>1
    <2>4. PICK e \in rows : CardOf(e) = k /\ Value(e, c) = MaxValue(rows, k, c)
      BY <2>2, MaxIsOfRow
    <2>5. l \notin Value(e, c)
      BY <2>2, <2>4 DEF Labelled
    <2>6. e.fields # d.fields
      BY <2>3, <2>5 DEF Value
    <2> QED BY <2>1, <2>2, <2>4, <2>6 DEF Concealed
  <1>2. ASSUME NEW k \in counted
        PROVE  k \in Cards(drill)
    <2>1. PICK c \in 1 .. 2 : l \in MaxValue(rows, k, c)
      BY DEF Labelled
    <2>2. PICK e \in rows : CardOf(e) = k /\ Value(e, c) = MaxValue(rows, k, c)
      BY MaxIsOfRow
    <2>3. l \in e.fields[c]
      BY <2>1, <2>2 DEF Value
    <2> QED BY <2>2, <2>3 DEF Cards
  <1>3. Concealed(rows, l) \subseteq Cards(drill)
    BY DEF Concealed, Cards
  <1>4. counted \cap Concealed(rows, l) = {}
    BY DEF Concealed
  <1> QED BY <1>1, <1>2, <1>3, <1>4

\* Of the rows of a whole question, those that name a field are the rows of that
\* field: the drill-down filters as the question did.
LEMMA FieldRows ==
  ASSUME NEW q, NEW r, NEW l \in Topics, l # Other, q.topic = NoTopic, q.ruledOut = {},
         q.life \in BOOLEAN, ~ Broadened(q), r.life = q.life, r.ruledOut = {}, r.topic = l
  PROVE  Recommended(r) = {d \in Recommended(q) : l \in d.fields[1] \cup d.fields[2]}
  <1>1. ~ Broadened(r) /\ l # NoTopic
    BY RetrievalAssumption DEF Broadened, Labels
  <1>2. \A d : (\E c \in 1 .. 2 : l \in d.fields[c]) <=> l \in d.fields[1] \cup d.fields[2]
    OBVIOUS
  <1>3. ASSUME NEW view
        PROVE  Rows(view, r, r.life) =
                   {d \in Rows(view, q, q.life) : l \in d.fields[1] \cup d.fields[2]}
    BY <1>1, <1>2 DEF Rows
  <1>4. Recommended(q) = Rows("local", q, q.life) \cup Rows("central", q, q.life)
    <2>1. (q.life /\ ~ Broadened(q)) = q.life
      OBVIOUS
    <2> QED BY <2>1 DEF Recommended
  <1>5. Recommended(r) = Rows("local", r, r.life) \cup Rows("central", r, r.life)
    <2>1. (r.life /\ ~ Broadened(r)) = r.life
      BY <1>1
    <2> QED BY <2>1 DEF Recommended
  <1> QED BY <1>3, <1>4, <1>5

LEMMA ChipsHold ==
  ASSUME Placed, ChipInv
  PROVE  ChipHolds
  <1> SUFFICES ASSUME NEW t \in Turns, Chipped(t), reply[t] = "answer",
                      PickedFrom(t).topic = NoTopic, PickedFrom(t).ruledOut = {},
                      ~ Broadened(PickedFrom(t)), ask[t].topic # Other
               PROVE  /\ Cardinality(Cards(top[t])) = chips[ask[t].from][ask[t].topic]
                            + Cardinality(Concealed(top[ask[t].from], ask[t].topic))
                      /\ job[RecountJob(t)] = "done" => chips[t] = chips[ask[t].from]
    BY DEF ChipHolds, Chipped
  <1>1. PICK p \in Turns, l \in Labels :
          reply[p] = "answer" /\ chips[p][l] > 0 /\ ask[t] = Picking(ask[p], p, l)
    BY DEF ChipInv, Linked
  <1>2. ask[p] \in Questions
    BY DEF Placed, TypeOK
  <1>3. /\ ask[t].from = p /\ ask[t].topic = l /\ ask[t].ruledOut = {}
        /\ ask[t].life = ask[p].life /\ ask[p].life \in BOOLEAN
        /\ ask[t] \in Questions
    BY <1>1, <1>2 DEF Picking, Questions
  <1>4. l # Other /\ l \in Topics
    BY <1>1, <1>3 DEF Labels
  <1>5. ask[p].topic = NoTopic /\ ask[p].ruledOut = {} /\ ~ Broadened(ask[p])
    BY <1>3 DEF PickedFrom
  <1>6. chips[p] # NoChips
    BY <1>1 DEF NoChips
  <1>7. ~ Chipped(p)
    <2> SUFFICES ASSUME Chipped(p) PROVE FALSE
      OBVIOUS
    <2>1. PICK o \in Turns, k \in Labels : ask[p] = Picking(ask[o], o, k)
      BY DEF ChipInv, Linked
    <2>2. ask[o] \in Questions
      BY DEF Placed, TypeOK
    <2>3. ask[p].topic = k
      BY <2>1, <2>2 DEF Picking, Questions
    <2> QED BY <1>5, <2>3, RetrievalAssumption
  <1>8. chips[p] = Chips(top[p]) /\ top[p] = Recommended(ask[p])
    BY <1>6, <1>7 DEF ChipInv, Counted, CountedBy
  <1> DEFINE counted == {k \in Cards(top[p]) : l \in Labelled(top[p], k)}
  <1>9. top[t] = {d \in top[p] : l \in d.fields[1] \cup d.fields[2]}
    <2>1. Recommended(ask[t]) =
              {d \in Recommended(ask[p]) : l \in d.fields[1] \cup d.fields[2]}
      BY <1>3, <1>4, <1>5, FieldRows
    <2>2. top[t] = Recommended(ask[t])
      BY DEF ChipInv, Opened, OpenedBy
    <2> QED BY <1>8, <2>1, <2>2
  <1>10. chips[p][l] = Cardinality(counted)
    BY <1>8 DEF Chips
  <1>11. Cardinality(Cards(top[t])) = Cardinality(counted) + Cardinality(Concealed(top[p], l))
    <2>1. top[p] \in SUBSET Docs
      BY DEF Placed, TypeOK
    <2>2. Cards(top[t]) = counted \cup Concealed(top[p], l) /\ counted \cap Concealed(top[p], l) = {}
      BY <1>4, <1>9, <2>1, CountedOrConcealed
    <2>3. counted \in SUBSET Cards(top[p]) /\ Concealed(top[p], l) \in SUBSET Cards(top[p])
      BY DEF Concealed
    <2>4. IsFiniteSet(counted) /\ IsFiniteSet(Concealed(top[p], l))
      BY <2>1, <2>3, CardsFinite
    <2> HIDE DEF counted
    <2>5. Cardinality(counted) \in Nat /\ Cardinality(Concealed(top[p], l)) \in Nat
      BY <2>4, FS_CardinalityType
    <2> QED BY <2>2, <2>4, <2>5, FS_Union, FS_EmptySet
  <1>12. Recommended([ask[t] EXCEPT !.topic = NoTopic]) = Recommended(ask[p])
    <2> DEFINE r == [ask[t] EXCEPT !.topic = NoTopic]
    <2>1. r.life = ask[p].life /\ r.ruledOut = ask[p].ruledOut /\ r.topic = ask[p].topic
      BY <1>3, <1>5 DEF Questions
    <2> HIDE DEF r
    <2>2. Recommended(r) = Recommended(ask[p])
      BY <2>1, SameCards
    <2> QED BY <2>2 DEF r
  <1>13. job[RecountJob(t)] = "done" => chips[t] = chips[p]
    BY <1>8, <1>12 DEF ChipInv, Opened, OpenedBy
  <1> QED BY <1>3, <1>10, <1>11, <1>13

\* Jobs of its own.
Owned(t, js) == js \in Seq(Jobs) /\ \A i \in DOMAIN js : Of(js[i]) = t

LEMMA OwnLine ==
  ASSUME NEW t \in Turns, NEW leg \in Legs
  PROVE  Owned(t, Line(t, leg)) /\ Owned(t, << <<t, leg, 1>> >>) /\ Owned(t, << >>)
  <1>1. Line(t, leg) \in Seq(Jobs) /\ << <<t, leg, 1>> >> \in Seq(Jobs)
    BY LineIn, OneJobType, FirstString
  <1> QED BY <1>1 DEF Owned, Line, Of

LEMMA OwnConcat ==
  ASSUME NEW t \in Turns, NEW a, NEW b, Owned(t, a), Owned(t, b)
  PROVE  Owned(t, a \o b)
  <1>1. \A i \in DOMAIN (a \o b) : Of((a \o b)[i]) = t
    <2> SUFFICES ASSUME NEW i \in DOMAIN (a \o b) PROVE Of((a \o b)[i]) = t
      OBVIOUS
    <2>1. (\E k \in DOMAIN a : a[k] = (a \o b)[i]) \/ (\E k \in DOMAIN b : b[k] = (a \o b)[i])
      BY InConcat DEF Owned
    <2> QED BY <2>1 DEF Owned
  <1> QED BY <1>1 DEF Owned

\* A step that hands over jobs of its own, or gives some up.
Handles(t) ==
    \/ \E js : Owned(t, js) /\ Submit(js)
    \/ \E js \in SUBSET Mine(t) : GiveUp(js)
    \/ UNCHANGED pool

LEMMA HandlesOwn ==
  ASSUME Placed, NEW t \in Turns, Handles(t)
  PROVE  /\ \A j \in Jobs : Of(j) # t => job'[j] = job[j]
         /\ \A j \in Jobs : job'[j] = "done" => job[j] = "done"
         /\ found' = found
  <1>1. ASSUME NEW js, Owned(t, js), Submit(js)
        PROVE  /\ \A j \in Jobs : Of(j) # t => job'[j] = job[j]
               /\ \A j \in Jobs : job'[j] = "done" => job[j] = "done"
               /\ found' = found
    BY <1>1 DEF Owned, Submit
  <1>2. ASSUME NEW js \in SUBSET Mine(t), GiveUp(js)
        PROVE  /\ \A j \in Jobs : Of(j) # t => job'[j] = job[j]
               /\ \A j \in Jobs : job'[j] = "done" => job[j] = "done"
               /\ found' = found
    BY <1>2 DEF GiveUp, Mine
  <1>3. CASE UNCHANGED pool
    BY <1>3 DEF pool
  <1> QED BY <1>1, <1>2, <1>3 DEF Handles

\* The jobs the chips are about.
LEMMA ChipJobs ==
  ASSUME NEW t \in Turns
  PROVE  /\ ViewJob(t) \in Jobs /\ RecountJob(t) \in Jobs
         /\ Of(ViewJob(t)) = t /\ Of(RecountJob(t)) = t
         /\ LegOf(ViewJob(t)) = "view" /\ LegOf(RecountJob(t)) = "recount"
         /\ ViewJob(t) \in Mine(t) /\ RecountJob(t) \in Mine(t)
  <1>1. "view" \in Legs /\ "recount" \in Legs
    BY DEF Legs
  <1> QED BY <1>1, PartIn, FirstString DEF ViewJob, RecountJob, Mine, Of, LegOf

\* A step of a turn that has not been answered yet.
LEMMA ChipsStep ==
  ASSUME Placed, Placed', ChipInv, NEW t \in Turns, Handles(t), ask' = ask,
         pc'[t] # "begin", reply[t] # "answer",
         \A u \in Turns \ {t} : /\ pc'[u] = pc[u] /\ reply'[u] = reply[u]
                                /\ top'[u] = top[u] /\ chips'[u] = chips[u],
         ~ Chipped(t) => CountedBy(t)', Chipped(t) => OpenedBy(t)'
  PROVE  ChipInv'
  <1>1. /\ \A j \in Jobs : Of(j) # t => job'[j] = job[j]
        /\ \A j \in Jobs : job'[j] = "done" => job[j] = "done"
        /\ found' = found
    BY HandlesOwn
  <1>2. Fresh'
    BY <1>1 DEF ChipInv, Fresh, Mine
  <1>3. Counted'
    BY DEF ChipInv, Counted, CountedBy, Chipped
  <1>4. Viewed'
    BY <1>1, ChipJobs DEF ChipInv, Viewed, ViewJob, RecountJob
  <1>5. Opened'
    <2> SUFFICES ASSUME NEW u \in Turns, Chipped(u) PROVE OpenedBy(u)'
      BY DEF Opened, Chipped
    <2>1. CASE u = t
      BY <2>1
    <2>2. CASE u # t
      <3>1. OpenedBy(u) /\ job'[RecountJob(u)] = job[RecountJob(u)]
        BY <1>1, <2>2, ChipJobs DEF ChipInv, Opened
      <3>2. RecountJob(u)' = RecountJob(u)
        BY DEF RecountJob
      <3> QED BY <2>2, <3>1, <3>2 DEF OpenedBy, Ended
    <2> QED BY <2>1, <2>2
  <1>6. Linked'
    <2> SUFFICES ASSUME NEW u \in Turns, Chipped(u)
                 PROVE  \E p \in Turns, l \in Labels :
                          /\ reply'[p] = "answer" /\ chips'[p][l] > 0
                          /\ ask'[u] = Picking(ask'[p], p, l)
      BY DEF Linked, Chipped
    <2>1. PICK p \in Turns, l \in Labels :
            reply[p] = "answer" /\ chips[p][l] > 0 /\ ask[u] = Picking(ask[p], p, l)
      BY DEF ChipInv, Linked
    <2> QED BY <2>1
  <1> QED BY <1>2, <1>3, <1>4, <1>5, <1>6 DEF ChipInv

\* One that neither recommends nor opens a chip.
LEMMA ChipsKept ==
  ASSUME Placed, Placed', ChipInv, NEW t \in Turns, Handles(t), UNCHANGED <<ask, chips>>,
         pc'[t] # "begin", pc[t] # "end", ~ Chipped(t),
         ask[t].intent # "recommend" \/ top'[t] = top[t],
         \A u \in Turns \ {t} : pc'[u] = pc[u] /\ reply'[u] = reply[u] /\ top'[u] = top[u]
  PROVE  ChipInv'
  <1>1. reply[t] # "answer"
    BY DEF Placed, Routes
  <1>2. CountedBy(t)'
    BY DEF ChipInv, Counted, CountedBy
  <1> QED BY <1>1, <1>2, ChipsStep

LEMMA FacilityHandles ==
  ASSUME Placed, NEW t \in Turns, FacilityNext(t)
  PROVE  /\ Handles(t) /\ ask' = ask /\ ~ Chipped(t) /\ pc'[t] # "begin" /\ pc[t] # "end"
         /\ ask[t].intent # "recommend"
         /\ \A u \in Turns \ {t} : pc'[u] = pc[u] /\ reply'[u] = reply[u] /\ top'[u] = top[u]
  <1>1. CASE FacilityBegin(t)
    <2> DEFINE a == IF WantsTel(t) THEN Line(t, "tel") ELSE << >>
               b == IF WantsCenter(t) THEN << <<t, "center", 1>> >> ELSE << >>
    <2>1. Owned(t, a) /\ Owned(t, b)
      BY OwnLine DEF Legs
    <2>2. Submit(a \o b)
      BY <1>1 DEF FacilityBegin
    <2>3. Handles(t)
      BY <2>1, <2>2, OwnConcat DEF Handles
    <2> QED BY <1>1, <2>3 DEF FacilityBegin, Facility, Chipped, Placed, TypeOK
  <1>2. CASE CenterAnswer(t)
    <2>1. CASE t \notin late /\ at[t] < Queries
      <3>1. at[t] \in Nat /\ 1 <= at[t] /\ Queries \in Nat
        BY AtRange, QueriesPositive, TypeParts DEF Placed
      <3>2. << <<t, "center", at[t] + 1>> >> \in Seq(Jobs)
        BY <3>1, <2>1, SequentialJob DEF Sequential
      <3>3. Owned(t, << <<t, "center", at[t] + 1>> >>)
        BY <3>2 DEF Owned, Of
      <3>4. Handles(t)
        BY <1>2, <2>1, <3>3 DEF CenterAnswer, Handles
      <3> QED BY <1>2, <2>1, <3>4 DEF CenterAnswer, Facility, Chipped, Placed, TypeOK
    <2>2. CASE ~ (t \notin late /\ at[t] < Queries)
      <3>1. PICK js : AwaitTel(t, js)
        BY <1>2, <2>2 DEF CenterAnswer
      <3> QED BY <1>2, <3>1 DEF CenterAnswer, AwaitTel, LeaveStage, Handles, Facility, Chipped,
                            Placed, TypeOK
    <2> QED BY <2>1, <2>2
  <1>3. CASE CenterAbandon(t) \/ TelWake(t)
    BY <1>3 DEF CenterAbandon, TelWake, LeaveStage, Handles, Facility, Chipped, Placed, TypeOK
  <1> QED BY <1>1, <1>2, <1>3 DEF FacilityNext

LEMMA ServiceHandles ==
  ASSUME Placed, NEW t \in Turns, ServiceNext(t)
  PROVE  /\ Handles(t) /\ ask' = ask /\ ~ Chipped(t) /\ pc'[t] # "begin" /\ pc[t] # "end"
         /\ ask[t].intent # "recommend"
         /\ \A u \in Turns \ {t} : pc'[u] = pc[u] /\ reply'[u] = reply[u] /\ top'[u] = top[u]
  <1>1. CASE ServiceBegin(t)
    <2> DEFINE a == Line(t, "okms") \o Line(t, "gov")
               b == IF General(t) THEN << <<t, "gsnd", 1>> >> ELSE << >>
    <2>1. Owned(t, a) /\ Owned(t, b)
      BY OwnLine, OwnConcat DEF Legs
    <2>2. Submit(a \o b)
      BY <1>1 DEF ServiceBegin
    <2>3. Handles(t)
      BY <2>1, <2>2, OwnConcat DEF Handles
    <2> QED BY <1>1, <2>3 DEF ServiceBegin, Asking, Chipped, Placed, TypeOK
  <1>2. CASE GsndAnswer(t)
    <2>1. at[t] \in Nat /\ 1 <= at[t] /\ Queries \in Nat
      BY AtRange, QueriesPositive, TypeParts DEF Placed
    <2>2. UNCHANGED pool \/ (at[t] < Queries /\ Submit(<< <<t, "gsnd", at[t] + 1>> >>))
      BY <1>2 DEF GsndAnswer
    <2>3. at[t] < Queries => Owned(t, << <<t, "gsnd", at[t] + 1>> >>)
      BY <2>1, SequentialJob DEF Sequential, Owned, Of
    <2>4. Handles(t)
      BY <2>2, <2>3 DEF Handles
    <2> QED BY <1>2, <2>4 DEF GsndAnswer, General, Chipped, Placed, TypeOK
  <1>3. CASE GsndAbandon(t)
    <2>1. <<t, "gsnd", at[t]>> \in Mine(t)
      <3>1. at[t] \in 1 .. Queries
        BY <1>3, AtRange, TypeParts DEF GsndAbandon, Placed
      <3> QED BY <3>1, SequentialJob DEF Sequential, Mine, Of
    <2>2. Handles(t)
      BY <1>3, <2>1 DEF GsndAbandon, Handles
    <2> QED BY <1>3, <2>2 DEF GsndAbandon, General, Chipped, Placed, TypeOK
  <1>4. CASE Gathered(t) \/ GatheredAgain(t) \/ GatheredLast(t) \/ PickedBegin(t) \/ PickedFound(t)
    <2>1. \/ \E leg \in {"again", "last"} : Submit(Line(t, leg))
          \/ Submit(<< <<t, "names", 1>> >>)
          \/ UNCHANGED pool
      BY <1>4 DEF Gathered, GatheredAgain, GatheredLast, PickedBegin, PickedFound, Choose, NamesJob
    <2>2. Handles(t)
      BY <2>1, OwnLine DEF Handles, Legs
    <2>3. /\ UNCHANGED ask /\ pc[t] \in {"begin", "gather", "again", "last", "names"}
          /\ pc[t] = "begin" => Picked(t)
          /\ \E to \in {"again", "last", "names", "write", "end"} : pc' = [pc EXCEPT ![t] = to]
          /\ top' = top \/ \E docs : top' = [top EXCEPT ![t] = docs]
          /\ reply' = reply \/ \E r : reply' = [reply EXCEPT ![t] = r]
      BY <1>4 DEF Gathered, GatheredAgain, GatheredLast, PickedBegin, PickedFound, Choose
    <2>4. ~ Chipped(t) /\ ask[t].intent # "recommend"
      BY <2>3 DEF Placed, Routes, Asking, Picked, Chipped
    <2> QED BY <2>2, <2>3, <2>4 DEF Placed, TypeOK
  <1> QED BY <1>1, <1>2, <1>3, <1>4 DEF ServiceNext

\* A thread starts a search, and one comes back.
LEMMA ChipsStart ==
  ASSUME Placed, ChipInv, Start
  PROVE  ChipInv'
  <1>1. UNCHANGED <<ask, found, pc, top, reply, chips>>
    BY DEF Start, StartJob, Pipelines
  <1>2. \A j \in Jobs : job'[j] = job[j] \/ (job[j] = "queued" /\ job'[j] = "running")
    BY DEF Start, StartJob, Placed, TypeOK
  <1>3. Fresh'
    BY <1>1, <1>2 DEF ChipInv, Fresh, Mine
  <1>4. Counted'
    BY <1>1 DEF ChipInv, Counted, CountedBy, Chipped
  <1>5. Viewed'
    BY <1>1, <1>2, ChipJobs DEF ChipInv, Viewed, ViewJob, RecountJob
  <1>6. Opened'
    <2> SUFFICES ASSUME NEW u \in Turns, Chipped(u) PROVE OpenedBy(u)'
      BY <1>1 DEF Opened, Chipped
    <2>1. OpenedBy(u) /\ RecountJob(u) \in Jobs
      BY ChipJobs DEF ChipInv, Opened
    <2> QED BY <1>1, <1>2, <2>1 DEF OpenedBy, Ended, RecountJob
  <1>7. Linked'
    BY <1>1 DEF ChipInv, Linked, Chipped
  <1> QED BY <1>3, <1>4, <1>5, <1>6, <1>7 DEF ChipInv

LEMMA ChipsReturn ==
  ASSUME Placed, ChipInv, NEW j \in Jobs, Return(j)
  PROVE  ChipInv'
  <1>1. UNCHANGED <<ask, pc, top, reply, chips>> /\ j \in Running
    BY DEF Return, Query, FinishJob, RetryGsnd, MissGsnd, End, Pipelines, Running
  <1>2. \A k \in Jobs : k # j => job'[k] = job[k] /\ found'[k] = found[k]
    BY DEF Return, Query, FinishJob, RetryGsnd, MissGsnd, End, Placed, TypeOK
  <1>3. job[j] \in {"running", "retrying"}
    BY <1>1 DEF Running
  <1>4. Fresh'
    BY <1>1, <1>2, <1>3 DEF ChipInv, Fresh, Mine
  <1>5. Counted'
    BY <1>1 DEF ChipInv, Counted, CountedBy, Chipped
  <1>6. Viewed'
    <2> SUFFICES ASSUME NEW t \in Turns
                 PROVE  /\ job'[ViewJob(t)] = "done" => found'[ViewJob(t)] = Recommended(ask[t])
                        /\ job'[RecountJob(t)] = "done" =>
                              found'[RecountJob(t)] = Recommended([ask[t] EXCEPT !.topic = NoTopic])
      BY <1>1 DEF Viewed, ViewJob, RecountJob
    <2>1. /\ job[ViewJob(t)] = "done" => found[ViewJob(t)] = Recommended(ask[t])
          /\ job[RecountJob(t)] = "done" =>
                found[RecountJob(t)] = Recommended([ask[t] EXCEPT !.topic = NoTopic])
      BY DEF ChipInv, Viewed
    <2>2. CASE j = ViewJob(t)
      <3>1. LegOf(j) = "view" /\ Of(j) = t /\ RecountJob(t) # j
        BY <2>2, ChipJobs
      <3>2. Query(j)
        BY <3>1 DEF Return, FinishJob, RetryGsnd, MissGsnd
      <3>3. job' = [job EXCEPT ![j] = "raised"] \/
            (job' = [job EXCEPT ![j] = "done"] /\ found' = [found EXCEPT ![j] = Recommended(ask[t])])
        BY <3>1, <3>2 DEF Query, End
      <3>4. job'[j] = "done" => found'[j] = Recommended(ask[t])
        BY <3>3 DEF Placed, TypeOK
      <3> QED BY <1>2, <2>1, <2>2, <3>1, <3>4, ChipJobs
    <2>3. CASE j = RecountJob(t)
      <3>1. LegOf(j) = "recount" /\ Of(j) = t /\ ViewJob(t) # j
        BY <2>3, ChipJobs
      <3>2. Query(j)
        BY <3>1 DEF Return, FinishJob, RetryGsnd, MissGsnd
      <3> DEFINE cards == Recommended([ask[t] EXCEPT !.topic = NoTopic])
      <3>3. job' = [job EXCEPT ![j] = "raised"] \/
            (job' = [job EXCEPT ![j] = "done"] /\ found' = [found EXCEPT ![j] = cards])
        BY <3>1, <3>2 DEF Query, End
      <3> HIDE DEF cards
      <3>4. job'[j] = "done" => found'[j] = cards
        BY <3>3 DEF Placed, TypeOK
      <3> QED BY <1>2, <2>1, <2>3, <3>1, <3>4, ChipJobs DEF cards
    <2>4. CASE j # ViewJob(t) /\ j # RecountJob(t)
      BY <1>2, <2>1, <2>4, ChipJobs
    <2> QED BY <2>2, <2>3, <2>4
  <1>7. Opened'
    <2> SUFFICES ASSUME NEW u \in Turns, Chipped(u) PROVE OpenedBy(u)'
      BY <1>1 DEF Opened, Chipped
    <2>1. OpenedBy(u) /\ RecountJob(u) \in Jobs
      BY ChipJobs DEF ChipInv, Opened
    <2>2. Ended(RecountJob(u)) => RecountJob(u) # j
      BY <1>3 DEF Ended
    <2>3. Ended(RecountJob(u)) => job'[RecountJob(u)] = job[RecountJob(u)]
      BY <1>2, <2>1, <2>2
    <2> QED BY <1>1, <2>1, <2>3 DEF OpenedBy, Ended, RecountJob
  <1>8. Linked'
    BY <1>1 DEF ChipInv, Linked, Chipped
  <1> QED BY <1>4, <1>5, <1>6, <1>7, <1>8 DEF ChipInv

\* A chip is picked.
LEMMA ChipsPicked ==
  ASSUME Placed, ChipInv, NEW t \in Turns, PickChip(t)
  PROVE  ChipInv'
  <1>1. UNCHANGED <<pc, top, reply, chips, job, found>> /\ pc[t] = "begin"
    BY DEF PickChip, pool
  <1>2. PICK p \in Turns, l \in Labels :
          /\ reply[p] = "answer" /\ chips[p][l] > 0
          /\ ask' = [ask EXCEPT ![t] = Picking(ask[p], p, l)]
    BY DEF PickChip, Picking
  <1>3. ask'[t] = Picking(ask[p], p, l) /\ \A u \in Turns \ {t} : ask'[u] = ask[u]
    BY <1>2 DEF Placed, TypeOK
  <1>4. ask[p] \in Questions
    BY DEF Placed, TypeOK
  <1>5. ask'[t].intent = "picked chip"
    BY <1>3, <1>4 DEF Picking, Questions
  <1>6. \A u \in Turns : reply[u] = "answer" => u # t
    BY <1>1 DEF Placed, Routes
  <1>7. Fresh'
    BY <1>1 DEF ChipInv, Fresh
  <1>8. Counted'
    BY <1>1, <1>3, <1>5 DEF ChipInv, Counted, CountedBy, Chipped
  <1>9. Viewed'
    <2>1. job[ViewJob(t)] = "new" /\ job[RecountJob(t)] = "new"
      BY <1>1, ChipJobs DEF ChipInv, Fresh
    <2> QED BY <1>1, <1>3, <2>1 DEF ChipInv, Viewed, ViewJob, RecountJob
  <1>10. Opened'
    <2> SUFFICES ASSUME NEW u \in Turns, Chipped(u)' PROVE OpenedBy(u)'
      BY DEF Opened
    <2>1. CASE u = t
      BY <1>1, <1>6, <2>1 DEF OpenedBy
    <2>2. CASE u # t
      <3>1. OpenedBy(u)
        BY <1>3, <2>2 DEF Chipped, ChipInv, Opened
      <3> QED BY <1>1, <1>3, <2>2, <3>1 DEF OpenedBy, Ended, RecountJob
    <2> QED BY <2>1, <2>2
  <1>11. Linked'
    <2> SUFFICES ASSUME NEW u \in Turns, Chipped(u)'
                 PROVE  \E o \in Turns, k \in Labels :
                          /\ reply[o] = "answer" /\ chips[o][k] > 0
                          /\ ask'[u] = Picking(ask'[o], o, k)
      BY <1>1 DEF Linked
    <2>1. CASE u = t
      BY <1>2, <1>3, <1>6, <2>1
    <2>2. CASE u # t
      <3>1. PICK o \in Turns, k \in Labels :
              reply[o] = "answer" /\ chips[o][k] > 0 /\ ask[u] = Picking(ask[o], o, k)
        BY <1>3, <2>2 DEF Chipped, ChipInv, Linked
      <3> QED BY <1>3, <1>6, <2>2, <3>1
    <2> QED BY <2>1, <2>2
  <1> QED BY <1>7, <1>8, <1>9, <1>10, <1>11 DEF ChipInv

\* The steps of a recommendation.
LEMMA ChipsGuide ==
  ASSUME Placed, Placed', ChipInv, NEW t \in Turns, GuideNext(t)
  PROVE  ChipInv'
  <1>1. CASE PickChip(t)
    BY <1>1, ChipsPicked
  <1>2. CASE RecommendBegin(t)
    <2>1. Handles(t)
      <3>1. Owned(t, << ViewJob(t) >>)
        BY OwnLine DEF ViewJob, Legs
      <3> QED BY <1>2, <3>1 DEF RecommendBegin, Handles
    <2>2. /\ UNCHANGED <<ask, top, reply, chips>> /\ pc[t] = "begin"
          /\ pc' = [pc EXCEPT ![t] = "view"]
      BY <1>2 DEF RecommendBegin
    <2>3. pc'[t] = "view" /\ \A u \in Turns \ {t} : pc'[u] = pc[u]
      BY <2>2 DEF Placed, TypeOK
    <2>4. reply[t] # "answer"
      BY <2>2 DEF Placed, Routes
    <2>5. ~ Chipped(t) => CountedBy(t)'
      BY <2>2 DEF ChipInv, Counted, CountedBy
    <2>6. OpenedBy(t)'
      BY <2>2, <2>3, <2>4 DEF OpenedBy
    <2> QED BY <2>1, <2>2, <2>3, <2>4, <2>5, <2>6, ChipsStep
  <1>3. CASE RecommendFound(t)
    <2> DEFINE cards == found[ViewJob(t)]
    <2>1. cards = Recommended(ask[t])
      BY <1>3 DEF RecommendFound, ChipInv, Viewed
    <2>2. /\ ask' = ask /\ pc[t] = "view" /\ top' = [top EXCEPT ![t] = cards]
          /\ \/ /\ Chipped(t)
                /\ pc' = [pc EXCEPT ![t] = "recount"]
                /\ chips' = [chips EXCEPT ![t] = Chips(cards)]
                /\ Submit(<< RecountJob(t) >>)
                /\ UNCHANGED reply
             \/ /\ ask[t].intent = "recommend"
                /\ pc' = [pc EXCEPT ![t] = "end"]
                /\ chips' = [chips EXCEPT ![t] = Chips(cards)]
                /\ reply' = [reply EXCEPT ![t] = "answer"]
                /\ UNCHANGED pool
             \/ /\ ask[t].intent = "recommend"
                /\ pc' = [pc EXCEPT ![t] = "write"]
                /\ UNCHANGED <<chips, reply>> /\ UNCHANGED pool
      BY <1>3 DEF RecommendFound, Reply, Chipped
    <2> HIDE DEF cards
    <2>3. Handles(t)
      <3>1. Owned(t, << RecountJob(t) >>)
        BY OwnLine DEF RecountJob, Legs
      <3> QED BY <2>2, <3>1 DEF Handles
    <2>4. reply[t] = "none"
      BY <2>2 DEF Placed, Routes
    <2>5. /\ pc'[t] \in {"recount", "end", "write"}
          /\ \A u \in Turns \ {t} : /\ pc'[u] = pc[u] /\ reply'[u] = reply[u]
                                    /\ top'[u] = top[u] /\ chips'[u] = chips[u]
      BY <2>2 DEF Placed, TypeOK
    <2>6. ~ Chipped(t) => CountedBy(t)'
      <3> SUFFICES ASSUME ~ Chipped(t) PROVE CountedBy(t)'
        OBVIOUS
      <3>1. CASE chips' = [chips EXCEPT ![t] = Chips(cards)]
        <4>1. chips'[t] = Chips(cards) /\ top'[t] = cards
          BY <2>2, <3>1 DEF Placed, TypeOK
        <4> QED BY <2>1, <2>2, <4>1 DEF CountedBy, Chipped
      <3>2. CASE UNCHANGED chips
        <4>1. top'[t] = cards
          BY <2>2 DEF Placed, TypeOK
        <4> QED BY <2>1, <2>2, <3>2, <4>1 DEF ChipInv, Counted, CountedBy
      <3> QED BY <2>2, <3>1, <3>2
    <2>7. Chipped(t) => OpenedBy(t)'
      <3> SUFFICES ASSUME Chipped(t) PROVE OpenedBy(t)'
        OBVIOUS
      <3>1. pc' = [pc EXCEPT ![t] = "recount"] /\ reply' = reply
        BY <2>2 DEF Chipped
      <3>2. pc'[t] = "recount" /\ top'[t] = cards /\ reply'[t] = "none"
        BY <2>2, <2>4, <3>1 DEF Placed, TypeOK
      <3> QED BY <2>1, <2>2, <3>2 DEF OpenedBy
    <2> QED BY <2>2, <2>3, <2>4, <2>5, <2>6, <2>7, ChipsStep
  <1>4. CASE RecommendFailed(t)
    <2>1. /\ UNCHANGED <<ask, top, chips>> /\ UNCHANGED pool /\ pc[t] = "view"
          /\ pc' = [pc EXCEPT ![t] = "end"] /\ reply' = [reply EXCEPT ![t] = "failed"]
      BY <1>4 DEF RecommendFailed, Reply
    <2>2. /\ pc'[t] = "end" /\ reply'[t] = "failed"
          /\ \A u \in Turns \ {t} : pc'[u] = pc[u] /\ reply'[u] = reply[u]
      BY <2>1 DEF Placed, TypeOK
    <2>3. reply[t] # "answer"
      BY <2>1 DEF Placed, Routes
    <2>4. ~ Chipped(t) => CountedBy(t)'
      BY <2>1 DEF ChipInv, Counted, CountedBy
    <2>5. OpenedBy(t)'
      BY <2>2 DEF OpenedBy
    <2>6. Handles(t)
      BY <2>1 DEF Handles
    <2> QED BY <2>1, <2>2, <2>3, <2>4, <2>5, <2>6, ChipsStep
  <1>5. CASE Recounted(t)
    <2>1. /\ UNCHANGED <<ask, top>> /\ UNCHANGED pool /\ pc[t] = "recount"
          /\ pc' = [pc EXCEPT ![t] = "end"] /\ reply' = [reply EXCEPT ![t] = "answer"]
          /\ Ended(RecountJob(t))
          /\ chips' = IF job[RecountJob(t)] = "done"
                      THEN [chips EXCEPT ![t] = Chips(found[RecountJob(t)])]
                      ELSE chips
      BY <1>5 DEF Recounted, Reply
    <2>2. /\ pc'[t] = "end" /\ reply'[t] = "answer"
          /\ \A u \in Turns \ {t} : /\ pc'[u] = pc[u] /\ reply'[u] = reply[u]
                                    /\ chips'[u] = chips[u]
          /\ job[RecountJob(t)] = "done" => chips'[t] = Chips(found[RecountJob(t)])
      BY <2>1 DEF Placed, TypeOK
    <2>3. reply[t] # "answer" /\ Chipped(t)
      BY <2>1 DEF Placed, Routes, Chipped
    <2>4. OpenedBy(t)'
      <3>1. top[t] = Recommended(ask[t])
        BY <2>1, <2>3 DEF ChipInv, Opened, OpenedBy
      <3>2. job[RecountJob(t)] = "done" =>
              found[RecountJob(t)] = Recommended([ask[t] EXCEPT !.topic = NoTopic])
        BY DEF ChipInv, Viewed
      <3>3. job' = job /\ RecountJob(t)' = RecountJob(t)
        BY <2>1 DEF pool, RecountJob
      <3>4. Ended(RecountJob(t))'
        BY <2>1, <3>3 DEF Ended
      <3>5. job'[RecountJob(t)'] = "done" =>
              chips'[t] = Chips(Recommended([ask'[t] EXCEPT !.topic = NoTopic]))
        BY <2>1, <2>2, <3>2, <3>3
      <3> QED BY <2>1, <2>2, <3>1, <3>4, <3>5 DEF OpenedBy
    <2>5. Handles(t)
      BY <2>1 DEF Handles
    <2> QED BY <2>1, <2>2, <2>3, <2>4, <2>5, ChipsStep
  <1> QED BY <1>1, <1>2, <1>3, <1>4, <1>5 DEF GuideNext

LEMMA ChipsNext == Placed /\ Placed' /\ ChipInv /\ [Next]_vars => ChipInv'
  <1> SUFFICES ASSUME Placed, Placed', ChipInv, [Next]_vars PROVE ChipInv'
    OBVIOUS
  <1>1. ASSUME NEW t \in Turns, TurnNext(t) PROVE ChipInv'
    <2>1. CASE GuideNext(t)
      BY <2>1, ChipsGuide
    <2>2. CASE (Talk(t) \/ Write(t)) /\ UNCHANGED chips
      <3>1. /\ UNCHANGED <<ask, top>> /\ UNCHANGED pool /\ pc[t] \in {"begin", "write"}
            /\ pc[t] = "begin" => ask[t].intent = "talk"
            /\ \E to \in {"write", "end"} : pc' = [pc EXCEPT ![t] = to]
            /\ reply' = reply \/ \E r : reply' = [reply EXCEPT ![t] = r]
        BY <2>2 DEF Talk, Write
      <3>2. ~ Chipped(t)
        BY <3>1 DEF ChipInv, Opened, OpenedBy, Chipped
      <3>3. Handles(t)
        BY <3>1 DEF Handles
      <3>4. /\ pc'[t] # "begin" /\ pc[t] # "end"
            /\ \A u \in Turns \ {t} : pc'[u] = pc[u] /\ reply'[u] = reply[u] /\ top'[u] = top[u]
        BY <3>1 DEF Placed, TypeOK
      <3> QED BY <2>2, <3>1, <3>2, <3>3, <3>4, ChipsKept
    <2>3. CASE FacilityNext(t) /\ UNCHANGED chips
      BY <2>3, FacilityHandles, ChipsKept
    <2>4. CASE ServiceNext(t) /\ UNCHANGED chips
      BY <2>4, ServiceHandles, ChipsKept
    <2> QED BY <1>1, <2>1, <2>2, <2>3, <2>4 DEF TurnNext
  <1>2. CASE (\E t \in Turns : TimeUp(t)) \/ UNCHANGED vars
    <2>1. UNCHANGED <<ask, job, found, pc, top, reply, chips>>
      BY <1>2 DEF TimeUp, Expire, pool, vars, rvars
    <2>2. Fresh' /\ Viewed'
      BY <2>1 DEF ChipInv, Fresh, Viewed, ViewJob, RecountJob
    <2>3. Counted'
      BY <2>1 DEF ChipInv, Counted, CountedBy, Chipped
    <2>4. Opened'
      <3> SUFFICES ASSUME NEW u \in Turns, Chipped(u) PROVE OpenedBy(u)'
        BY <2>1 DEF Opened, Chipped
      <3>1. OpenedBy(u)
        BY DEF ChipInv, Opened
      <3> QED BY <2>1, <3>1 DEF OpenedBy, Ended, RecountJob
    <2>5. Linked'
      BY <2>1 DEF ChipInv, Linked, Chipped
    <2> QED BY <2>2, <2>3, <2>4, <2>5 DEF ChipInv
  <1> QED BY <1>1, <1>2, ChipsStart, ChipsReturn DEF Next

LEMMA ChipsInit == Init => ChipInv
  <1> SUFFICES ASSUME Init PROVE ChipInv
    OBVIOUS
  <1>1. /\ \A j \in Jobs : job[j] = "new"
        /\ \A t \in Turns : pc[t] = "begin" /\ reply[t] = "none" /\ chips[t] = NoChips
    BY DEF Init, RInit
  <1>2. Fresh /\ Counted
    BY <1>1 DEF Fresh, Counted, CountedBy, Mine
  <1>3. Viewed
    BY <1>1, ChipJobs DEF Viewed
  <1>4. Opened
    BY <1>1 DEF Opened, OpenedBy
  <1>5. ASSUME NEW t \in Turns PROVE ~ Chipped(t)
    <2>1. ask \in Asks
      BY DEF Init, RInit
    <2> QED BY <2>1, AskedAssumption DEF Chipped
  <1>6. Linked
    BY <1>5 DEF Linked
  <1> QED BY <1>2, <1>3, <1>4, <1>6 DEF ChipInv

\* A chip of a broad question opens the cards it counted and, beyond them, those
\* of which a row names the field and another row, with other fields, gave the
\* label; whatever the rows, the order of their texts, the questions and the order
\* in which the queries come back (_build_local, _build_gov).
THEOREM ChipsOpenAllTheyCount == Spec => []ChipHolds
  <1> QED BY ChipsInit, PlacedInit, PlacedNext, ChipsNext, ChipsHold, PTL DEF Spec

-----------------------------------------------------------------------------
(* The apology.                                                            *)

\* What a turn has received, and results that brought nothing.
Pulled(t) == taken \cap Mine(t)
Bare(js) == \A j \in js : found[j] = {}

\* How far a general question has come with its searches: what it has
\* received at each stage is over, and a stage is left empty-handed.
Searching(t) ==
    /\ \A j \in Pulled(t) : Ended(j)
    /\ pc[t] \in {"begin", "gather"} => Pulled(t) \subseteq Part(t, "gsnd")
    /\ pc[t] = "again" =>
          /\ Welfare(t) \subseteq taken /\ Bare(Welfare(t))
          /\ Pulled(t) \subseteq Welfare(t) \cup Part(t, "gsnd")
    /\ pc[t] = "last" =>
          /\ Welfare(t) \cup Part(t, "again") \subseteq taken /\ Bare(Pulled(t))
          /\ Pulled(t) \subseteq Welfare(t) \cup Part(t, "gsnd") \cup Part(t, "again")
    /\ reply[t] = "apology" =>
          /\ Bare(Pulled(t))
          /\ Welfare(t) \cup Part(t, "again") \cup Part(t, "last") \subseteq taken

SearchInv ==
    \A t \in Turns : /\ General(t) => Searching(t)
                     /\ pc[t] = "last" \/ reply[t] = "apology" => General(t)

\* Collecting nothing is receiving nothing from every search.
LEMMA GotBare ==
  ASSUME NEW js
  PROVE  Got(js) = {} <=> Bare(js)
  BY DEF Got, Bare

\* The cut of a list that holds something holds something: the document with
\* the fewest weightier ones has none.
LEMMA TopByNone ==
  ASSUME NEW docs, docs \subseteq Docs, NEW n \in Nat \ {0}, TopBy(docs, n) = {}
  PROVE  docs = {}
  <1> SUFFICES ASSUME docs # {} PROVE FALSE
    OBVIOUS
  <1> DEFINE Over(d) == {e \in docs : e.weight > d.weight}
             sizes == {Cardinality(Over(d)) : d \in docs}
  <1>1. IsFiniteSet(docs)
    BY FS_Subset, RetrievalAssumption
  <1>2. ASSUME NEW d \in docs
        PROVE  IsFiniteSet(Over(d)) /\ Cardinality(Over(d)) \in Nat
    <2>1. Over(d) \in SUBSET docs
      OBVIOUS
    <2> QED BY <1>1, <2>1, FS_Subset, FS_CardinalityType
  <1>3. sizes \subseteq Nat /\ sizes # {}
    BY <1>2
  <1>4. PICK m \in sizes : \A k \in sizes : <<k, m>> \notin OpToRel(<, Nat)
    <2> HIDE DEF sizes
    <2> QED BY <1>3, NatLessThanWellFounded, WFMin
  <1>5. PICK d \in docs : m = Cardinality(Over(d))
    BY <1>4
  <1>6. CASE Over(d) = {}
    <2>1. m = 0
      BY <1>5, <1>6, FS_EmptySet
    <2>2. d \in TopBy(docs, n)
      BY <1>5, <2>1 DEF TopBy
    <2> QED BY <2>2
  <1>7. ASSUME NEW e \in Over(d) PROVE FALSE
    <2>1. /\ d \in Docs /\ e \in Docs /\ e \in docs
          /\ e.weight > d.weight /\ e.weight \in Nat /\ d.weight \in Nat
      BY RetrievalAssumption
    <2>2. \A f \in docs : f.weight \in Nat
      BY RetrievalAssumption
    <2>3. Over(e) \in SUBSET Over(d) /\ e \notin Over(e) /\ e \in Over(d)
      BY <2>1, <2>2
    <2>4. Cardinality(Over(e)) \in sizes /\ Cardinality(Over(e)) \in Nat
      BY <1>2, <2>1
    <2>5. Cardinality(Over(e)) < Cardinality(Over(d))
      <3>1. /\ Cardinality(Over(e)) <= Cardinality(Over(d))
            /\ Cardinality(Over(d)) = Cardinality(Over(e)) => Over(d) = Over(e)
        <4> HIDE DEF Over
        <4> QED BY <1>2, <2>3, FS_Subset
      <3>2. Over(d) # Over(e)
        <4> HIDE DEF Over
        <4> QED BY <2>3
      <3> HIDE DEF Over
      <3> QED BY <1>2, <2>1, <2>4, <3>1, <3>2
    <2>6. <<Cardinality(Over(e)), m>> \in OpToRel(<, Nat)
      <3> HIDE DEF Over
      <3> QED BY <1>2, <1>5, <2>4, <2>5 DEF OpToRel
    <2> QED BY <1>4, <2>4, <2>6
  <1> QED BY <1>6, <1>7

\* The searches of a general question are its own, and of different legs.
LEMMA GeneralJobs ==
  ASSUME NEW t \in Turns
  PROVE  /\ \A leg \in {"okms", "gov", "gsnd", "again", "last"} :
               Part(t, leg) \subseteq Mine(t) /\ \A j \in Part(t, leg) : LegOf(j) = leg
         /\ Welfare(t) \subseteq Mine(t)
         /\ \A j \in Welfare(t) : LegOf(j) \in {"okms", "gov"}
  <1>1. {"okms", "gov", "gsnd", "again", "last"} \subseteq Legs
    BY DEF Legs
  <1>2. ASSUME NEW leg \in {"okms", "gov", "gsnd", "again", "last"}
        PROVE  Part(t, leg) \subseteq Mine(t) /\ \A j \in Part(t, leg) : LegOf(j) = leg
    BY <1>1, PartIn DEF Mine
  <1> QED BY <1>2 DEF Welfare

\* A turn that has received nothing new, and goes nowhere but to its answer.
LEMMA SearchingStays ==
  ASSUME NEW t \in Turns, Searching(t), Pulled(t)' = Pulled(t),
         pc'[t] = pc[t] \/ pc'[t] \in {"write", "end"},
         reply'[t] = reply[t] \/ reply'[t] # "apology",
         \A j \in Pulled(t) : job'[j] = job[j] /\ found'[j] = found[j]
  PROVE  Searching(t)'
  <1>1. \A j \in Pulled(t)' : Ended(j)'
    BY DEF Searching, Ended
  <1>2. Bare(Pulled(t)) => Bare(Pulled(t))'
    BY DEF Bare
  <1>3. ASSUME NEW j, j \in Mine(t) PROVE j \in taken' <=> j \in taken
    BY <1>3 DEF Pulled, Mine
  <1>4. ASSUME NEW js, js \subseteq Mine(t)
        PROVE  (js \subseteq taken <=> js \subseteq taken') 
    BY <1>3, <1>4
  <1>5. Welfare(t) \subseteq taken /\ Bare(Welfare(t)) => Bare(Welfare(t))'
    BY GeneralJobs DEF Bare, Pulled, Welfare, Part, Strings
  <1>6. /\ Welfare(t) \subseteq taken => Welfare(t) \subseteq taken'
        /\ Part(t, "again") \subseteq taken => Part(t, "again") \subseteq taken'
        /\ Part(t, "last") \subseteq taken => Part(t, "last") \subseteq taken'
    BY <1>4, GeneralJobs
  <1>7. pc'[t] \in {"begin", "gather", "again", "last"} => pc'[t] = pc[t]
    OBVIOUS
  <1>8. /\ Welfare(t)' = Welfare(t)
        /\ \A leg : Part(t, leg)' = Part(t, leg)
    BY DEF Welfare, Part, Strings
  <1>9. pc'[t] = "again" =>
          /\ Welfare(t) \subseteq taken' /\ Bare(Welfare(t))'
          /\ Pulled(t)' \subseteq Welfare(t) \cup Part(t, "gsnd")
    BY <1>5, <1>6, <1>7 DEF Searching
  <1>10. pc'[t] = "last" =>
          /\ Welfare(t) \cup Part(t, "again") \subseteq taken' /\ Bare(Pulled(t))'
          /\ Pulled(t)' \subseteq Welfare(t) \cup Part(t, "gsnd") \cup Part(t, "again")
    BY <1>2, <1>6, <1>7 DEF Searching
  <1>11. reply'[t] = "apology" =>
          /\ Bare(Pulled(t))'
          /\ Welfare(t) \cup Part(t, "again") \cup Part(t, "last") \subseteq taken'
    BY <1>2, <1>6 DEF Searching
  <1>12. pc'[t] \in {"begin", "gather"} => Pulled(t)' \subseteq Part(t, "gsnd")
    BY <1>7 DEF Searching
  <1> QED BY <1>1, <1>8, <1>9, <1>10, <1>11, <1>12 DEF Searching

\* A turn only receives results of its own, and keeps what it received.
Receives(t) == \E js \in SUBSET Mine(t) : taken' = taken \cup js

LEMMA FacilityReceives ==
  ASSUME Placed, NEW t \in Turns, FacilityNext(t)
  PROVE  Receives(t)
  <1>1. Part(t, "tel") \subseteq Mine(t)
    BY PartIn DEF Legs, Mine
  <1>2. CASE CenterAnswer(t)
    <2>1. at[t] \in Nat /\ 1 <= at[t] /\ at[t] <= Queries
      BY <1>2, AtRange, TypeParts DEF CenterAnswer, Placed, Routes
    <2>2. <<t, "center", at[t]>> \in Mine(t)
      BY <2>1, SequentialJob DEF Sequential, Mine, Of
    <2>3. taken' = taken \cup {<<t, "center", at[t]>>}
      BY <1>2 DEF CenterAnswer, AwaitTel, LeaveStage
    <2> QED BY <2>2, <2>3 DEF Receives
  <1>3. CASE TelWake(t)
    <2>1. taken' = taken \cup {j \in Part(t, "tel") : Ended(j)}
      BY <1>3 DEF TelWake, LeaveStage
    <2> QED BY <1>1, <2>1 DEF Receives
  <1>4. CASE FacilityBegin(t) \/ CenterAbandon(t)
    <2>1. taken' = taken \cup {}
      BY <1>4 DEF FacilityBegin, CenterAbandon, LeaveStage, stage
    <2> QED BY <2>1 DEF Receives
  <1> QED BY <1>2, <1>3, <1>4 DEF FacilityNext

LEMMA ServiceReceives ==
  ASSUME Placed, NEW t \in Turns, ServiceNext(t)
  PROVE  Receives(t)
  <1>1. CASE GsndAnswer(t)
    <2>1. at[t] \in Nat /\ 1 <= at[t] /\ at[t] <= Queries
      BY <1>1, AtRange, TypeParts DEF GsndAnswer, Placed
    <2>2. <<t, "gsnd", at[t]>> \in Mine(t)
      BY <2>1, SequentialJob DEF Sequential, Mine, Of
    <2> QED BY <1>1, <2>2 DEF GsndAnswer, Receives
  <1>2. CASE Gathered(t) \/ GatheredAgain(t) \/ GatheredLast(t)
    BY <1>2, GeneralJobs DEF Gathered, GatheredAgain, GatheredLast, Receives
  <1>3. CASE PickedFound(t)
    <2>1. NamesJob(t) \in Mine(t)
      BY PartIn, FirstString DEF NamesJob, Legs, Mine
    <2> QED BY <1>3, <2>1 DEF PickedFound, Receives
  <1>4. CASE ServiceBegin(t) \/ GsndAbandon(t) \/ PickedBegin(t)
    <2>1. taken' = taken \cup {}
      BY <1>4 DEF ServiceBegin, GsndAbandon, PickedBegin, stage
    <2> QED BY <2>1 DEF Receives
  <1> QED BY <1>1, <1>2, <1>3, <1>4 DEF ServiceNext

LEMMA GuideReceives ==
  ASSUME Placed, NEW t \in Turns, GuideNext(t)
  PROVE  Receives(t)
  <1>1. taken' \in {taken \cup {}, taken \cup {ViewJob(t)}, taken \cup {RecountJob(t)}}
    BY DEF GuideNext, PickChip, RecommendBegin, RecommendFound, RecommendFailed, Recounted, stage
  <1> QED BY <1>1, ChipJobs DEF Receives

\* What a recommendation does to the threads.
LEMMA GuideHandles ==
  ASSUME NEW t \in Turns, GuideNext(t)
  PROVE  Handles(t)
  <1>1. Submit(<< ViewJob(t) >>) \/ Submit(<< RecountJob(t) >>) \/ UNCHANGED pool
    BY DEF GuideNext, PickChip, RecommendBegin, RecommendFound, RecommendFailed, Recounted
  <1> QED BY <1>1, OwnLine DEF Handles, ViewJob, RecountJob, Legs

\* A step of one turn leaves the searches of the others alone.
LEMMA SearchingOther ==
  ASSUME Placed, NEW t \in Turns, Handles(t), Receives(t), NEW u \in Turns \ {t}, Searching(u),
         pc'[u] = pc[u], reply'[u] = reply[u]
  PROVE  Searching(u)'
  <1>1. Pulled(u)' = Pulled(u)
    BY DEF Receives, Pulled, Mine
  <1>2. \A j \in Pulled(u) : job'[j] = job[j] /\ found'[j] = found[j]
    BY HandlesOwn DEF Pulled, Mine
  <1> QED BY <1>1, <1>2, SearchingStays

\* Handing over jobs that are no results yet changes no result.
LEMMA SubmitKeeps ==
  ASSUME Placed, NEW js, Submit(js), NEW old, old \subseteq Jobs,
         \A i \in DOMAIN js : js[i] \notin old
  PROVE  \A j \in old : job'[j] = job[j] /\ found'[j] = found[j]
  BY DEF Submit

LEMMA LineLegs ==
  ASSUME NEW t \in Turns, NEW leg \in Legs
  PROVE  \A i \in DOMAIN Line(t, leg) : LegOf(Line(t, leg)[i]) = leg
  BY DEF Line, LegOf

\* The searches of a general question come back, one by one or together.
LEMMA SearchingGsnd ==
  ASSUME Placed, ChainInv, NEW t \in Turns, General(t), Searching(t),
         GsndAnswer(t) \/ GsndAbandon(t)
  PROVE  Searching(t)'
  <1>1. /\ UNCHANGED <<ask, pc, reply>> /\ pc[t] = "gather" /\ reply[t] = "none"
        /\ at[t] \in Nat /\ 1 <= at[t] /\ at[t] <= Queries
    BY AtRange, TypeParts DEF GsndAnswer, GsndAbandon, Placed, Routes, TypeOK
  <1> DEFINE j == <<t, "gsnd", at[t]>>
  <1>2. j \in Part(t, "gsnd") /\ j \in Jobs
    BY <1>1, ChainJobs DEF Chains
  <1>3. Pulled(t) \subseteq Part(t, "gsnd") /\ \A k \in Pulled(t) : Ended(k)
    BY <1>1 DEF Searching
  <1>4. /\ Pulled(t)' \subseteq Pulled(t) \cup {j}
        /\ j \in Pulled(t)' => j \in Pulled(t) \/ Ended(j)
    BY DEF GsndAnswer, GsndAbandon, Pulled, Mine
  <1>5. \A k \in Jobs : Ended(k) => job'[k] = job[k]
    <2>1. CASE GsndAnswer(t)
      <3>1. CASE UNCHANGED pool
        BY <3>1 DEF pool
      <3>2. CASE at[t] < Queries /\ Submit(<< <<t, "gsnd", at[t] + 1>> >>)
        <4>1. at[t] + 1 \in 1 .. Queries /\ at[t] + 1 > at[t]
          BY <1>1, <3>2, QueriesPositive
        <4>2. job[<<t, "gsnd", at[t] + 1>>] = "new"
          BY <4>1 DEF ChainInv, Chains
        <4> QED BY <3>2, <4>2 DEF Submit, Ended
      <3> QED BY <2>1, <3>1, <3>2 DEF GsndAnswer
    <2>2. CASE GsndAbandon(t)
      BY <2>2 DEF GsndAbandon, GiveUp, Ended
    <2> QED BY <2>1, <2>2
  <1>6. \A k \in Pulled(t)' : Ended(k)'
    <2>1. \A k \in Pulled(t)' : Ended(k) /\ k \in Jobs
      BY <1>2, <1>3, <1>4 DEF Pulled, Mine
    <2> QED BY <1>5, <2>1 DEF Ended
  <1>7. Pulled(t)' \subseteq Part(t, "gsnd")
    BY <1>2, <1>3, <1>4
  <1>8. Part(t, "gsnd")' = Part(t, "gsnd")
    BY DEF Part, Strings
  <1> QED BY <1>1, <1>6, <1>7, <1>8 DEF Searching

LEMMA SearchingGathered ==
  ASSUME Placed, NEW t \in Turns, General(t), Searching(t), Gathered(t)
  PROVE  Searching(t)' /\ pc'[t] # "last" /\ reply'[t] # "apology"
  <1> DEFINE js == taken \cup Welfare(t)
  <1>1. /\ UNCHANGED <<ask, reply>> /\ pc[t] = "gather" /\ reply[t] = "none" /\ taken' = js
        /\ AllEnded(Welfare(t)) /\ ~ Guide(t)
    BY DEF Gathered, Placed, Routes, TypeOK, General, Guide
  <1>2. Pulled(t) \subseteq Part(t, "gsnd") /\ \A k \in Pulled(t) : Ended(k)
    BY <1>1 DEF Searching
  <1>3. Pulled(t)' = Pulled(t) \cup Welfare(t)
    BY <1>1, GeneralJobs DEF Pulled, Mine
  <1>4. js \subseteq Jobs /\ js \cap Welfare(t) = Welfare(t)
    BY ReceivedType, TypeParts DEF Placed, Legs
  <1>5. Okms(t, js) = TopBy(Got(Welfare(t)), OkmsTop) /\ Got(Welfare(t)) \subseteq Docs
    <2>1. Welfare(t) \subseteq Jobs
      BY GeneralJobs DEF Mine
    <2> QED BY <1>1, <1>4, <2>1, GotType, TypeParts DEF Okms, Placed
  <1>6. /\ \A k \in Pulled(t)' : Ended(k) /\ k \in Jobs /\ LegOf(k) \in {"okms", "gov", "gsnd"}
        /\ Pulled(t)' \subseteq Welfare(t) \cup Part(t, "gsnd")
    BY <1>1, <1>2, <1>3, GeneralJobs DEF AllEnded, Mine
  <1>7. Part(t, "gsnd")' = Part(t, "gsnd") /\ Welfare(t)' = Welfare(t)
    BY DEF Part, Strings, Welfare
  <1>8. CASE Few(t, Okms(t, js))
    <2>1. Bare(Welfare(t))
      <3>1. TopBy(Got(Welfare(t)), OkmsTop) = {}
        BY <1>1, <1>5, <1>8 DEF Few
      <3> QED BY <1>5, <3>1, TopByNone, GotBare, CutAssumption
    <2>2. Submit(Line(t, "again")) /\ pc' = [pc EXCEPT ![t] = "again"]
      BY <1>8 DEF Gathered
    <2>3. \A i \in DOMAIN Line(t, "again") : LegOf(Line(t, "again")[i]) = "again"
      BY LineLegs DEF Legs
    <2>4. \A k \in Pulled(t)' : job'[k] = job[k]
      BY <1>6, <2>2, <2>3 DEF Submit
    <2>5. found' = found
      BY <2>2 DEF Submit
    <2>6. pc'[t] = "again"
      BY <2>2 DEF Placed, TypeOK
    <2>7. \A k \in Pulled(t)' : Ended(k)'
      BY <1>6, <2>4 DEF Ended
    <2>8. Bare(Welfare(t))'
      BY <1>7, <2>1, <2>5 DEF Bare
    <2> QED BY <1>1, <1>6, <1>7, <2>6, <2>7, <2>8 DEF Searching
  <1>9. CASE ~ Few(t, Okms(t, js))
    <2>1. Choose(t, js, Okms(t, js))
      BY <1>9 DEF Gathered
    <2>2. \A docs \in Chosen(t, js, Okms(t, js)) : docs # {}
      BY <1>1, <1>9 DEF Chosen, Few
    <2>3. UNCHANGED pool /\ pc' = [pc EXCEPT ![t] = "write"]
      BY <2>1, <2>2 DEF Choose
    <2>4. pc'[t] = "write"
      BY <2>3 DEF Placed, TypeOK
    <2>5. \A k \in Pulled(t)' : Ended(k)'
      BY <1>6, <2>3 DEF Ended, pool
    <2> QED BY <1>1, <2>4, <2>5 DEF Searching
  <1> QED BY <1>8, <1>9

LEMMA SearchingAgain ==
  ASSUME Placed, NEW t \in Turns, General(t), Searching(t), GatheredAgain(t)
  PROVE  Searching(t)' /\ reply'[t] # "apology"
  <1> DEFINE js == taken \cup Part(t, "again")
             again == OkmsAgain(t, js)
             side == TopBy(Got(js \cap Part(t, "gsnd")), GsndTop)
  <1>1. /\ UNCHANGED <<ask, reply>> /\ pc[t] = "again" /\ reply[t] = "none" /\ taken' = js
        /\ AllEnded(Part(t, "again")) /\ ~ Guide(t) /\ Choose(t, js, again)
    BY DEF GatheredAgain, Placed, Routes, TypeOK, General, Guide
  <1>2. /\ Pulled(t) \subseteq Welfare(t) \cup Part(t, "gsnd") /\ \A k \in Pulled(t) : Ended(k)
        /\ Welfare(t) \subseteq taken /\ Bare(Welfare(t))
    BY <1>1 DEF Searching
  <1>3. Pulled(t)' = Pulled(t) \cup Part(t, "again")
    BY <1>1, GeneralJobs DEF Pulled, Mine
  <1>4. /\ \A k \in Pulled(t)' : Ended(k) /\ k \in Jobs /\ LegOf(k) \in {"okms", "gov", "gsnd", "again"}
        /\ Pulled(t)' \subseteq Welfare(t) \cup Part(t, "gsnd") \cup Part(t, "again")
    BY <1>1, <1>2, <1>3, GeneralJobs DEF AllEnded, Mine
  <1>5. /\ \A leg : Part(t, leg)' = Part(t, leg)
        /\ Welfare(t)' = Welfare(t)
    BY DEF Part, Strings, Welfare
  <1>6. PICK docs \in Chosen(t, js, again) :
          IF General(t) /\ docs = {}
          THEN Submit(Line(t, "last")) /\ pc' = [pc EXCEPT ![t] = "last"]
          ELSE UNCHANGED pool /\ pc' = [pc EXCEPT ![t] = "write"]
    BY <1>1 DEF Choose
  <1>7. docs = again \cup side
    BY <1>1, <1>6 DEF Chosen
  <1>8. CASE docs = {}
    <2>1. js \subseteq Jobs /\ \A leg : Got(js \cap Part(t, leg)) \subseteq Docs
      <3>1. js \subseteq Jobs
        BY ReceivedType, TypeParts DEF Placed, Legs
      <3> QED BY <3>1, GotType, TypeParts DEF Placed
    <2>2. Okms(t, js) \subseteq Docs
      BY <2>1, OkmsIn
    <2>3. Bare(Part(t, "again"))
      <3>1. TopBy(Okms(t, js) \cup Got(js \cap Part(t, "again")), OkmsTop) = {}
        BY <1>1, <1>7, <1>8 DEF OkmsAgain
      <3>2. Got(js \cap Part(t, "again")) = {}
        BY <2>1, <2>2, <3>1, TopByNone, CutAssumption
      <3>3. js \cap Part(t, "again") = Part(t, "again")
        OBVIOUS
      <3> QED BY <3>2, <3>3, GotBare
    <2>4. Bare(js \cap Part(t, "gsnd"))
      BY <1>7, <1>8, <2>1, TopByNone, GotBare, CutAssumption
    <2>5. Submit(Line(t, "last")) /\ pc' = [pc EXCEPT ![t] = "last"]
      BY <1>6, <1>8
    <2>6. \A i \in DOMAIN Line(t, "last") : LegOf(Line(t, "last")[i]) = "last"
      BY LineLegs DEF Legs
    <2>7. \A k \in Pulled(t)' : job'[k] = job[k]
      BY <1>4, <2>5, <2>6 DEF Submit
    <2>8. found' = found
      BY <2>5 DEF Submit
    <2>9. pc'[t] = "last"
      BY <2>5 DEF Placed, TypeOK
    <2>10. \A k \in Pulled(t)' : Ended(k)'
      BY <1>4, <2>7 DEF Ended
    <2>11. Bare(Pulled(t))'
      <3>1. \A k \in Pulled(t)' : k \in Welfare(t) \/ k \in js \cap Part(t, "gsnd") \/ k \in Part(t, "again")
        BY <1>1, <1>4 DEF Pulled
      <3> QED BY <1>2, <2>3, <2>4, <2>8, <3>1 DEF Bare
    <2>12. Welfare(t) \cup Part(t, "again") \subseteq taken'
      BY <1>1, <1>2
    <2> QED BY <1>1, <1>4, <1>5, <2>9, <2>10, <2>11, <2>12 DEF Searching
  <1>9. CASE docs # {}
    <2>1. UNCHANGED pool /\ pc' = [pc EXCEPT ![t] = "write"]
      BY <1>6, <1>9
    <2>2. pc'[t] = "write"
      BY <2>1 DEF Placed, TypeOK
    <2>3. \A k \in Pulled(t)' : Ended(k)'
      BY <1>4, <2>1 DEF Ended, pool
    <2> QED BY <1>1, <2>2, <2>3 DEF Searching
  <1> QED BY <1>8, <1>9

LEMMA SearchingLast ==
  ASSUME Placed, NEW t \in Turns, General(t), Searching(t), GatheredLast(t)
  PROVE  Searching(t)' /\ pc'[t] # "last"
  <1> DEFINE docs == TopBy(Got(Part(t, "last")), OkmsTop)
  <1>1. /\ UNCHANGED ask /\ UNCHANGED pool /\ pc[t] = "last" /\ reply[t] = "none"
        /\ taken' = taken \cup Part(t, "last") /\ AllEnded(Part(t, "last"))
    BY DEF GatheredLast, Placed, Routes, TypeOK
  <1>2. /\ \A k \in Pulled(t) : Ended(k)
        /\ Welfare(t) \cup Part(t, "again") \subseteq taken /\ Bare(Pulled(t))
    BY <1>1 DEF Searching
  <1>3. Pulled(t)' = Pulled(t) \cup Part(t, "last")
    BY <1>1, GeneralJobs DEF Pulled, Mine
  <1>4. \A k \in Pulled(t)' : Ended(k)'
    BY <1>1, <1>2, <1>3 DEF AllEnded, Ended, pool
  <1>5. /\ \A leg : Part(t, leg)' = Part(t, leg)
        /\ Welfare(t)' = Welfare(t)
    BY DEF Part, Strings, Welfare
  <1>6. CASE docs = {}
    <2>1. pc' = [pc EXCEPT ![t] = "end"]
      BY <1>6 DEF GatheredLast
    <2>2. Part(t, "last") \subseteq Jobs
      BY GeneralJobs DEF Mine
    <2>3. Got(Part(t, "last")) \subseteq Docs
      BY <2>2, GotType, TypeParts DEF Placed
    <2>4. Bare(Part(t, "last"))
      BY <1>6, <2>3, TopByNone, GotBare, CutAssumption
    <2>5. Bare(Pulled(t))'
      BY <1>1, <1>2, <1>3, <2>4 DEF Bare, pool
    <2>6. Welfare(t) \cup Part(t, "again") \cup Part(t, "last") \subseteq taken'
      BY <1>1, <1>2
    <2>7. pc'[t] = "end"
      BY <2>1 DEF Placed, TypeOK
    <2> QED BY <1>4, <1>5, <2>5, <2>6, <2>7 DEF Searching
  <1>7. CASE docs # {}
    <2>1. pc' = [pc EXCEPT ![t] = "write"] /\ reply' = reply
      BY <1>7 DEF GatheredLast
    <2>2. pc'[t] = "write"
      BY <2>1 DEF Placed, TypeOK
    <2> QED BY <1>1, <1>4, <2>1, <2>2 DEF Searching
  <1> QED BY <1>6, <1>7

LEMMA SearchingService ==
  ASSUME Placed, ChainInv, Fresh, NEW t \in Turns, General(t), Searching(t), ServiceNext(t)
  PROVE  Searching(t)'
  <1>1. CASE ServiceBegin(t)
    <2>1. /\ pc[t] = "begin" /\ UNCHANGED <<reply, taken>> /\ pc'[t] = "gather" /\ reply[t] = "none"
      BY <1>1 DEF ServiceBegin, stage, Placed, Routes, TypeOK
    <2>2. Pulled(t) = {}
      BY <2>1 DEF Fresh, Searching, Pulled, Ended
    <2>3. Pulled(t)' = {}
      BY <2>1, <2>2 DEF Pulled, Mine
    <2> QED BY <2>1, <2>3 DEF Searching
  <1>2. CASE PickedBegin(t) \/ PickedFound(t)
    BY <1>2 DEF PickedBegin, PickedFound, Placed, Routes, Picked, General
  <1> QED BY <1>1, <1>2, SearchingGsnd, SearchingGathered, SearchingAgain, SearchingLast DEF ServiceNext

\* A step of the turn itself.
LEMMA SearchingTurn ==
  ASSUME Placed, ChainInv, Fresh, NEW t \in Turns, General(t), Searching(t), TurnNext(t)
  PROVE  Searching(t)'
  <1>1. ~ Recommending(t) /\ ask[t].intent = "general"
    BY DEF General, Recommending
  <1>2. CASE GuideNext(t)
    BY <1>1, <1>2 DEF GuideNext, PickChip, RecommendBegin, RecommendFound, RecommendFailed,
                      Recounted, Placed, Routes
  <1>3. CASE Talk(t) \/ FacilityNext(t)
    BY <1>1, <1>3 DEF Talk, FacilityNext, FacilityBegin, CenterAnswer, CenterAbandon, TelWake,
                      Facility
  <1>4. CASE Write(t)
    <2>1. /\ UNCHANGED pool /\ UNCHANGED stage
          /\ \E r \in {"answer", "failed"} : reply' = [reply EXCEPT ![t] = r]
          /\ pc' = [pc EXCEPT ![t] = "end"]
      BY <1>4 DEF Write
    <2>2. pc'[t] = "end" /\ reply'[t] # "apology"
      BY <2>1 DEF Placed, TypeOK
    <2>3. Pulled(t)' = Pulled(t)
      BY <2>1 DEF Pulled, Mine, stage
    <2> QED BY <2>1, <2>2, <2>3, SearchingStays DEF pool
  <1>5. CASE ServiceNext(t)
    BY <1>5, SearchingService
  <1> QED BY <1>2, <1>3, <1>4, <1>5 DEF TurnNext

\* Where a step of a turn may leave it, and that it is about that turn alone.
LEMMA TurnAlone ==
  ASSUME Placed, SearchInv, NEW t \in Turns, TurnNext(t)
  PROVE  /\ Handles(t) /\ Receives(t)
         /\ \A u \in Turns \ {t} : pc'[u] = pc[u] /\ reply'[u] = reply[u] /\ ask'[u] = ask[u]
         /\ General(t)' => General(t)
         /\ pc'[t] = "last" \/ reply'[t] = "apology" => General(t) /\ ask' = ask
  <1>1. CASE GuideNext(t)
    <2>1. Handles(t) /\ Receives(t)
      BY <1>1, GuideHandles, GuideReceives
    <2>2. /\ pc' = pc \/ \E to \in {"view", "recount", "end", "write"} : pc' = [pc EXCEPT ![t] = to]
          /\ reply' = reply \/ \E r \in {"answer", "failed"} : reply' = [reply EXCEPT ![t] = r]
          /\ ask' = ask \/ \E q : ask' = [ask EXCEPT ![t] = q] /\ q.intent = "picked chip"
      <3>1. CASE PickChip(t)
        <4>1. PICK p \in Turns, l \in Labels :
                ask' = [ask EXCEPT ![t] = [ask[p] EXCEPT !.intent = "picked chip", !.topic = l,
                                                         !.ruledOut = {}, !.from = p]]
          BY <3>1 DEF PickChip
        <4> DEFINE q == [ask[p] EXCEPT !.intent = "picked chip", !.topic = l,
                                       !.ruledOut = {}, !.from = p]
        <4>2. ask[p] \in Questions
          BY DEF Placed, TypeOK
        <4>3. q.intent = "picked chip"
          BY <4>2 DEF Questions
        <4> QED BY <3>1, <4>1, <4>3 DEF PickChip
      <3>2. CASE RecommendBegin(t) \/ RecommendFound(t) \/ RecommendFailed(t) \/ Recounted(t)
        BY <3>2 DEF RecommendBegin, RecommendFound, RecommendFailed, Recounted, Reply
      <3> QED BY <1>1, <3>1, <3>2 DEF GuideNext
    <2>3. ~ (pc[t] = "last" \/ reply[t] = "apology")
      <3>1. pc[t] \in {"begin", "view", "recount"}
        BY <1>1 DEF GuideNext, PickChip, RecommendBegin, RecommendFound, RecommendFailed, Recounted
      <3> QED BY <3>1 DEF Placed, Routes
    <2>4. /\ pc'[t] # "last" /\ reply'[t] # "apology"
          /\ \A u \in Turns \ {t} : pc'[u] = pc[u] /\ reply'[u] = reply[u] /\ ask'[u] = ask[u]
      BY <2>2, <2>3 DEF Placed, TypeOK
    <2>5. General(t)' => General(t)
      BY <2>2 DEF General, Placed, TypeOK
    <2> QED BY <2>1, <2>4, <2>5
  <1>2. CASE (Talk(t) \/ Write(t)) /\ UNCHANGED chips
    <2>1. /\ ask' = ask /\ UNCHANGED pool /\ UNCHANGED stage /\ pc[t] # "end"
          /\ \E to \in {"write", "end"} : pc' = [pc EXCEPT ![t] = to]
          /\ reply' = reply \/ \E r \in {"answer", "failed"} : reply' = [reply EXCEPT ![t] = r]
      BY <1>2 DEF Talk, Write
    <2>2. taken' = taken \cup {}
      BY <2>1 DEF stage
    <2>3. Handles(t) /\ Receives(t)
      BY <2>1, <2>2 DEF Handles, Receives
    <2> QED BY <2>1, <2>3 DEF Placed, TypeOK, Routes, General
  <1>3. CASE FacilityNext(t)
    <2>1. /\ ask' = ask /\ reply' = reply
          /\ pc' = pc \/ \E to \in {"center", "tel", "write"} : pc' = [pc EXCEPT ![t] = to]
      BY <1>3 DEF FacilityNext, FacilityBegin, CenterAnswer, CenterAbandon, TelWake, AwaitTel,
                  LeaveStage
    <2>2. pc'[t] # "last" /\ reply'[t] # "apology"
      <3>1. reply[t] # "apology" /\ pc[t] # "last"
        BY <1>3, FacilityHandles DEF Placed, Routes, FacilityNext, FacilityBegin, CenterAnswer,
                                     CenterAbandon, TelWake
      <3> QED BY <2>1, <3>1 DEF Placed, TypeOK
    <2>3. Handles(t) /\ Receives(t)
      BY <1>3, FacilityHandles, FacilityReceives
    <2>4. \A u \in Turns \ {t} : pc'[u] = pc[u] /\ reply'[u] = reply[u] /\ ask'[u] = ask[u]
      BY <2>1 DEF Placed, TypeOK
    <2> QED BY <2>1, <2>2, <2>3, <2>4 DEF General
  <1>4. CASE ServiceNext(t)
    <2>1. /\ Handles(t) /\ Receives(t) /\ ask' = ask
          /\ \A u \in Turns \ {t} : pc'[u] = pc[u] /\ reply'[u] = reply[u]
      BY <1>4, ServiceHandles, ServiceReceives
    <2>2. pc'[t] = "last" \/ reply'[t] = "apology" => General(t)
      <3>1. CASE GatheredLast(t)
        BY <3>1 DEF GatheredLast, SearchInv
      <3>2. CASE GatheredAgain(t) \/ Gathered(t)
        BY <3>2 DEF GatheredAgain, Gathered, Choose, SearchInv, Placed, TypeOK
      <3>3. CASE ServiceBegin(t) \/ GsndAnswer(t) \/ GsndAbandon(t) \/ PickedBegin(t) \/ PickedFound(t)
        BY <3>3 DEF ServiceBegin, GsndAnswer, GsndAbandon, PickedBegin, PickedFound, SearchInv,
                    Placed, TypeOK
      <3> QED BY <1>4, <3>1, <3>2, <3>3 DEF ServiceNext
    <2> QED BY <2>1, <2>2 DEF General
  <1> QED BY <1>1, <1>2, <1>3, <1>4 DEF TurnNext

LEMMA SearchNext ==
    Placed /\ ChainInv /\ Fresh /\ SearchInv /\ [Next]_vars => SearchInv'
  <1> SUFFICES ASSUME Placed, ChainInv, Fresh, SearchInv, [Next]_vars PROVE SearchInv'
    OBVIOUS
  <1>1. ASSUME NEW t \in Turns, TurnNext(t) PROVE SearchInv'
    <2> SUFFICES ASSUME NEW u \in Turns
                 PROVE  /\ General(u)' => Searching(u)'
                        /\ pc'[u] = "last" \/ reply'[u] = "apology" => General(u)'
      BY DEF SearchInv
    <2>1. CASE u = t
      <3>1. General(t)' => Searching(t)'
        BY <1>1, TurnAlone, SearchingTurn DEF SearchInv
      <3>2. pc'[t] = "last" \/ reply'[t] = "apology" => General(t)'
        BY <1>1, TurnAlone DEF General
      <3> QED BY <2>1, <3>1, <3>2
    <2>2. CASE u # t
      <3>1. /\ Handles(t) /\ Receives(t) /\ u \in Turns \ {t}
            /\ pc'[u] = pc[u] /\ reply'[u] = reply[u] /\ ask'[u] = ask[u]
        BY <1>1, <2>2, TurnAlone
      <3>2. General(u)' <=> General(u)
        BY <3>1 DEF General
      <3> QED BY <3>1, <3>2, SearchingOther DEF SearchInv
    <2> QED BY <2>1, <2>2
  <1>2. ASSUME UNCHANGED Pipelines,
               \A j \in Jobs : Ended(j) => job'[j] = job[j] /\ found'[j] = found[j]
        PROVE  SearchInv'
    <2> SUFFICES ASSUME NEW u \in Turns
                 PROVE  /\ General(u)' => Searching(u)'
                        /\ pc'[u] = "last" \/ reply'[u] = "apology" => General(u)'
      BY DEF SearchInv
    <2>1. UNCHANGED <<ask, pc, reply, taken>>
      BY <1>2 DEF Pipelines
    <2>2. Pulled(u)' = Pulled(u) /\ (General(u)' <=> General(u))
      BY <2>1 DEF Pulled, Mine, General
    <2>3. Searching(u) => \A j \in Pulled(u) : job'[j] = job[j] /\ found'[j] = found[j]
      BY <1>2 DEF Searching, Pulled, Mine
    <2> QED BY <2>1, <2>2, <2>3, SearchingStays DEF SearchInv, General
  <1>3. CASE Start
    <2>1. \A j \in Jobs : Ended(j) => job'[j] = job[j] /\ found'[j] = found[j]
      BY <1>3 DEF Start, StartJob, Ended
    <2> QED BY <1>2, <1>3, <2>1 DEF Start, StartJob
  <1>4. ASSUME NEW k \in Jobs, Return(k) PROVE SearchInv'
    <2>1. UNCHANGED Pipelines /\ k \in Running
      BY <1>4 DEF Return, Query, FinishJob, RetryGsnd, MissGsnd, End, Running
    <2>2. \A j \in Jobs : j # k => job'[j] = job[j] /\ found'[j] = found[j]
      BY <1>4 DEF Return, Query, FinishJob, RetryGsnd, MissGsnd, End, Placed, TypeOK
    <2>3. ~ Ended(k)
      BY <2>1 DEF Running, Ended
    <2> QED BY <1>2, <2>1, <2>2, <2>3
  <1>5. CASE (\E t \in Turns : TimeUp(t)) \/ UNCHANGED vars
    <2>1. UNCHANGED <<ask, job, found, pc, taken, reply>>
      BY <1>5 DEF TimeUp, Expire, pool, vars, rvars
    <2> SUFFICES ASSUME NEW u \in Turns
                 PROVE  /\ General(u)' => Searching(u)'
                        /\ pc'[u] = "last" \/ reply'[u] = "apology" => General(u)'
      BY DEF SearchInv
    <2>2. Pulled(u)' = Pulled(u) /\ (General(u)' <=> General(u))
      BY <2>1 DEF Pulled, Mine, General
    <2> QED BY <2>1, <2>2, SearchingStays DEF SearchInv, General
  <1> QED BY <1>1, <1>3, <1>4, <1>5 DEF Next

\* "No answer could be found" is only said when no search of the turn brought
\* anything and none was left out, however many turns share the threads and
\* however the lists are cut.
THEOREM ApologizesLast == Spec => []ApologyLast
  <1>1. Init => ChainInv /\ OneAtATime /\ Fresh /\ SearchInv
    <2> SUFFICES ASSUME Init PROVE ChainInv /\ OneAtATime /\ Fresh /\ SearchInv
      OBVIOUS
    <2>1. /\ \A j \in Jobs : job[j] = "new"
          /\ \A t \in Turns : pc[t] = "begin" /\ reply[t] = "none"
          /\ taken = {}
      BY DEF Init, RInit
    <2>2. ChainInv /\ OneAtATime
      <3>1. \A t \in Turns : \A leg \in Chains : \A i \in 1 .. Queries : job[<<t, leg, i>>] = "new"
        BY <2>1, ChainJobs
      <3> QED BY <3>1, OneByOne DEF ChainInv, Active
    <2>3. Fresh /\ SearchInv
      BY <2>1 DEF Fresh, SearchInv, Searching, Pulled, Mine
    <2> QED BY <2>2, <2>3
  <1>2. SearchInv => ApologyLast
    <2> SUFFICES ASSUME SearchInv, NEW t \in Turns, reply[t] = "apology"
                 PROVE  /\ Got(taken \cap Mine(t)) = {}
                        /\ \A leg \in {"okms", "gov", "again", "last"} : Part(t, leg) \subseteq taken
      BY DEF ApologyLast
    <2>1. Searching(t)
      BY DEF SearchInv
    <2>2. Got(Pulled(t)) = {}
      BY <2>1, GotBare DEF Searching
    <2> QED BY <2>1, <2>2 DEF Searching, Pulled, Welfare
  <1>3. Init => ChipInv
    BY ChipsInit
  <1>4. ChipInv => Fresh
    BY DEF ChipInv
  <1> QED BY <1>1, <1>2, <1>3, <1>4, PlacedInit, PlacedNext, ChainNext, ChipsNext, SearchNext, PTL DEF Spec
=============================================================================
