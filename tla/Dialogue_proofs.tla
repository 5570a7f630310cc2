--------------------------- MODULE Dialogue_proofs ---------------------------
(***************************************************************************)
(* What holds of the decisions of a turn for any regions, texts, limits    *)
(* and rewritings: the counters recounted from the stored messages agree   *)
(* with what the user was asked, up to lost saves.                         *)
(***************************************************************************)
EXTENDS Dialogue, TLAPS

\* Every region question of the chat mode is stored or lost.
AskedIsStored == asked <= row.asks + lost

\* The stored topic questions are the rounds put, a lost one apart.
SeenIsStored == 1 .. row.topics \subseteq seen /\ seen \subseteq 1 .. row.topics + 1

\* A region typed in a stored turn of the chat mode is found in the history.
ToldIsNamed == told => row.named # {}

\* From the early check to the search the answer's regions are the filters.
Decided ==
    /\ pc \in {"guide", "chip"} => mode \notin {"chat", "plain"}
    /\ pc \in {"topic", "rewrite", "outside", "late", "search"} /\
       mode \in {"chat", "plain"} /\ Clarifying /\ typed.regions # {} =>
           filters = typed.regions

DialogueInv == TypeOK /\ AskedIsStored /\ SeenIsStored /\ ToldIsNamed /\ Decided

-----------------------------------------------------------------------------
\* The operators a turn is built from.

LEMMA NothingIsText == Nothing \in Texts
  BY DEF Nothing, Texts

LEMMA FixedIsMessage == \A kind \in Kinds : Fixed(kind) \in Message(Kinds) /\ Fixed(kind).kind = kind
  BY DEF Fixed, Message

LEMMA WrittenIsMessage ==
    \A kind \in Kinds : \A answer \in Written(kind) :
        answer \in Message(Kinds) /\ answer.kind = kind
  BY DEF Written, Message

\* Regions are only searched that the province has.
LEMMA SigunType ==
    ASSUME TypeOK, NEW t \in Texts
    PROVE  CheckSigun(t) \in SUBSET Regions
  <1>1. t.regions \in SUBSET Regions /\ t.place \in SUBSET Regions
    BY DEF Texts
  <1>2. row.named \in SUBSET Regions /\ row.last.region \in Regions \cup {NoRegion}
    BY DEF TypeOK, Rows, Message
  <1>3. History(t) \in SUBSET Regions /\ FromAnswer \in SUBSET Regions
    BY <1>1, <1>2 DEF History, FromAnswer, TypeOK, Texts
  <1> QED
    BY <1>1, <1>3 DEF CheckSigun

\* Regions that the text names are the ones that are searched.
LEMMA SigunNamed == \A t \in Texts : t.regions # {} => CheckSigun(t) = t.regions
  BY DEF CheckSigun

\* A user who has named a region is not asked for one.
LEMMA SigunRemembers ==
    ASSUME NEW t, CheckSigun(t) = {}
    PROVE  row.named = {}
  <1>1. History(t) = {}
    BY DEF CheckSigun
  <1> QED
    BY <1>1 DEF History

\* The answer of AskRegion, and that its question is within the limit.
LEMMA RegionReply ==
    ASSUME TypeOK, DialogueAssumption, NEW t \in Texts
    PROVE  /\ RegionQuestion(t) \in Message(Kinds)
           /\ RegionQuestion(t).kind = "region"
  <1>1. t.place \in SUBSET Regions
    BY DEF Texts
  <1>2. t.place # {} => (CHOOSE r \in t.place : TRUE) \in Regions
    BY <1>1
  <1> QED
    BY <1>2 DEF RegionQuestion, Message, Kinds

LEMMA StoredType ==
    ASSUME TypeOK, DialogueAssumption, NEW t \in Texts, NEW answer \in Message(Kinds),
           answer.kind = "region" => ~Enough
    PROVE  /\ Stored(t, answer) \in Rows
           /\ Stored(t, answer).named = row.named \cup t.regions
           /\ Stored(t, answer).asks =
                  IF answer.kind = "region" THEN row.asks + 1 ELSE row.asks
           /\ Stored(t, answer).topics =
                  IF answer.kind = "topic" /\ row.topics < Rounds
                  THEN row.topics + 1 ELSE row.topics
  <1>1. /\ row.length \in 0 .. 4 /\ row.asks \in 0 .. MaxAsks /\ row.topics \in 0 .. Rounds
        /\ row.named \in SUBSET Regions /\ MaxAsks \in Nat /\ Rounds \in Nat
    BY DEF TypeOK, Rows, DialogueAssumption
  <1>2. AtMost(row.length + 2, 4) \in 0 .. 4
    BY <1>1 DEF AtMost
  <1>3. row.asks + (IF answer.kind = "region" THEN 1 ELSE 0) \in 0 .. MaxAsks
    BY <1>1 DEF Enough
  <1>4. AtMost(row.topics + (IF answer.kind = "topic" THEN 1 ELSE 0), Rounds) =
            IF answer.kind = "topic" /\ row.topics < Rounds THEN row.topics + 1 ELSE row.topics
    BY <1>1 DEF AtMost
  <1>5. AtMost(row.topics + (IF answer.kind = "topic" THEN 1 ELSE 0), Rounds) \in 0 .. Rounds
    BY <1>1, <1>4
  <1>6. AsStored(answer) \in Message(StoredKinds)
    BY DEF AsStored, Message, StoredKinds
  <1>7. row.named \cup t.regions \in SUBSET Regions
    BY <1>1 DEF Texts
  <1> QED
    BY <1>1, <1>2, <1>3, <1>4, <1>5, <1>6, <1>7 DEF Stored, Rows

-----------------------------------------------------------------------------
\* The ways a step of a turn ends.

LEMMA NextRound ==
    ASSUME NEW n \in Nat, NEW S, 1 .. n \subseteq S, S \subseteq 1 .. n + 1
    PROVE  /\ 1 .. n \subseteq S \cup {n + 1} /\ S \cup {n + 1} \subseteq 1 .. n + 1
           /\ 1 .. n + 1 \subseteq S \cup {n + 1} /\ S \cup {n + 1} \subseteq 1 .. (n + 1) + 1
           /\ \A m \in S : 1 .. m \subseteq S
  <1>1. \A m \in 1 .. n + 1 : m \in 1 .. n \/ m = n + 1
    OBVIOUS
  <1>2. 1 .. n + 1 \subseteq 1 .. (n + 1) + 1 /\ n + 1 \in 1 .. n + 1
    OBVIOUS
  <1>3. 1 .. n + 1 \subseteq S \cup {n + 1}
    BY <1>1
  <1>4. ASSUME NEW m \in S, NEW k \in 1 .. m
        PROVE  k \in S
    <2>1. m \in 1 .. n + 1
      OBVIOUS
    <2>2. k = m \/ k \in 1 .. n
      BY <2>1
    <2> QED
      BY <2>2
  <1> QED
    BY <1>2, <1>3, <1>4

LEMMA TypeIdle ==
    ASSUME DialogueInv, Forgotten, pc' = "idle"
    PROVE  /\ pc' = "idle" /\ mode' \in Modes \cup {"none"}
           /\ typed' \in Texts /\ query' \in Texts /\ filters' \in SUBSET Regions
           /\ Decided'
  BY NothingIsText DEF Forgotten, Decided

LEMMA CountedKeeps ==
    ASSUME DialogueInv, DialogueAssumption, NEW answer \in Message(Kinds), Counted(answer)
    PROVE  /\ seen' \in SUBSET (1 .. Rounds + 1) /\ asked' \in Nat /\ streak' \in Nat
           /\ asked' <= (IF mode = "chat" /\ answer.kind = "region" THEN asked + 1 ELSE asked)
           /\ seen' = IF answer.kind = "topic" THEN seen \cup {row.topics + 1} ELSE seen
  <1>1. /\ row.topics \in 0 .. Rounds /\ asked \in Nat /\ streak \in Nat /\ Rounds \in Nat
        /\ seen \in SUBSET (1 .. Rounds + 1)
    BY DEF DialogueInv, TypeOK, Rows, DialogueAssumption
  <1>2. Round = row.topics + 1
    BY <1>1 DEF Round, AtMost
  <1>3. row.topics + 1 \in 1 .. Rounds + 1
    BY <1>1
  <1>4. seen' = IF answer.kind = "topic" THEN seen \cup {row.topics + 1} ELSE seen
    BY <1>2 DEF Counted
  <1>5. seen' \in SUBSET (1 .. Rounds + 1)
    BY <1>1, <1>3, <1>4
  <1>6. asked' \in Nat /\ streak' \in Nat
    BY <1>1 DEF Counted
  <1>7. asked' <= (IF mode = "chat" /\ answer.kind = "region" THEN asked + 1 ELSE asked)
    BY <1>1 DEF Counted
  <1> QED
    BY <1>4, <1>5, <1>6, <1>7

LEMMA EndStoredKeeps ==
    ASSUME DialogueInv, DialogueAssumption, NEW answer \in Message(Kinds), EndStored(answer),
           answer.kind = "region" => ~Enough
    PROVE  DialogueInv'
  <1>1. /\ Forgotten /\ pc' = "idle" /\ reply' = answer.kind /\ Counted(answer)
    BY DEF EndStored
  <1>2. /\ pc' = "idle" /\ mode' \in Modes \cup {"none"}
        /\ typed' \in Texts /\ query' \in Texts /\ filters' \in SUBSET Regions
        /\ Decided'
    BY <1>1, TypeIdle
  <1>3. /\ seen' \in SUBSET (1 .. Rounds + 1) /\ asked' \in Nat /\ streak' \in Nat
        /\ asked' <= (IF mode = "chat" /\ answer.kind = "region" THEN asked + 1 ELSE asked)
        /\ seen' = IF answer.kind = "topic" THEN seen \cup {row.topics + 1} ELSE seen
    BY <1>1, CountedKeeps
  <1>4. reply' \in Kinds
    BY <1>1 DEF Message
  <1>5. StoredText \in Texts /\ (mode = "chat" => StoredText = typed)
    BY DEF StoredText, DialogueInv, TypeOK
  <1>6. /\ Stored(StoredText, answer) \in Rows
        /\ Stored(StoredText, answer).named = row.named \cup StoredText.regions
        /\ Stored(StoredText, answer).asks =
               IF answer.kind = "region" THEN row.asks + 1 ELSE row.asks
        /\ Stored(StoredText, answer).topics =
               IF answer.kind = "topic" /\ row.topics < Rounds
               THEN row.topics + 1 ELSE row.topics
    BY <1>5, StoredType DEF DialogueInv
  <1>7. /\ row.topics \in 0 .. Rounds /\ row.asks \in Nat /\ asked \in Nat /\ lost \in 0 .. MaxLost
        /\ Rounds \in Nat /\ MaxLost \in Nat /\ told \in BOOLEAN /\ row \in Rows
        /\ MaxAsks \in Nat
    BY DEF DialogueInv, TypeOK, Rows, DialogueAssumption
  <1>8. \/ /\ row' = Stored(StoredText, answer) /\ lost' = lost
           /\ told' = (told \/ (mode = "chat" /\ typed.regions # {}))
        \/ lost < MaxLost /\ lost' = lost + 1 /\ row' = row /\ told' = told
    BY DEF EndStored
  <1>9. row' \in Rows /\ lost' \in 0 .. MaxLost
    BY <1>6, <1>7, <1>8
  <1>10. told' \in BOOLEAN
    BY <1>7, <1>8
  <1>11. TypeOK'
    BY <1>2, <1>3, <1>4, <1>9, <1>10 DEF TypeOK
  <1>12. AskedIsStored'
    <2>1. asked <= row.asks + lost
      BY DEF DialogueInv, AskedIsStored
    <2>2. CASE row' = Stored(StoredText, answer) /\ lost' = lost
      <3>1. row'.asks = IF answer.kind = "region" THEN row.asks + 1 ELSE row.asks
        BY <2>2, <1>6
      <3> QED
        BY <3>1, <2>1, <2>2, <1>3, <1>7 DEF AskedIsStored
    <2>3. CASE lost' = lost + 1 /\ row' = row
      BY <2>1, <2>3, <1>3, <1>7 DEF AskedIsStored
    <2> QED
      BY <2>2, <2>3, <1>8
  <1>13. SeenIsStored'
    <2>0. row.topics \in Nat
      BY <1>7
    <2>1. 1 .. row.topics \subseteq seen /\ seen \subseteq 1 .. row.topics + 1
      BY DEF DialogueInv, SeenIsStored
    <2>2. row'.topics \in {row.topics, row.topics + 1}
      BY <1>6, <1>8
    <2>3. row'.topics = row.topics + 1 => answer.kind = "topic"
      BY <1>6, <1>7, <1>8
    <2>4. CASE row'.topics = row.topics + 1
      <3>1. seen' = seen \cup {row.topics + 1}
        BY <2>3, <2>4, <1>3
      <3>2. 1 .. row.topics + 1 \subseteq seen' /\ seen' \subseteq 1 .. (row.topics + 1) + 1
        BY <3>1, <2>1, <2>0, NextRound
      <3> QED
        BY <3>2, <2>4 DEF SeenIsStored
    <2>5. CASE row'.topics = row.topics
      <3>1. 1 .. row.topics \subseteq seen' /\ seen' \subseteq 1 .. row.topics + 1
        BY <2>1, <2>0, <1>3, NextRound
      <3> QED
        BY <3>1, <2>5 DEF SeenIsStored
    <2> QED
      BY <2>2, <2>4, <2>5
  <1>14. ToldIsNamed'
    <2>1. CASE /\ row' = Stored(StoredText, answer)
               /\ told' = (told \/ (mode = "chat" /\ typed.regions # {}))
      <3>1. row'.named = row.named \cup StoredText.regions
        BY <2>1, <1>6
      <3> QED
        BY <3>1, <2>1, <1>5 DEF ToldIsNamed, DialogueInv
    <2>2. CASE row' = row /\ told' = told
      BY <2>2 DEF ToldIsNamed, DialogueInv
    <2> QED
      BY <2>1, <2>2, <1>8
  <1> QED
    BY <1>2, <1>11, <1>12, <1>13, <1>14 DEF DialogueInv

LEMMA EndUnstoredKeeps ==
    ASSUME DialogueInv, DialogueAssumption, NEW answer \in Message(Kinds), EndUnstored(answer),
           answer.kind = "region" => mode # "chat"
    PROVE  DialogueInv'
  <1>1. /\ Forgotten /\ pc' = "idle" /\ reply' = answer.kind /\ Counted(answer)
        /\ row' = row /\ lost' = lost /\ told' = told
    BY DEF EndUnstored
  <1>2. /\ pc' = "idle" /\ mode' \in Modes \cup {"none"}
        /\ typed' \in Texts /\ query' \in Texts /\ filters' \in SUBSET Regions
        /\ Decided'
    BY <1>1, TypeIdle
  <1>3. /\ seen' \in SUBSET (1 .. Rounds + 1) /\ asked' \in Nat /\ streak' \in Nat
        /\ asked' <= (IF mode = "chat" /\ answer.kind = "region" THEN asked + 1 ELSE asked)
        /\ seen' = IF answer.kind = "topic" THEN seen \cup {row.topics + 1} ELSE seen
    BY <1>1, CountedKeeps
  <1>4. reply' \in Kinds
    BY <1>1 DEF Message
  <1>5. TypeOK'
    BY <1>1, <1>2, <1>3, <1>4 DEF TypeOK, DialogueInv
  <1>6. /\ row.topics \in Nat /\ row.asks \in Nat /\ asked \in Nat /\ lost \in Nat
    BY DEF DialogueInv, TypeOK, Rows, DialogueAssumption
  <1>7. AskedIsStored'
    <2>1. asked <= row.asks + lost
      BY DEF DialogueInv, AskedIsStored
    <2>2. asked' <= asked
      BY <1>3
    <2> QED
      BY <2>1, <2>2, <1>1, <1>3, <1>6 DEF AskedIsStored
  <1>8. SeenIsStored'
    <2>1. 1 .. row.topics \subseteq seen /\ seen \subseteq 1 .. row.topics + 1
      BY DEF DialogueInv, SeenIsStored
    <2>2. 1 .. row.topics \subseteq seen' /\ seen' \subseteq 1 .. row.topics + 1
      BY <2>1, <1>3, <1>6, NextRound
    <2> QED
      BY <2>2, <1>1 DEF SeenIsStored
  <1>9. ToldIsNamed'
    BY <1>1 DEF ToldIsNamed, DialogueInv
  <1> QED
    BY <1>2, <1>5, <1>7, <1>8, <1>9 DEF DialogueInv

LEMMA EndWithKeeps ==
    ASSUME DialogueInv, NEW what \in {"refused", "error"}, EndWith(what)
    PROVE  DialogueInv'
  <1>1. /\ Forgotten /\ pc' = "idle" /\ reply' = what /\ streak' = 0
        /\ row' = row /\ lost' = lost /\ told' = told /\ asked' = asked /\ seen' = seen
    BY DEF EndWith
  <1>2. /\ pc' = "idle" /\ mode' \in Modes \cup {"none"}
        /\ typed' \in Texts /\ query' \in Texts /\ filters' \in SUBSET Regions
        /\ Decided'
    BY <1>1, TypeIdle
  <1>3. TypeOK'
    BY <1>1, <1>2 DEF TypeOK, DialogueInv
  <1> QED
    BY <1>1, <1>2, <1>3 DEF DialogueInv, AskedIsStored, SeenIsStored, ToldIsNamed

\* A step that neither ends the turn nor touches the stored messages.
LEMMA InTurnKeeps ==
    ASSUME DialogueInv, TypeOK', UNCHANGED <<row, lost, countVars>>, Decided'
    PROVE  DialogueInv'
  BY DEF DialogueInv, countVars, AskedIsStored, SeenIsStored, ToldIsNamed

\* The region is asked for and given up within the counts.
LEMMA AskRegionKeeps ==
    ASSUME DialogueInv, DialogueAssumption, NEW t \in Texts, AskRegion(t)
    PROVE  DialogueInv'
  <1>1. TypeOK
    BY DEF DialogueInv
  <1>2. /\ Fixed("giveUp") \in Message(Kinds) /\ Fixed("giveUp").kind = "giveUp"
    BY FixedIsMessage DEF Kinds
  <1>3. /\ RegionQuestion(t) \in Message(Kinds) /\ RegionQuestion(t).kind = "region"
    BY <1>1, RegionReply
  <1> DEFINE answer == IF Enough THEN Fixed("giveUp") ELSE RegionQuestion(t)
  <1>4. answer \in Message(Kinds) /\ (answer.kind = "region" => ~Enough)
    BY <1>2, <1>3
  <1>5. IF mode = "chat" THEN EndStored(answer) ELSE EndUnstored(answer)
    BY DEF AskRegion
  <1> HIDE DEF answer
  <1>6. CASE mode = "chat"
    BY <1>4, <1>5, <1>6, EndStoredKeeps
  <1>7. CASE mode # "chat"
    BY <1>4, <1>5, <1>7, EndUnstoredKeeps
  <1> QED
    BY <1>6, <1>7

-----------------------------------------------------------------------------
\* The decisions of a turn.

LEMMA InvInit == Init /\ DialogueAssumption => DialogueInv
  <1> SUFFICES ASSUME Init, DialogueAssumption PROVE DialogueInv
    OBVIOUS
  <1>1. /\ MaxAsks \in Nat /\ Rounds \in Nat /\ MaxLost \in Nat
    BY DEF DialogueAssumption
  <1>2. Fixed("blank") \in Message(StoredKinds)
    BY DEF Fixed, Message, StoredKinds
  <1>3. row \in Rows /\ row.asks = 0 /\ row.topics = 0
    BY <1>1, <1>2, NothingIsText DEF Init, Rows
  <1>4. TypeOK
    <2>1. lost \in 0 .. MaxLost /\ asked \in Nat /\ streak \in Nat
      BY <1>1 DEF Init
    <2>2. typed \in Texts /\ query \in Texts
      BY NothingIsText DEF Init
    <2>3. told \in BOOLEAN
      BY DEF Init
    <2>4. filters \in SUBSET Regions /\ seen \in SUBSET (1 .. Rounds + 1)
      BY DEF Init
    <2>5. /\ pc \in {"idle", "limit", "chip", "precheck", "ask", "direct", "early", "topic",
                    "rewrite", "outside", "late", "guide", "search"}
          /\ mode \in Modes \cup {"none"} /\ reply \in Kinds \cup {"refused", "error", "none"}
      BY DEF Init
    <2> QED
      BY <1>3, <2>1, <2>2, <2>3, <2>4, <2>5 DEF TypeOK
  <1>5. AskedIsStored /\ SeenIsStored
    BY <1>3 DEF Init, AskedIsStored, SeenIsStored
  <1>6. ToldIsNamed /\ Decided
    BY DEF Init, ToldIsNamed, Decided
  <1> QED
    BY <1>4, <1>5, <1>6 DEF DialogueInv

LEMMA InvNext == DialogueInv /\ DialogueAssumption /\ [Next]_vars => DialogueInv'
  <1> SUFFICES ASSUME DialogueInv, DialogueAssumption, [Next]_vars PROVE DialogueInv'
    OBVIOUS
  <1>1. TypeOK /\ typed \in Texts /\ query \in Texts
    BY DEF DialogueInv, TypeOK
  <1>2. CASE Start
    <2>1. /\ mode' \in Modes /\ typed' \in Texts /\ query' \in Texts /\ filters' = filters
          /\ reply' = "none" /\ UNCHANGED <<row, lost, countVars>>
          /\ pc' \in {"limit", "chip", "guide", "precheck"}
          /\ pc' \in {"guide", "chip"} => mode' \in {"guide", "follow", "chip"}
      BY <1>2 DEF Start, Route, DialogueAssumption
    <2>2. TypeOK'
      BY <2>1, <1>1 DEF TypeOK, countVars
    <2>3. Decided'
      BY <2>1 DEF Decided
    <2> QED
      BY <2>1, <2>2, <2>3, InTurnKeeps
  <1>3. CASE Admit
    <2>1. /\ UNCHANGED <<row, mode, typed, query, filters, reply, lost, countVars>>
          /\ pc' \in {"guide", "chip", "precheck"}
          /\ pc' \in {"guide", "chip"} => mode \in {"guide", "follow", "chip"}
      BY <1>3 DEF Admit, Goto, Route
    <2>2. TypeOK'
      BY <2>1, <1>1 DEF TypeOK, countVars
    <2>3. Decided'
      BY <2>1 DEF Decided
    <2> QED
      BY <2>1, <2>2, <2>3, InTurnKeeps
  <1>4. CASE Refuse
    BY <1>4, EndWithKeeps DEF Refuse
  <1>5. CASE PreCheck
    <2>1. /\ UNCHANGED <<row, mode, typed, query, filters, reply, lost, countVars>>
          /\ pc' \in {"early", "ask", "topic", "direct"} /\ (pc' = "topic" => ~Clarifying)
      BY <1>5 DEF PreCheck, Goto
    <2>2. TypeOK'
      BY <2>1, <1>1 DEF TypeOK, countVars
    <2>3. Decided'
      BY <2>1 DEF Decided, Clarifying
    <2> QED
      BY <2>1, <2>2, <2>3, InTurnKeeps
  <1>6. CASE AskBack
    <2>1. PICK answer \in Written("clarify") : EndStored(answer)
      BY <1>6 DEF AskBack
    <2>2. answer \in Message(Kinds) /\ answer.kind # "region"
      BY WrittenIsMessage DEF Kinds
    <2> QED
      BY <2>1, <2>2, EndStoredKeeps
  <1>7. CASE Direct
    <2>1. CASE \E answer \in Written("direct") :
                   IF mode = "chat" THEN EndStored(answer) ELSE EndUnstored(answer)
      <3>1. PICK answer \in Written("direct") :
                   IF mode = "chat" THEN EndStored(answer) ELSE EndUnstored(answer)
        BY <2>1
      <3>2. answer \in Message(Kinds) /\ answer.kind # "region"
        BY WrittenIsMessage DEF Kinds
      <3>3. CASE mode = "chat"
        BY <3>1, <3>2, <3>3, EndStoredKeeps
      <3>4. CASE mode # "chat"
        BY <3>1, <3>2, <3>4, EndUnstoredKeeps
      <3> QED
        BY <3>3, <3>4
    <2>2. CASE mode = "chat" /\ EndStored(Fixed("blank"))
      <3>1. Fixed("blank") \in Message(Kinds) /\ Fixed("blank").kind # "region"
        BY FixedIsMessage DEF Kinds
      <3> QED
        BY <2>2, <3>1, EndStoredKeeps
    <2>3. CASE EndWith("error")
      BY <2>3, EndWithKeeps
    <2> QED
      BY <1>7, <2>1, <2>2, <2>3 DEF Direct
  <1>8. CASE EarlyRegion
    <2>1. CASE AskRegion(typed)
      BY <2>1, <1>1, AskRegionKeeps
    <2>2. CASE Found(CheckSigun(typed), "topic")
      <3>1. /\ filters' = CheckSigun(typed) /\ pc' = "topic"
            /\ UNCHANGED <<row, mode, typed, query, reply, lost, countVars>>
        BY <2>2 DEF Found
      <3>2. CheckSigun(typed) \in SUBSET Regions
        BY <1>1, SigunType
      <3>3. TypeOK'
        BY <3>1, <3>2, <1>1 DEF TypeOK, countVars
      <3>4. typed.regions # {} => CheckSigun(typed) = typed.regions
        BY <1>1, SigunNamed
      <3>5. Decided'
        BY <3>1, <3>4 DEF Decided
      <3> QED
        BY <3>1, <3>3, <3>5, InTurnKeeps
    <2> QED
      BY <1>8, <2>1, <2>2 DEF EarlyRegion
  <1>9. CASE TopicCheck
    <2>1. CASE EndStored(Fixed("topic"))
      <3>1. Fixed("topic") \in Message(Kinds) /\ Fixed("topic").kind # "region"
        BY FixedIsMessage DEF Kinds
      <3> QED
        BY <2>1, <3>1, EndStoredKeeps
    <2>2. CASE Goto("rewrite")
      <3>1. /\ UNCHANGED <<row, mode, typed, query, filters, reply, lost, countVars>>
            /\ pc = "topic" /\ pc' = "rewrite"
        BY <1>9, <2>2 DEF TopicCheck, Goto
      <3>2. TypeOK'
        BY <3>1, <1>1 DEF TypeOK, countVars
      <3>3. Decided'
        BY <3>1 DEF DialogueInv, Decided, Clarifying
      <3> QED
        BY <3>1, <3>2, <3>3, InTurnKeeps
    <2> QED
      BY <1>9, <2>1, <2>2 DEF TopicCheck
  <1>10. CASE Rewrite
    <2>1. /\ pc = "rewrite" /\ pc' = "outside"
          /\ UNCHANGED <<row, mode, typed, filters, reply, lost, countVars>>
      BY <1>10 DEF Rewrite
    <2>2. Combined \in Texts
      <3>1. typed \in Texts /\ row.user \in Texts
        BY <1>1 DEF TypeOK, Rows
      <3> QED
        BY <3>1 DEF Combined, Texts
    <2>3. query' \in Texts
      BY <1>1, <1>10, <2>2 DEF Rewrite, Recreates, DialogueAssumption
    <2>4. TypeOK'
      BY <2>1, <2>3, <1>1 DEF TypeOK, countVars
    <2>5. Decided'
      BY <2>1 DEF DialogueInv, Decided, Clarifying
    <2> QED
      BY <2>1, <2>4, <2>5, InTurnKeeps
  <1>11. CASE Outside
    <2>1. CASE EndStored(Fixed("outside"))
      <3>1. Fixed("outside") \in Message(Kinds) /\ Fixed("outside").kind # "region"
        BY FixedIsMessage DEF Kinds
      <3> QED
        BY <2>1, <3>1, EndStoredKeeps
    <2>2. CASE Goto("late")
      <3>1. /\ UNCHANGED <<row, mode, typed, query, filters, reply, lost, countVars>>
            /\ pc = "outside" /\ pc' = "late"
        BY <1>11, <2>2 DEF Outside, Goto
      <3>2. TypeOK'
        BY <3>1, <1>1 DEF TypeOK, countVars
      <3>3. Decided'
        BY <3>1 DEF DialogueInv, Decided, Clarifying
      <3> QED
        BY <3>1, <3>2, <3>3, InTurnKeeps
    <2> QED
      BY <1>11, <2>1, <2>2 DEF Outside
  <1>12. CASE LateRegion
    <2>1. CASE AskRegion(query)
      BY <2>1, <1>1, AskRegionKeeps
    <2>2. CASE Goto("search")
      <3>1. /\ UNCHANGED <<row, mode, typed, query, filters, reply, lost, countVars>>
            /\ pc = "late" /\ pc' = "search"
        BY <1>12, <2>2 DEF LateRegion, Goto
      <3>2. TypeOK'
        BY <3>1, <1>1 DEF TypeOK, countVars
      <3>3. Decided'
        BY <3>1 DEF DialogueInv, Decided, Clarifying
      <3> QED
        BY <3>1, <3>2, <3>3, InTurnKeeps
    <2>3. CASE filters = {} /\ Found(CheckSigun(query), "search")
      <3>1. /\ filters' = CheckSigun(query) /\ pc = "late" /\ pc' = "search" /\ filters = {}
            /\ UNCHANGED <<row, mode, typed, query, reply, lost, countVars>>
        BY <1>12, <2>3 DEF LateRegion, Found
      <3>2. CheckSigun(query) \in SUBSET Regions
        BY <1>1, SigunType
      <3>3. TypeOK'
        BY <3>1, <3>2, <1>1 DEF TypeOK, countVars
      <3>4. mode \in {"chat", "plain"} /\ Clarifying => typed.regions = {}
        BY <3>1 DEF DialogueInv, Decided
      <3>5. Decided'
        BY <3>1, <3>4 DEF Decided, Clarifying
      <3> QED
        BY <3>1, <3>3, <3>5, InTurnKeeps
    <2> QED
      BY <1>12, <2>1, <2>2, <2>3 DEF LateRegion
  <1>13. CASE Guide
    <2>1. CASE AskRegion(query)
      BY <2>1, <1>1, AskRegionKeeps
    <2>2. CASE Found(CheckSigun(query), "search")
      <3>1. /\ filters' = CheckSigun(query) /\ pc = "guide" /\ pc' = "search"
            /\ UNCHANGED <<row, mode, typed, query, reply, lost, countVars>>
        BY <1>13, <2>2 DEF Guide, Found
      <3>2. CheckSigun(query) \in SUBSET Regions
        BY <1>1, SigunType
      <3>3. TypeOK'
        BY <3>1, <3>2, <1>1 DEF TypeOK, countVars
      <3>4. Decided'
        BY <3>1 DEF DialogueInv, Decided
      <3> QED
        BY <3>1, <3>3, <3>4, InTurnKeeps
    <2>3. CASE Goto("search")
      <3>1. /\ UNCHANGED <<row, mode, typed, query, filters, reply, lost, countVars>>
            /\ pc = "guide" /\ pc' = "search"
        BY <1>13, <2>3 DEF Guide, Goto
      <3>2. TypeOK'
        BY <3>1, <1>1 DEF TypeOK, countVars
      <3>3. Decided'
        BY <3>1 DEF DialogueInv, Decided
      <3> QED
        BY <3>1, <3>2, <3>3, InTurnKeeps
    <2> QED
      BY <1>13, <2>1, <2>2, <2>3 DEF Guide
  <1>14. CASE Search
    <2>1. CASE \E answer \in Written("answer") : EndStored(answer)
      <3>1. PICK answer \in Written("answer") : EndStored(answer)
        BY <2>1
      <3>2. answer \in Message(Kinds) /\ answer.kind # "region"
        BY WrittenIsMessage DEF Kinds
      <3> QED
        BY <3>1, <3>2, EndStoredKeeps
    <2>2. CASE EndStored(Fixed("blank"))
      <3>1. Fixed("blank") \in Message(Kinds) /\ Fixed("blank").kind # "region"
        BY FixedIsMessage DEF Kinds
      <3> QED
        BY <2>2, <3>1, EndStoredKeeps
    <2>3. CASE EndWith("error")
      BY <2>3, EndWithKeeps
    <2> QED
      BY <1>14, <2>1, <2>2, <2>3 DEF Search, Answered, SearchFails
  <1>15. CASE Chip
    <2>1. /\ query' = Label /\ filters' \in SUBSET Regions /\ pc = "chip" /\ pc' = "guide"
          /\ UNCHANGED <<row, mode, typed, reply, lost, countVars>>
      BY <1>15 DEF Chip
    <2>2. Label \in Texts
      BY NothingIsText DEF Label, Texts
    <2>3. TypeOK'
      BY <2>1, <2>2, <1>1 DEF TypeOK, countVars
    <2>4. Decided'
      BY <2>1 DEF DialogueInv, Decided
    <2> QED
      BY <2>1, <2>3, <2>4, InTurnKeeps
  <1>16. CASE UNCHANGED vars
    BY <1>16 DEF vars, turnVars, countVars, DialogueInv, TypeOK, AskedIsStored,
       SeenIsStored, ToldIsNamed, Decided, Clarifying
  <1> QED
    BY <1>2, <1>3, <1>4, <1>5, <1>6, <1>7, <1>8, <1>9, <1>10, <1>11, <1>12, <1>13, <1>14,
       <1>15, <1>16 DEF Next

THEOREM InvAlways == Spec => []DialogueInv
  <1>1. Init => DialogueInv
    BY InvInit, DialogueAssumption
  <1>2. DialogueInv /\ [Next]_vars => DialogueInv'
    BY InvNext, DialogueAssumption
  <1> QED
    BY <1>1, <1>2, PTL DEF Spec

-----------------------------------------------------------------------------
\* The results.

\* The stored messages, the turn and the counters stay well-typed; the stored
\* region questions never exceed the limit.
THEOREM TypeCorrect == Spec => []TypeOK
  <1>1. DialogueInv => TypeOK
    BY DEF DialogueInv
  <1> QED
    BY <1>1, InvAlways, PTL

\* For any limit of questions, any texts and any rewritings the chat mode asks
\* for the region at most MaxAsks times, lost saves apart.
THEOREM AskedBounded == Spec => []AskedAtMost
  <1>1. DialogueInv => AskedAtMost
    <2> SUFFICES ASSUME DialogueInv PROVE AskedAtMost
      OBVIOUS
    <2>1. row.asks \in 0 .. MaxAsks /\ lost \in Nat /\ asked \in Nat /\ MaxAsks \in Nat
      BY DialogueAssumption DEF DialogueInv, TypeOK, Rows, DialogueAssumption
    <2>2. asked <= row.asks + lost
      BY DEF DialogueInv, AskedIsStored
    <2> QED
      BY <2>1, <2>2 DEF AskedAtMost
  <1> QED
    BY <1>1, InvAlways, PTL

\* No round of topic questions is skipped, however many rounds there are.
THEOREM RoundsOrdered == Spec => []RoundsInOrder
  <1>1. DialogueInv => RoundsInOrder
    <2> SUFFICES ASSUME DialogueInv PROVE RoundsInOrder
      OBVIOUS
    <2>1. row.topics \in Nat
      BY DialogueAssumption DEF DialogueInv, TypeOK, Rows, DialogueAssumption
    <2>2. 1 .. row.topics \subseteq seen /\ seen \subseteq 1 .. row.topics + 1
      BY DEF DialogueInv, SeenIsStored
    <2> QED
      BY <2>1, <2>2, NextRound DEF RoundsInOrder
  <1> QED
    BY <1>1, InvAlways, PTL

\* The regions of an answer reach the search whatever a language model makes of
\* the answer.
THEOREM AnswersDecide == Spec => []AnswerDecides
  <1>1. DialogueInv => AnswerDecides
    BY DEF DialogueInv, Decided, AnswerDecides
  <1> QED
    BY <1>1, InvAlways, PTL

\* A conversation in which a region was typed is never asked for one again.
THEOREM RegionsRemembered == Spec => Remembered
  <1> DEFINE Step == told /\ pc # "idle" /\ pc' = "idle" => reply' \notin {"region", "giveUp"}
  <1>1. DialogueInv /\ [Next]_vars => [Step]_vars
    <2> SUFFICES ASSUME DialogueInv, Next, told, pc # "idle", pc' = "idle"
                 PROVE  reply' \notin {"region", "giveUp"}
      OBVIOUS
    <2>1. row.named # {}
      BY DEF DialogueInv, ToldIsNamed
    <2>2. CheckSigun(typed) # {} /\ CheckSigun(query) # {}
      BY <2>1, SigunRemembers
    <2>3. ASSUME NEW kind \in {"clarify", "direct", "answer"}, NEW answer \in Written(kind),
                 EndStored(answer) \/ EndUnstored(answer)
          PROVE  reply' = kind
      <3>1. answer.kind = kind
        BY DEF Written, Message
      <3> QED
        BY <2>3, <3>1 DEF EndStored, EndUnstored
    <2>4. ASSUME NEW kind \in {"blank", "topic", "outside"}, EndStored(Fixed(kind))
          PROVE  reply' = kind
      BY <2>4 DEF EndStored, Fixed
    <2>5. ASSUME NEW what \in {"refused", "error"}, EndWith(what)
          PROVE  reply' = what
      BY <2>5 DEF EndWith
    <2>6. CASE Start \/ Admit \/ Chip \/ PreCheck \/ Rewrite
      BY <2>6 DEF Start, Admit, Chip, PreCheck, Rewrite, Goto, Route
    <2>7. CASE Refuse
      BY <2>5, <2>7 DEF Refuse
    <2>8. CASE AskBack
      BY <2>3, <2>8 DEF AskBack
    <2>9. CASE Direct
      BY <2>3, <2>4, <2>5, <2>9 DEF Direct
    <2>10. CASE EarlyRegion \/ LateRegion \/ Guide
      BY <2>2, <2>10 DEF EarlyRegion, LateRegion, Guide, Found, Goto
    <2>11. CASE TopicCheck
      BY <2>4, <2>11 DEF TopicCheck, Goto
    <2>12. CASE Outside
      BY <2>4, <2>12 DEF Outside, Goto
    <2>13. CASE Search
      BY <2>3, <2>4, <2>5, <2>13 DEF Search, Answered, SearchFails
    <2> QED
      BY <2>6, <2>7, <2>8, <2>9, <2>10, <2>11, <2>12, <2>13 DEF Next
  <1> QED
    BY <1>1, InvAlways, PTL DEF Spec, Remembered

-----------------------------------------------------------------------------
(* Questions back in a row.                                                *)

\* The topic of a reply that names one is not asked for again: it counts
\* itself, or the question before it names something.
Settled == TopicFollowup \/ ~HasEarlier \/ ~LowInfo(row.user)

\* A streak grows to two in two steps at most, and from its state of the
\* conversation no third follows: a topic question because of the question
\* before, then a question that the model or the rewriting is the cause of.
StreakInv ==
    /\ Clarifying /\ ~Settled => streak <= lost
    /\ ~Clarifying => streak <= lost + 1
    /\ streak <= lost + 2
    /\ pc = "ask" => ~Clarifying

LEMMA StreakTypes ==
    ASSUME DialogueInv, DialogueAssumption
    PROVE  streak \in Nat /\ lost \in Nat /\ row.length \in 0 .. 4
  BY DEF DialogueInv, TypeOK, Rows, DialogueAssumption

\* A turn that has not ended, or that ends a streak.
LEMMA StreakHeld ==
    ASSUME DialogueInv, DialogueAssumption, StreakInv, UNCHANGED <<row, lost, streak>>,
           pc' = "ask" => ~Clarifying
    PROVE  StreakInv'
  BY DEF StreakInv, Settled, Clarifying, TopicFollowup, HasEarlier, LowInfo, Nothing

LEMMA StreakBroken ==
    ASSUME streak' = 0, pc' # "ask", lost' \in Nat
    PROVE  StreakInv'
  <1>1. \A n \in Nat : 0 <= n /\ 0 <= n + 1 /\ 0 <= n + 2
    OBVIOUS
  <1> QED
    BY <1>1 DEF StreakInv

\* The end of a turn that asks nothing back, or not in the chat mode.
LEMMA StreakEnds ==
    ASSUME DialogueInv, DialogueAssumption, NEW answer,
           ~(mode = "chat" /\ NamesAll(typed) /\ AskedBack(answer)),
           EndStored(answer) \/ EndUnstored(answer)
    PROVE  StreakInv'
  <1>1. streak' = 0 /\ pc' = "idle" /\ lost' \in {lost, lost + 1}
    BY DEF EndStored, EndUnstored, Counted
  <1>2. lost' \in Nat
    BY <1>1, StreakTypes
  <1> QED
    BY <1>1, <1>2, StreakBroken

LEMMA StreakStops ==
    ASSUME DialogueInv, DialogueAssumption, NEW what, EndWith(what)
    PROVE  StreakInv'
  <1>1. streak' = 0 /\ pc' = "idle" /\ lost' = lost
    BY DEF EndWith
  <1> QED
    BY <1>1, StreakBroken, StreakTypes

\* The end of a turn that adds to the streak: the question is lost, or the
\* next turn meets it with the message stored that names region and topic.
LEMMA StreakGrows ==
    ASSUME DialogueInv, DialogueAssumption, StreakInv, NEW answer \in Message(Kinds),
           mode = "chat", NamesAll(typed), EndStored(answer),
           answer.question => streak <= lost + 1,
           ~answer.question => streak <= lost
    PROVE  StreakInv'
  <1>1. streak' \in {0, streak + 1} /\ streak' \in Nat /\ pc' = "idle" /\ lost \in Nat
    <2>1. streak' \in {0, streak + 1} /\ pc' = "idle"
      BY DEF EndStored, Counted
    <2> QED
      BY <2>1, StreakTypes
  <1>2. CASE lost' = lost + 1 /\ row' = row
    <2>1. /\ Clarifying' = Clarifying /\ Settled' = Settled
      BY <1>2 DEF Clarifying, Settled, TopicFollowup, HasEarlier, LowInfo, Nothing
    <2>2. /\ Clarifying /\ ~Settled => streak' <= lost'
          /\ ~Clarifying => streak' <= lost' + 1
          /\ streak' <= lost' + 2
      BY <1>1, <1>2, StreakTypes DEF StreakInv
    <2> QED
      BY <1>1, <2>1, <2>2 DEF StreakInv
  <1>3. CASE lost' = lost /\ row' = Stored(StoredText, answer)
    <2>1. StoredText = typed
      BY DEF StoredText
    <2>2. row'.user = typed /\ row'.last = AsStored(answer)
      BY <1>3, <2>1 DEF Stored
    <2>3. ~LowInfo(row'.user)
      BY <2>2 DEF LowInfo, NamesAll, Nothing
    <2>4. row'.last.question = answer.question
      BY <2>2 DEF AsStored, Message
    <2>5. Settled'
      BY <2>3 DEF Settled, LowInfo, Nothing
    <2>6. Clarifying' = answer.question
      BY <2>4 DEF Clarifying
    <2>7. /\ ~answer.question => streak' <= lost' + 1
          /\ streak' <= lost' + 2
      BY <1>1, <1>3, StreakTypes DEF Message
    <2> QED
      BY <1>1, <2>5, <2>6, <2>7 DEF StreakInv
  <1> QED
    BY <1>2, <1>3 DEF EndStored

\* The region is asked for in a turn that began with no question to answer.
LEMMA StreakRegion ==
    ASSUME DialogueInv, DialogueAssumption, StreakInv, NEW t \in Texts, AskRegion(t),
           mode = "chat" /\ NamesAll(typed) => ~Clarifying
    PROVE  StreakInv'
  <1>1. CASE mode = "chat" /\ NamesAll(typed) /\ ~Enough
    <2>1. EndStored(RegionQuestion(t)) /\ RegionQuestion(t) \in Message(Kinds)
      BY <1>1, RegionReply DEF AskRegion, DialogueInv
    <2>2. RegionQuestion(t).question
      BY DEF RegionQuestion
    <2>3. streak <= lost + 1
      BY <1>1 DEF StreakInv
    <2> QED
      BY <1>1, <2>1, <2>2, <2>3, StreakGrows
  <1>2. CASE mode = "chat" /\ Enough
    <2>1. EndStored(Fixed("giveUp")) /\ ~AskedBack(Fixed("giveUp"))
      BY <1>2 DEF AskRegion, AskedBack, Fixed
    <2> QED
      BY <2>1, StreakEnds
  <1>3. CASE ~(mode = "chat" /\ NamesAll(typed)) /\ ~(mode = "chat" /\ Enough)
    <2>1. PICK answer : EndStored(answer) \/ EndUnstored(answer)
      BY DEF AskRegion
    <2> QED
      BY <1>3, <2>1, StreakEnds
  <1> QED
    BY <1>1, <1>2, <1>3

LEMMA StreakNext == DialogueInv /\ DialogueAssumption /\ StreakInv /\ [Next]_vars => StreakInv'
  <1> SUFFICES ASSUME DialogueInv, DialogueAssumption, StreakInv, [Next]_vars PROVE StreakInv'
    OBVIOUS
  <1>1. TypeOK /\ typed \in Texts /\ query \in Texts
    BY DEF DialogueInv, TypeOK
  <1>2. ASSUME NEW kind \in {"direct", "answer"}, NEW answer \in Written(kind)
        PROVE  ~AskedBack(answer)
    BY DEF Written, Message, AskedBack
  <1>3. ASSUME NEW kind \in {"blank", "outside"}
        PROVE  ~AskedBack(Fixed(kind))
    BY DEF Fixed, AskedBack
  <1>4. CASE Start \/ Admit \/ Chip \/ Rewrite \/ UNCHANGED vars
    <2>1. UNCHANGED <<row, lost, streak>> /\ (pc' = "ask" => pc = "ask")
      BY <1>4 DEF Start, Admit, Chip, Rewrite, Goto, Route, vars, turnVars, countVars
    <2> QED
      BY <2>1, StreakHeld DEF StreakInv
  <1>5. CASE PreCheck
    <2>1. UNCHANGED <<row, lost, streak>> /\ (pc' = "ask" => ~Clarifying)
      BY <1>5 DEF PreCheck, Goto, countVars
    <2> QED
      BY <2>1, StreakHeld
  <1>6. CASE Refuse
    BY <1>6, StreakStops DEF Refuse
  <1>7. CASE AskBack
    <2>1. PICK answer \in Written("clarify") : EndStored(answer)
      BY <1>7 DEF AskBack
    <2>2. answer \in Message(Kinds) /\ answer.kind = "clarify" /\ ~Clarifying
      BY <1>7, WrittenIsMessage DEF Kinds, AskBack, StreakInv
    <2>3. CASE mode = "chat" /\ NamesAll(typed) /\ answer.question
      <3>1. streak <= lost + 1
        BY <2>2 DEF StreakInv
      <3> QED
        BY <2>1, <2>2, <2>3, <3>1, StreakGrows
    <2>4. CASE ~(mode = "chat" /\ NamesAll(typed) /\ answer.question)
      <3>1. ~(mode = "chat" /\ NamesAll(typed) /\ AskedBack(answer))
        BY <2>2, <2>4 DEF AskedBack
      <3> QED
        BY <2>1, <3>1, StreakEnds
    <2> QED
      BY <2>3, <2>4
  <1>8. CASE Direct
    <2>1. CASE \E answer \in Written("direct") : EndStored(answer) \/ EndUnstored(answer)
      BY <1>2, <2>1, StreakEnds
    <2>2. CASE EndStored(Fixed("blank"))
      BY <1>3, <2>2, StreakEnds
    <2>3. CASE EndWith("error")
      BY <2>3, StreakStops
    <2> QED
      BY <1>8, <2>1, <2>2, <2>3 DEF Direct
  <1>9. CASE EarlyRegion
    <2>1. CASE CheckSigun(typed) = {}
      <3>1. ~NamesAll(typed)
        BY <1>1, <2>1, SigunNamed DEF NamesAll
      <3> QED
        BY <1>1, <1>9, <2>1, <3>1, StreakRegion DEF EarlyRegion
    <2>2. CASE CheckSigun(typed) # {}
      <3>1. UNCHANGED <<row, lost, streak>> /\ pc' = "topic"
        BY <1>9, <2>2 DEF EarlyRegion, Found, countVars
      <3> QED
        BY <3>1, StreakHeld
    <2> QED
      BY <2>1, <2>2
  <1>10. CASE TopicCheck
    <2>1. CASE (Clarifying \/ TopicFollowup) /\ LowInfo(TopicBase)
      <3>1. EndStored(Fixed("topic"))
        BY <1>10, <2>1 DEF TopicCheck
      <3>2. CASE mode = "chat" /\ NamesAll(typed)
        <4>1. ~LowInfo(typed)
          BY <3>2 DEF LowInfo, NamesAll, Nothing
        <4>2. Clarifying /\ ~Settled
          BY <2>1, <4>1 DEF TopicBase, Settled
        <4>3. Fixed("topic") \in Message(Kinds) /\ ~Fixed("topic").question
          BY FixedIsMessage DEF Fixed, Kinds
        <4> QED
          BY <3>1, <3>2, <4>2, <4>3, StreakGrows DEF StreakInv
      <3>3. CASE ~(mode = "chat" /\ NamesAll(typed))
        BY <3>1, <3>3, StreakEnds
      <3> QED
        BY <3>2, <3>3
    <2>2. CASE ~((Clarifying \/ TopicFollowup) /\ LowInfo(TopicBase))
      <3>1. UNCHANGED <<row, lost, streak>> /\ pc' = "rewrite"
        BY <1>10, <2>2 DEF TopicCheck, Goto, countVars
      <3> QED
        BY <3>1, StreakHeld
    <2> QED
      BY <2>1, <2>2
  <1>11. CASE Outside
    <2>1. CASE EndStored(Fixed("outside"))
      BY <1>3, <2>1, StreakEnds
    <2>2. CASE Goto("late")
      <3>1. UNCHANGED <<row, lost, streak>> /\ pc' = "late"
        BY <2>2 DEF Goto, countVars
      <3> QED
        BY <3>1, StreakHeld
    <2> QED
      BY <1>11, <2>1, <2>2 DEF Outside
  <1>12. CASE LateRegion \/ Guide
    <2>1. CASE UNCHANGED <<row, lost, streak>> /\ pc' = "search"
      BY <2>1, StreakHeld
    <2>2. CASE AskRegion(query) /\ filters = {}
      <3>1. mode = "chat" /\ NamesAll(typed) => ~Clarifying
        BY <1>12, <2>2 DEF LateRegion, Guide, DialogueInv, Decided, NamesAll
      <3> QED
        BY <1>1, <2>2, <3>1, StreakRegion
    <2> QED
      BY <1>12, <2>1, <2>2 DEF LateRegion, Guide, Found, Goto, countVars
  <1>13. CASE Search
    <2>1. CASE \E answer \in Written("answer") : EndStored(answer)
      BY <1>2, <2>1, StreakEnds
    <2>2. CASE EndStored(Fixed("blank"))
      BY <1>3, <2>2, StreakEnds
    <2>3. CASE EndWith("error")
      BY <2>3, StreakStops
    <2> QED
      BY <1>13, <2>1, <2>2, <2>3 DEF Search, Answered, SearchFails
  <1> QED
    BY <1>4, <1>5, <1>6, <1>7, <1>8, <1>9, <1>10, <1>11, <1>12, <1>13 DEF Next

\* A user of the chat mode who names region and topic every time is asked back
\* twice in a row at most, lost saves apart, whatever a language model judges
\* or makes of the message, and whatever the conversation was before.
THEOREM StreaksEnd == Spec => []StreakBound
  <1>1. Init => StreakInv
    BY DEF Init, StreakInv, Clarifying, Fixed
  <1>2. DialogueInv /\ StreakInv /\ [Next]_vars => StreakInv'
    BY StreakNext, DialogueAssumption
  <1>3. DialogueInv /\ StreakInv => StreakBound
    <2>1. DialogueInv => lost \in Nat
      BY StreakTypes, DialogueAssumption
    <2> QED
      BY <2>1 DEF StreakInv, StreakBound
  <1> QED
    BY <1>1, <1>2, <1>3, InvAlways, PTL DEF Spec
=============================================================================
