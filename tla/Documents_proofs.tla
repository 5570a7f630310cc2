-------------------------- MODULE Documents_proofs --------------------------
(***************************************************************************)
(* The stored histories: without overlapping calls and without failing     *)
(* reads no overwrite loses a stored message, whatever the client sends,   *)
(* however the answers end and whichever writes fail, and what was         *)
(* deleted, listed or liked stays so; with overlapping calls, and beside   *)
(* uploads whose summaries are stored without a lock, the turns stay       *)
(* whole.  The uploaded documents: what is recorded can be read, and is    *)
(* read only for its own conversation.  The rows that are read from an     *)
(* uploaded file: one for each table that describes a service.  The        *)
(* published services: they were staged, and keep their links.  And all of *)
(* these composed, as the model checker runs them.  For any number of      *)
(* calls, uploads, tables, organisations and failures.                     *)
(***************************************************************************)
EXTENDS MCDocuments, SequenceTheorems, WellFoundedInduction, TLAPS

\* The keys of a message list: what the merge can tell apart.
Keys(s) == {Key(s[i]) : i \in 1 .. Len(s)}

\* The list ends with an assistant message that has text t.
EndsWith(s, t) ==
    Len(s) > 0 /\ s[Len(s)].role = "assistant" /\ s[Len(s)].text = t

\* Whatever a call holds to overwrite the row with contains the row.
Covered ==
    /\ \A r \in Requests : pc[r] \in {"list", "answer", "save"} => Keys(row) \subseteq Keys(mem[r])
    /\ loop = "feedback" => Keys(row) \subseteq Keys(held)

SoloInv ==
    /\ TypeOK
    /\ Alone
    /\ Covered
    /\ \A r \in Asks : pc[r] = "save" => EndsWith(mem[r], text[r])

-------------------------------------------------------------------------------
\* Facts about the operators.

LEMMA MessageTypes ==
  /\ \A r \in Requests : UserMessage(r) \in Message
  /\ \A r \in Owners, t \in Texts : AssistantMessage(r, t) \in Message
  BY DEF UserMessage, AssistantMessage, Message, Owners, Texts

\* A non-empty set of numbers up to n has a greatest element.
LEMMA LargestIn ==
  ASSUME NEW n \in Nat, NEW ks, ks \subseteq 0 .. n, ks # {}
  PROVE  \E k \in ks : \A j \in ks : j <= k
<1> DEFINE T == {m \in Nat : n - m \in ks}
<1>1. T \subseteq Nat
  OBVIOUS
<1>2. ASSUME NEW j \in ks PROVE n - j \in T
  <2>1. j \in Nat /\ j <= n
    OBVIOUS
  <2>2. n - j \in Nat /\ n - (n - j) = j
    BY <2>1
  <2> QED
    BY <2>2
<1>3. T # {}
  BY <1>2
<1> HIDE DEF T
<1>4. PICK x \in T : \A y \in T : <<y, x>> \notin OpToRel(<, Nat)
  BY <1>1, <1>3, NatLessThanWellFounded, WFMin
<1>5. x \in Nat /\ n - x \in ks
  BY DEF T
<1>6. ASSUME NEW j \in ks PROVE j <= n - x
  <2>1. n - j \in T /\ n - j \in Nat
    BY <1>1, <1>2
  <2>2. ~ (n - j < x)
    BY <1>4, <1>5, <2>1 DEF OpToRel
  <2>3. j \in Nat
    OBVIOUS
  <2> QED
    BY <1>5, <2>2, <2>3
<1> QED
  BY <1>5, <1>6

\* The merge keeps the stored messages and adds messages of the client.
LEMMA MergeKeeps ==
  ASSUME NEW db \in Seq(Message), NEW new \in Seq(Message)
  PROVE  /\ Merge(db, new) \in Seq(Message)
         /\ Keys(db) \subseteq Keys(Merge(db, new))
<1> DEFINE ks == {k \in 0 .. Len(new) : k <= Len(db) /\ Repeats(db, new, k)}
           overlap == CHOOSE k \in ks : \A j \in ks : j <= k
           rest == SubSeq(new, overlap + 1, Len(new))
<1>1. Len(new) \in Nat /\ Len(db) \in Nat
  BY LenProperties
<1>2. 0 \in ks
  BY <1>1 DEF Repeats
<1>3. overlap \in 0 .. Len(new)
  <2> HIDE DEF ks
  <2>1. ks \subseteq 0 .. Len(new)
    BY DEF ks
  <2>2. \E k \in ks : \A j \in ks : j <= k
    BY <1>1, <1>2, <2>1, LargestIn
  <2> QED
    BY <2>1, <2>2
<1> HIDE DEF overlap
<1>4. rest \in Seq(Message)
  <2>1. \A i \in overlap + 1 .. Len(new) : new[i] \in Message
    BY <1>1, <1>3, ElementOfSeq
  <2> QED
    BY <1>1, <1>3, <2>1, SubSeqProperties
<1> HIDE DEF rest
<1>5. Merge(db, new) = db \o rest
  BY DEF Merge, overlap, rest
<1>6. /\ db \o rest \in Seq(Message)
      /\ Len(db \o rest) = Len(db) + Len(rest) /\ Len(rest) \in Nat
      /\ \A i \in 1 .. Len(db) : (db \o rest)[i] = db[i]
  BY <1>1, <1>4, ConcatProperties, LenProperties
<1> QED
  BY <1>1, <1>5, <1>6 DEF Keys

LEMMA AppendKeeps ==
  ASSUME NEW s \in Seq(Message), NEW m \in Message
  PROVE  /\ Append(s, m) \in Seq(Message)
         /\ Keys(s) \subseteq Keys(Append(s, m))
         /\ Len(Append(s, m)) = Len(s) + 1
         /\ Append(s, m)[Len(s) + 1] = m
<1>1. Len(s) \in Nat
  BY LenProperties
<1>2. /\ Append(s, m) \in Seq(Message)
      /\ Len(Append(s, m)) = Len(s) + 1
      /\ \A i \in 1 .. Len(s) : Append(s, m)[i] = s[i]
      /\ Append(s, m)[Len(s) + 1] = m
  BY AppendProperties
<1> QED
  BY <1>1, <1>2 DEF Keys

\* A list that already ends with the answer is stored as it is.
LEMMA StoreAnswerFixed ==
  ASSUME NEW s \in Seq(Message), NEW r, NEW t, EndsWith(s, t)
  PROVE  StoreAnswer(s, r, t) = s
<1> DEFINE n == Len(s)
           z == [s EXCEPT ![n].text = t]
<1>1. n \in 1 .. Len(s) /\ s[n].text = t /\ s[n] \in Message /\ DOMAIN s = 1 .. Len(s)
  BY LenProperties, ElementOfSeq DEF EndsWith
<1>2. [s[n] EXCEPT !.text = t] = s[n]
  BY <1>1 DEF Message
<1>3. z = s
  BY <1>1, <1>2, LenProperties
<1> QED
  BY <1>3 DEF StoreAnswer, EndsWith

\* Setting a reaction keeps the list's length, keys and type.
LEMMA ReactKeeps ==
  ASSUME NEW s \in Seq(Message), NEW i \in 1 .. Len(s), NEW x \in Reactions
  PROVE  React(s, i, x) \in Seq(Message) /\ Keys(React(s, i, x)) = Keys(s)
<1> DEFINE e == [s[i] EXCEPT !.reaction = x]
           z == [s EXCEPT ![i] = e]
<1>1. s[i] \in Message
  BY ElementOfSeq
<1>2. e \in Message /\ Key(e) = Key(s[i])
  BY <1>1 DEF Message, Key
<1>3. React(s, i, x) = z
  BY DEF React
<1> HIDE DEF e
<1>4. /\ z \in Seq(Message) /\ Len(z) = Len(s)
      /\ \A j \in 1 .. Len(s) : z[j] = IF j = i THEN e ELSE s[j]
  BY <1>2, ExceptSeq
<1> HIDE DEF z
<1>5. \A j \in 1 .. Len(s) : Key(z[j]) = Key(s[j])
  BY <1>2, <1>4
<1> QED
  BY <1>3, <1>4, <1>5 DEF Keys

-------------------------------------------------------------------------------
\* Type correctness.

LEMMA TypeInit == Init => TypeOK
<1> SUFFICES ASSUME Init PROVE TypeOK
  OBVIOUS
<1>1. AssistantMessage(Greeting, "greeting") \in Message
  BY MessageTypes DEF Owners, Texts
<1>2. << >> \in Seq(Message) /\ <<AssistantMessage(Greeting, "greeting")>> \in Seq(Message)
  BY <1>1, EmptySeq
<1>3. row \in Seq(Message)
  BY <1>2 DEF Init
<1>4. listed \in BOOLEAN
  BY Zenon DEF Init
<1>5. Greeting \in Owners /\ "" \in Texts
  BY DEF Owners, Texts
<1>6. /\ shown \in Seq(Message) /\ held \in Seq(Message)
      /\ front \in [Requests -> Seq(Message)] /\ mem \in [Requests -> Seq(Message)]
  BY <1>2, <1>3 DEF Init
<1>7. /\ text \in [Requests -> Texts]
      /\ acked \in [Owners -> Reactions \cup {"none"}]
      /\ mark \in Owners \X (Reactions \cup {"none"})
  BY <1>5 DEF Init
<1>8. /\ pc \in [Requests -> {"new", "read", "list", "answer", "save", "relist", "done"}]
      /\ loop \in {"idle", "ask", "feedback", "history", "listing"}
  BY DEF Init
<1>9. readErrors \in 0 .. MaxReadErrors /\ writeErrors \in 0 .. MaxWriteErrors
  <2>1. readErrors = 0 /\ writeErrors = 0
    BY Zenon DEF Init
  <2>2. MaxReadErrors \in Nat /\ MaxWriteErrors \in Nat
    BY HistoryAssumption, Zenon
  <2> QED
    BY <2>1, <2>2
<1>10. deleted \in BOOLEAN
  BY Zenon DEF Init
<1> QED
  BY <1>3, <1>4, <1>6, <1>7, <1>8, <1>9, <1>10 DEF TypeOK

LEMMA WriteTypes ==
  ASSUME TypeOK
  PROVE  /\ UNCHANGED writeErrors \/ WriteFails => writeErrors' \in 0 .. MaxWriteErrors
         /\ Listing \/ UNCHANGED listed => listed' \in BOOLEAN
<1>1. UNCHANGED writeErrors \/ WriteFails => writeErrors' \in 0 .. MaxWriteErrors
  BY HistoryAssumption DEF TypeOK, WriteFails
<1>2. Listing \/ UNCHANGED listed => listed' \in BOOLEAN
  BY Zenon DEF TypeOK, Listing
<1> QED
  BY <1>1, <1>2

LEMMA StoreAnswerType ==
  ASSUME NEW s \in Seq(Message), NEW r \in Owners, NEW t \in Texts
  PROVE  StoreAnswer(s, r, t) \in Seq(Message)
<1> DEFINE n == Len(s)
<1>1. n \in Nat
  BY LenProperties
<1>2. CASE n > 0 /\ s[n].role = "assistant"
  <2> DEFINE e == [s[n] EXCEPT !.text = t]
  <2>1. n \in 1 .. Len(s) /\ s[n] \in Message
    BY <1>1, <1>2, ElementOfSeq
  <2>2. e \in Message
    BY <2>1 DEF Message
  <2>3. StoreAnswer(s, r, t) = [s EXCEPT ![n] = e]
    BY <1>2 DEF StoreAnswer
  <2> HIDE DEF e
  <2> QED
    BY <2>1, <2>2, <2>3, ExceptSeq
<1>3. CASE ~ (n > 0 /\ s[n].role = "assistant")
  BY <1>3, MessageTypes, AppendKeeps DEF StoreAnswer
<1> QED
  BY <1>2, <1>3

LEMMA TypeTurn ==
  ASSUME TypeOK, NEW r \in Turns, TurnNext(r)
  PROVE  TypeOK'
<1>1. r \in Requests /\ r \in Owners
  BY DEF Requests, Owners
<1>2. UserMessage(r) \in Message /\ \A t \in Texts : AssistantMessage(r, t) \in Message
  BY <1>1, MessageTypes
<1>3. row \in Seq(Message) /\ << >> \in Seq(Message) /\ shown \in Seq(Message)
  BY EmptySeq DEF TypeOK
<1>4. <<UserMessage(r)>> \in Seq(Message)
  BY <1>2
<1> USE HistoryAssumption
<1>5. ASSUME NEW sent \in Fronts, Start(r, sent) PROVE TypeOK'
  <2>1. Append(shown, UserMessage(r)) \in Seq(Message)
    BY <1>2, <1>3, AppendKeeps
  <2>2. front' \in [Requests -> Seq(Message)]
    BY <1>1, <1>4, <1>5, <2>1 DEF TypeOK, Start
  <2> QED
    BY <1>1, <1>5, <2>1, <2>2 DEF TypeOK, Start, feedbackVars
<1>6. CASE Read(r)
  <2>1. PICK db \in {row, << >>} :
          Reads(db) /\ mem' = [mem EXCEPT ![r] = Merge(db, front[r])]
    BY <1>6 DEF Read
  <2>2. Merge(db, front[r]) \in Seq(Message)
    BY <1>1, <1>3, MergeKeeps DEF TypeOK
  <2>3. readErrors' \in 0 .. MaxReadErrors
    BY <2>1 DEF Reads, ReadFails, TypeOK
  <2> QED
    BY <1>1, <1>6, <2>1, <2>2, <2>3 DEF TypeOK, Read, feedbackVars
<1>7. CASE List(r)
  <2>1. writeErrors' \in 0 .. MaxWriteErrors /\ listed' \in BOOLEAN
    BY <1>7, WriteTypes DEF List
  <2> QED
    BY <1>1, <1>7, <2>1 DEF TypeOK, List, feedbackVars
<1>8. CASE Refuse(r)
  <2>1. Append(shown, AssistantMessage(r, "apology")) \in Seq(Message)
    BY <1>2, <1>3, AppendKeeps DEF Texts
  <2> QED
    BY <1>1, <1>8, <2>1 DEF TypeOK, Refuse, feedbackVars
<1>9. ASSUME NEW result \in Answers, Answer(r, result) PROVE TypeOK'
  <2> DEFINE t == IF result = "ok" THEN "answer" ELSE "apology"
             z == IF result = "ok" THEN "answer" ELSE ""
  <2>1. t \in Texts /\ z \in Texts
    BY DEF Texts
  <2>2. Append(shown, AssistantMessage(r, t)) \in Seq(Message)
    BY <1>2, <1>3, <2>1, AppendKeeps
  <2>3. /\ pc' = [pc EXCEPT ![r] = "save"]
        /\ shown' = Append(shown, AssistantMessage(r, t))
        /\ text' = [text EXCEPT ![r] = z]
        /\ UNCHANGED <<row, listed, front, mem, loop, feedbackVars, deleted,
                       readErrors, writeErrors>>
    BY <1>9 DEF Answer
  <2> HIDE DEF t, z, Texts
  <2> QED
    BY <1>1, <2>1, <2>2, <2>3 DEF TypeOK, feedbackVars
<1>10. CASE SaveTurn(r)
  <2> DEFINE m == Append(mem[r], AssistantMessage(r, text[r]))
  <2>1. mem[r] \in Seq(Message) /\ text[r] \in Texts
    BY <1>1 DEF TypeOK
  <2>2. m \in Seq(Message) /\ StoreAnswer(m, r, text[r]) \in Seq(Message)
    BY <1>1, <1>2, <2>1, AppendKeeps, StoreAnswerType
  <2>3. mem' = [mem EXCEPT ![r] = m] /\ mem'[r] = m
    BY <1>1, <1>10 DEF SaveTurn, TypeOK
  <2>4. row' \in Seq(Message) /\ writeErrors' \in 0 .. MaxWriteErrors
    BY <1>3, <1>10, <2>2, <2>3 DEF SaveTurn, Overwrite, WriteFails, TypeOK
  <2> HIDE DEF m
  <2> QED
    BY <1>1, <1>10, <2>2, <2>3, <2>4 DEF TypeOK, SaveTurn, feedbackVars
<1>11. CASE RelistTurn(r)
  <2>1. writeErrors' \in 0 .. MaxWriteErrors /\ listed' \in BOOLEAN
    BY <1>11, WriteTypes DEF RelistTurn
  <2> QED
    BY <1>1, <1>11, <2>1 DEF TypeOK, RelistTurn, feedbackVars
<1> QED
  BY <1>5, <1>6, <1>7, <1>8, <1>9, <1>10, <1>11 DEF TurnNext

LEMMA PairAppended ==
  ASSUME NEW db \in Seq(Message), NEW u \in Message, NEW a \in Message
  PROVE  /\ db \o <<u, a>> \in Seq(Message)
         /\ Keys(db) \subseteq Keys(db \o <<u, a>>)
         /\ Len(db \o <<u, a>>) = Len(db) + 2
         /\ (db \o <<u, a>>)[Len(db) + 2] = a
<1>1. Len(db) \in Nat
  BY LenProperties
<1>2. <<u, a>> \in Seq(Message) /\ Len(<<u, a>>) = 2 /\ <<u, a>>[2] = a
  BY DEF Message
<1>3. /\ db \o <<u, a>> \in Seq(Message)
      /\ Len(db \o <<u, a>>) = Len(db) + 2
      /\ \A i \in 1 .. Len(db) + 2 : (db \o <<u, a>>)[i] =
            IF i <= Len(db) THEN db[i] ELSE <<u, a>>[i - Len(db)]
  BY <1>2, ConcatProperties
<1>4. (db \o <<u, a>>)[Len(db) + 2] = a
  BY <1>1, <1>2, <1>3
<1>5. \A i \in 1 .. Len(db) : (db \o <<u, a>>)[i] = db[i]
  BY <1>1, <1>3
<1> QED
  BY <1>1, <1>3, <1>4, <1>5 DEF Keys

\* A step of a question, when the loop is free, whatever else runs.
AskStep(r) == AppendAnswer(r) \/ SaveAsk(r) \/ RelistAsk(r)

LEMMA AskNextIs ==
  ASSUME NEW r, AskNext(r)
  PROVE  AskStep(r)
  BY DEF AskNext, AskStep, ReadAsk

LEMMA TypeAsk ==
  ASSUME TypeOK, NEW r \in Asks, AskStep(r)
  PROVE  TypeOK'
<1>1. r \in Requests /\ r \in Owners
  BY DEF Requests, Owners
<1>2. UserMessage(r) \in Message /\ AssistantMessage(r, "answer") \in Message
  BY <1>1, MessageTypes DEF Texts
<1>3. row \in Seq(Message) /\ << >> \in Seq(Message) /\ shown \in Seq(Message)
  BY EmptySeq DEF TypeOK
<1> USE HistoryAssumption
<1>4. CASE AppendAnswer(r)
  <2>1. PICK db \in {row, << >>} :
          /\ Reads(db)
          /\ mem' = [mem EXCEPT ![r] =
                        db \o <<UserMessage(r), AssistantMessage(r, "answer")>>]
    BY <1>4 DEF AppendAnswer
  <2>2. db \o <<UserMessage(r), AssistantMessage(r, "answer")>> \in Seq(Message)
    BY <1>2, <1>3, PairAppended
  <2>3. readErrors' \in 0 .. MaxReadErrors
    BY <2>1 DEF Reads, ReadFails, TypeOK
  <2>4. text' \in [Requests -> Texts]
    BY <1>1, <1>4 DEF AppendAnswer, TypeOK, Texts
  <2> QED
    BY <1>1, <1>4, <2>1, <2>2, <2>3, <2>4 DEF TypeOK, AppendAnswer, feedbackVars
<1>5. CASE SaveAsk(r)
  <2>1. mem[r] \in Seq(Message) /\ text[r] \in Texts
    BY <1>1 DEF TypeOK
  <2>2. StoreAnswer(mem[r], r, text[r]) \in Seq(Message)
    BY <1>1, <2>1, StoreAnswerType
  <2>3. row' \in Seq(Message) /\ writeErrors' \in 0 .. MaxWriteErrors
    BY <1>3, <1>5, <2>2 DEF SaveAsk, Overwrite, WriteFails, TypeOK
  <2> QED
    BY <1>1, <1>5, <2>3 DEF TypeOK, SaveAsk, feedbackVars
<1>6. CASE RelistAsk(r)
  <2>1. writeErrors' \in 0 .. MaxWriteErrors /\ listed' \in BOOLEAN
    BY <1>6, WriteTypes DEF RelistAsk
  <2>2. shown' \in Seq(Message)
    BY <1>2, <1>3, <1>6, PairAppended DEF RelistAsk
  <2> QED
    BY <1>1, <1>6, <2>1, <2>2 DEF TypeOK, RelistAsk, feedbackVars
<1> QED
  BY <1>4, <1>5, <1>6 DEF AskStep

LEMMA TypeFeedback ==
  ASSUME TypeOK, FeedbackNext
  PROVE  TypeOK'
<1> USE HistoryAssumption
<1>1. ASSUME NEW i \in 1 .. Len(row), NEW reaction \in Reactions, ReadFeedback(i, reaction)
      PROVE  TypeOK'
  <2>1. row \in Seq(Message)
    BY DEF TypeOK
  <2>2. React(row, i, reaction) \in Seq(Message)
    BY <2>1, ReactKeeps
  <2>3. row[i] \in Message
    BY <2>1, ElementOfSeq
  <2>4. row[i].owner \in Owners
    BY <2>3 DEF Message
  <2> QED
    BY <1>1, <2>2, <2>4 DEF TypeOK, ReadFeedback, requestVars
<1>2. CASE WriteFeedback
  <2>1. row' \in Seq(Message) /\ writeErrors' \in 0 .. MaxWriteErrors
    BY <1>2 DEF WriteFeedback, Overwrite, WriteFails, TypeOK
  <2>2. mark[1] \in Owners /\ mark[2] \in Reactions \cup {"none"}
    BY DEF TypeOK
  <2> QED
    BY <1>2, <2>1, <2>2 DEF TypeOK, WriteFeedback, requestVars
<1> QED
  BY <1>1, <1>2 DEF FeedbackNext

LEMMA TypeDelete ==
  ASSUME TypeOK, DeleteNext
  PROVE  TypeOK'
<1> USE HistoryAssumption
<1>1. << >> \in Seq(Message)
  BY EmptySeq
<1>2. CASE VerifyOwner
  BY <1>2 DEF TypeOK, VerifyOwner, requestVars, feedbackVars
<1>3. CASE DeleteHistory
  <2>1. writeErrors' \in 0 .. MaxWriteErrors
    BY <1>3, WriteTypes DEF DeleteHistory
  <2> QED
    BY <1>1, <1>3, <2>1 DEF TypeOK, DeleteHistory, Forget, requestVars, feedbackVars
<1>4. CASE DeleteListing
  <2>1. writeErrors' \in 0 .. MaxWriteErrors
    BY <1>4, WriteTypes DEF DeleteListing
  <2>2. listed' \in BOOLEAN /\ deleted' \in BOOLEAN
    BY <1>4, Zenon DEF DeleteListing, TypeOK
  <2>3. shown' \in Seq(Message)
    BY <1>1, <1>4 DEF DeleteListing, TypeOK
  <2> QED
    BY <1>4, <2>1, <2>2, <2>3 DEF TypeOK, DeleteListing, requestVars, feedbackVars
<1> QED
  BY <1>2, <1>3, <1>4 DEF DeleteNext

LEMMA TypeStep == TypeOK /\ [Next]_vars => TypeOK'
<1>1. ASSUME TypeOK, UNCHANGED vars PROVE TypeOK'
  BY <1>1 DEF TypeOK, vars, requestVars, feedbackVars
<1> QED
  BY <1>1, TypeTurn, TypeAsk, AskNextIs, TypeFeedback, TypeDelete DEF Next

\* Every variable keeps its type: the row is always a well-formed list of
\* messages, also after merges that drop repeated ones (_do_merge,
\* _save_chat_history, save_message_feedback).
THEOREM TypeCorrect == Spec => []TypeOK
  BY TypeInit, TypeStep, PTL DEF Spec

-------------------------------------------------------------------------------
\* Sequential calls and working reads: no overwrite loses a message.

\* What SoloInv says of one request, in the next state.
Kept(r) ==
    /\ pc'[r] \in {"list", "answer", "save"} => Keys(row') \subseteq Keys(mem'[r])
    /\ r \in Asks /\ pc'[r] = "save" => EndsWith(mem'[r], text'[r])

LEMMA SoloFrom ==
  ASSUME TypeOK', Alone', \A r \in Requests : Kept(r),
         loop' = "feedback" => Keys(row') \subseteq Keys(held')
  PROVE  SoloInv'
  BY DEF SoloInv, Covered, Kept, Requests

\* A step of request r that leaves the others alone.
LEMMA OthersKept ==
  ASSUME SoloInv, Alone', NEW r \in Requests, NEW p,
         pc' = [pc EXCEPT ![r] = p], Running(r) \/ p \notin {"new", "done"}
  PROVE  /\ \A o \in Requests : o # r => pc'[o] = pc[o] /\ pc'[o] \in {"new", "done"}
         /\ pc'[r] = p
<1>1. (\A o \in Requests : o # r => pc'[o] = pc[o]) /\ pc'[r] = p
  BY DEF SoloInv, TypeOK
<1>2. \A o \in Requests : o # r => pc'[o] \in {"new", "done"}
  BY <1>1 DEF SoloInv, Alone, Running
<1> QED
  BY <1>1, <1>2

\* Calls that may not overlap follow one another.
LEMMA AloneStep ==
  ASSUME SoloInv, Overlap = {}, [Next]_vars
  PROVE  Alone'
<1>1. TypeOK /\ Alone
  BY DEF SoloInv
<1>2. ASSUME NEW r \in Requests, NEW p, pc' = [pc EXCEPT ![r] = p],
             \/ Running(r) /\ loop' \in {loop, "idle"}
             \/ (\A o \in Requests : ~Running(o)) /\ loop' \in {"idle", "ask"}
      PROVE  Alone'
  <2>1. (\A o \in Requests : o # r => pc'[o] = pc[o]) /\ pc'[r] = p
    BY <1>1, <1>2 DEF TypeOK
  <2>2. \A o \in Requests : o # r => pc'[o] \in {"new", "done"}
    BY <1>1, <1>2, <2>1 DEF Alone, Running
  <2>3. loop' \notin {"feedback", "history", "listing"}
    BY <1>1, <1>2 DEF Alone
  <2> QED
    BY <2>2, <2>3 DEF Alone, Running
<1>3. ASSUME NEW r \in Turns, TurnNext(r) PROVE Alone'
  <2>1. r \in Requests
    BY DEF Requests
  <2> QED
    BY <1>2, <1>3, <2>1 DEF TurnNext, Start, MayStart, Read, List, Refuse, Answer, SaveTurn,
         RelistTurn, Running
<1>4. ASSUME NEW r \in Asks, AskNext(r) PROVE Alone'
  <2>1. r \in Requests
    BY DEF Requests
  <2> QED
    BY <1>2, <1>4, <2>1 DEF AskNext, ReadAsk, AppendAnswer, MayStart, SaveAsk, RelistAsk, Running
<1>5. ASSUME FeedbackNext \/ DeleteNext PROVE Alone'
  <2>1. UNCHANGED pc /\ \A r \in Requests : ~Running(r)
    BY <1>1, <1>5 DEF FeedbackNext, DeleteNext, ReadFeedback, WriteFeedback, VerifyOwner,
         DeleteHistory, DeleteListing, MayStart, Alone, requestVars
  <2> QED
    BY <2>1 DEF Alone, Running
<1>6. CASE UNCHANGED vars
  BY <1>1, <1>6 DEF Alone, Running, vars, requestVars
<1> QED
  BY <1>3, <1>4, <1>5, <1>6 DEF Next

LEMMA SoloTurn ==
  ASSUME SoloInv, Alone', readErrors' = readErrors, NEW r \in Turns, TurnNext(r), TypeOK'
  PROVE  SoloInv'
<1>1. r \in Requests /\ r \in Owners /\ r \notin Asks /\ TypeOK
  BY HistoryAssumption DEF Requests, Owners, SoloInv
<1>2. loop \notin {"feedback", "history", "listing"} \/ \A o \in Requests : ~Running(o)
  BY DEF SoloInv, Alone
<1>3. ASSUME NEW sent \in Fronts, Start(r, sent) PROVE SoloInv'
  <2>1. /\ \A o \in Requests : o # r => pc'[o] \in {"new", "done"}
        /\ pc'[r] = "read" /\ loop' = "idle"
    BY <1>1, <1>3, OthersKept DEF Start, MayStart
  <2> QED
    BY <2>1, SoloFrom DEF Kept
<1>4. CASE Read(r)
  <2>1. loop' \notin {"feedback", "history", "listing"}
    BY <1>1, <1>2, <1>4 DEF Read, Running
  <2>2. /\ \A o \in Requests : o # r => pc'[o] \in {"new", "done"}
        /\ pc'[r] = "list"
    BY <1>1, <1>4, <2>1, OthersKept DEF Read, Running
  <2>3. mem' = [mem EXCEPT ![r] = Merge(row, front[r])] /\ row' = row
    <3>1. ~ReadFails
      BY <1>1 DEF ReadFails, TypeOK
    <3> QED
      BY <1>4, <3>1 DEF Read, Reads
  <2>4. mem'[r] = Merge(row, front[r])
    BY <1>1, <2>3 DEF TypeOK
  <2>5. Keys(row') \subseteq Keys(mem'[r])
    BY <1>1, <2>3, <2>4, MergeKeeps DEF TypeOK
  <2> QED
    BY <1>1, <2>1, <2>2, <2>5, SoloFrom DEF Kept
<1>5. CASE List(r)
  <2>1. loop' \notin {"feedback", "history", "listing"} /\ row' = row /\ mem' = mem
    BY <1>1, <1>2, <1>5 DEF List, Running
  <2>2. PICK p \in {"answer", "done"} : pc' = [pc EXCEPT ![r] = p]
    BY <1>5 DEF List
  <2>3. /\ \A o \in Requests : o # r => pc'[o] \in {"new", "done"}
        /\ pc'[r] = p
    BY <1>1, <1>5, <2>1, <2>2, OthersKept DEF List, Running
  <2>4. Keys(row) \subseteq Keys(mem[r])
    BY <1>1, <1>5 DEF List, SoloInv, Covered
  <2> QED
    BY <1>1, <2>1, <2>3, <2>4, SoloFrom DEF Kept
<1>6. CASE Refuse(r)
  <2>1. /\ \A o \in Requests : o # r => pc'[o] \in {"new", "done"}
        /\ pc'[r] = "done" /\ loop' = "idle"
    BY <1>1, <1>6, OthersKept DEF Refuse, Running
  <2> QED
    BY <2>1, SoloFrom DEF Kept
<1>7. ASSUME NEW result \in Answers, Answer(r, result) PROVE SoloInv'
  <2>1. /\ \A o \in Requests : o # r => pc'[o] \in {"new", "done"}
        /\ pc'[r] = "save" /\ loop' = "idle"
    BY <1>1, <1>7, OthersKept DEF Answer, Running
  <2>2. Keys(row') \subseteq Keys(mem'[r])
    BY <1>1, <1>7 DEF Answer, SoloInv, Covered
  <2> QED
    BY <1>1, <2>1, <2>2, SoloFrom DEF Kept
<1>8. ASSUME NEW p, pc' = [pc EXCEPT ![r] = p], p \in {"relist", "done"}, Running(r),
             UNCHANGED loop
      PROVE  SoloInv'
  <2>1. loop' \notin {"feedback", "history", "listing"}
    BY <1>1, <1>2, <1>8
  <2>2. /\ \A o \in Requests : o # r => pc'[o] \in {"new", "done"}
        /\ pc'[r] = p
    BY <1>1, <1>8, <2>1, OthersKept
  <2> QED
    BY <1>8, <2>1, <2>2, SoloFrom DEF Kept
<1>9. CASE SaveTurn(r)
  BY <1>8, <1>9 DEF SaveTurn, Running
<1>10. CASE RelistTurn(r)
  BY <1>8, <1>10 DEF RelistTurn, Running
<1> QED
  BY <1>3, <1>4, <1>5, <1>6, <1>7, <1>9, <1>10 DEF TurnNext

LEMMA SoloAsk ==
  ASSUME SoloInv, Alone', readErrors' = readErrors, NEW r \in Asks, AskNext(r), TypeOK'
  PROVE  SoloInv'
<1>1. r \in Requests /\ r \in Owners /\ TypeOK
  BY DEF Requests, Owners, SoloInv
<1>2. loop \notin {"feedback", "history", "listing"} \/ \A o \in Requests : ~Running(o)
  BY DEF SoloInv, Alone
<1>3. CASE ReadAsk(r)
  <2> DEFINE u == UserMessage(r)
             a == AssistantMessage(r, "answer")
             m == row \o <<u, a>>
  <2>1. /\ \A o \in Requests : o # r => pc'[o] \in {"new", "done"}
        /\ pc'[r] = "save" /\ loop' = "ask"
    BY <1>1, <1>3, OthersKept DEF ReadAsk, AppendAnswer, MayStart
  <2>2. ~ReadFails
    BY <1>1 DEF ReadFails, TypeOK
  <2>3. mem'[r] = m /\ row' = row /\ text'[r] = "answer"
    BY <1>1, <1>3, <2>2 DEF ReadAsk, AppendAnswer, Reads, TypeOK
  <2>4. u \in Message /\ a \in Message /\ a.role = "assistant" /\ a.text = "answer"
    BY <1>1, MessageTypes DEF Texts, AssistantMessage
  <2> HIDE DEF u, a
  <2>5. Keys(row) \subseteq Keys(m) /\ Len(m) = Len(row) + 2 /\ m[Len(row) + 2] = a
    BY <1>1, <2>4, PairAppended DEF TypeOK
  <2>6. EndsWith(m, "answer")
    BY <1>1, <2>4, <2>5, LenProperties DEF EndsWith, TypeOK
  <2> HIDE DEF m
  <2> QED
    BY <2>1, <2>3, <2>5, <2>6, SoloFrom DEF Kept
<1>4. CASE SaveAsk(r)
  <2>1. loop' \notin {"feedback", "history", "listing"}
    BY <1>1, <1>2, <1>4 DEF SaveAsk, Running
  <2>2. /\ \A o \in Requests : o # r => pc'[o] \in {"new", "done"}
        /\ pc'[r] = "relist"
    BY <1>1, <1>4, <2>1, OthersKept DEF SaveAsk, Running
  <2> QED
    BY <2>1, <2>2, SoloFrom DEF Kept
<1>5. CASE RelistAsk(r)
  <2>1. /\ \A o \in Requests : o # r => pc'[o] \in {"new", "done"}
        /\ pc'[r] = "done" /\ loop' = "idle"
    BY <1>1, <1>5, OthersKept DEF RelistAsk, Running
  <2> QED
    BY <2>1, SoloFrom DEF Kept
<1> QED
  BY <1>3, <1>4, <1>5 DEF AskNext

LEMMA SoloLoop ==
  ASSUME SoloInv, Alone', FeedbackNext \/ DeleteNext, TypeOK'
  PROVE  SoloInv'
<1>1. TypeOK
  BY DEF SoloInv
<1>2. UNCHANGED <<pc, mem, text>> /\ \A r \in Requests : ~Running(r)
  <2>1. UNCHANGED <<pc, mem, text>>
    BY DEF FeedbackNext, DeleteNext, ReadFeedback, WriteFeedback, VerifyOwner, DeleteHistory,
           DeleteListing, requestVars
  <2>2. loop \in {"feedback", "history", "listing"} \/ loop' \in {"feedback", "history"}
    BY DEF FeedbackNext, DeleteNext, ReadFeedback, WriteFeedback, VerifyOwner, DeleteHistory,
           DeleteListing
  <2> QED
    BY <2>1, <2>2 DEF SoloInv, Alone, Running
<1>3. \A r \in Requests : pc'[r] \in {"new", "done"}
  BY <1>2 DEF Running
<1>4. \A r \in Requests : Kept(r)
  BY <1>3 DEF Kept
<1>5. loop' = "feedback" => Keys(row') \subseteq Keys(held')
  <2>1. SUFFICES ASSUME loop' = "feedback" PROVE Keys(row') \subseteq Keys(held')
    OBVIOUS
  <2>2. PICK i \in 1 .. Len(row), reaction \in Reactions : ReadFeedback(i, reaction)
    BY <2>1 DEF FeedbackNext, DeleteNext, WriteFeedback, VerifyOwner, DeleteHistory, DeleteListing
  <2> QED
    BY <1>1, <2>2, ReactKeeps DEF ReadFeedback, TypeOK
<1> QED
  BY <1>4, <1>5, SoloFrom

LEMMA SoloStep ==
  ASSUME SoloInv, [Next]_vars, Alone', readErrors' = readErrors
  PROVE  SoloInv'
<1>1. TypeOK'
  BY TypeStep DEF SoloInv
<1>2. CASE UNCHANGED vars
  BY <1>1, <1>2 DEF SoloInv, Alone, Covered, Running, EndsWith, vars, requestVars, feedbackVars
<1> QED
  BY <1>1, <1>2, SoloTurn, SoloAsk, SoloLoop DEF Next

LEMMA OneByOne ==
  ASSUME Overlap = {}, MaxReadErrors = 0, SoloInv, [Next]_vars
  PROVE  Alone' /\ readErrors' = readErrors /\ SoloInv'
<1>1. TypeOK /\ TypeOK'
  BY TypeStep DEF SoloInv
<1>2. readErrors = 0 /\ readErrors' = 0
  BY <1>1 DEF TypeOK
<1> QED
  BY <1>2, AloneStep, SoloStep

LEMMA SoloInit == Init => SoloInv
  BY TypeInit DEF Init, SoloInv, Alone, Covered, Running, Requests

LEMMA KeysCovered ==
  ASSUME NEW s, NEW t, Keys(s) \subseteq Keys(t)
  PROVE  \A i \in 1 .. Len(s) : \E j \in 1 .. Len(t) : Key(t[j]) = Key(s[i])
  BY DEF Keys

\* The action part of NothingLost.
LEMMA NothingLostStep ==
  ASSUME SoloInv, [Next]_vars, loop # "history"
  PROVE  Keys(row) \subseteq Keys(row')
<1>1. TypeOK
  BY DEF SoloInv
<1>2. CASE UNCHANGED row
  BY <1>2
<1>3. ASSUME NEW r \in Turns, SaveTurn(r), row' # row PROVE Keys(row) \subseteq Keys(row')
  <2> DEFINE a == AssistantMessage(r, text[r])
             m == Append(mem[r], a)
  <2>1. r \in Requests /\ mem[r] \in Seq(Message) /\ text[r] \in Texts
    BY <1>1 DEF TypeOK, Requests
  <2>2. a \in Message /\ a.role = "assistant" /\ a.text = text[r]
    BY <2>1, MessageTypes DEF Owners, AssistantMessage
  <2> HIDE DEF a
  <2>3. /\ m \in Seq(Message) /\ Keys(mem[r]) \subseteq Keys(m)
        /\ Len(m) = Len(mem[r]) + 1 /\ m[Len(mem[r]) + 1] = a
    BY <2>1, <2>2, AppendKeeps
  <2>4. EndsWith(m, text[r])
    BY <2>1, <2>2, <2>3, LenProperties DEF EndsWith
  <2>5. row' = StoreAnswer(m, r, text[r])
    BY <1>1, <1>3, <2>1 DEF SaveTurn, Overwrite, TypeOK, a
  <2> HIDE DEF m
  <2>6. row' = m
    BY <2>3, <2>4, <2>5, StoreAnswerFixed
  <2> QED
    BY <1>3, <2>1, <2>3, <2>6 DEF SaveTurn, SoloInv, Covered
<1>4. ASSUME NEW r \in Asks, SaveAsk(r), row' # row PROVE Keys(row) \subseteq Keys(row')
  <2>1. r \in Requests /\ mem[r] \in Seq(Message) /\ EndsWith(mem[r], text[r])
    BY <1>1, <1>4 DEF TypeOK, Requests, SaveAsk, SoloInv
  <2>2. row' = mem[r]
    BY <1>4, <2>1, StoreAnswerFixed DEF SaveAsk, Overwrite
  <2> QED
    BY <1>4, <2>1, <2>2 DEF SaveAsk, SoloInv, Covered
<1>5. ASSUME WriteFeedback, row' # row PROVE Keys(row) \subseteq Keys(row')
  BY <1>5 DEF WriteFeedback, Overwrite, SoloInv, Covered
<1>6. ASSUME ~UNCHANGED row
      PROVE  \/ \E r \in Turns : SaveTurn(r)
             \/ \E r \in Asks : SaveAsk(r)
             \/ WriteFeedback
  BY <1>6 DEF Next, TurnNext, AskNext, FeedbackNext, DeleteNext, Start, Read, List, Refuse, Answer,
         RelistTurn, ReadAsk, AppendAnswer, RelistAsk, ReadFeedback, VerifyOwner, DeleteHistory,
         DeleteListing, vars
<1> QED
  BY <1>2, <1>3, <1>4, <1>5, <1>6

\* When the calls for a conversation follow one another and reads work, no
\* turn, document question or feedback removes a stored message, for any
\* number of calls, any form of client messages and any failing writes
\* (_do_merge, _save_chat_history, upsert_history with overwrite=True).
THEOREM SequentialLosesNothing ==
  ASSUME Overlap = {}, MaxReadErrors = 0
  PROVE  Spec => NothingLost
<1> DEFINE Keep == loop # "history" =>
         \A i \in 1 .. Len(row) : \E j \in 1 .. Len(row') :
             Key(row'[j]) = Key(row[i])
<1>1. SoloInv /\ [Next]_vars => Keep
  BY NothingLostStep, KeysCovered
<1>2. SoloInv /\ [Next]_vars => SoloInv'
  BY OneByOne
<1>3. SoloInv /\ [Next]_vars => [Keep]_vars
  BY <1>1
<1> HIDE DEF Keep
<1>4. Spec => [][Keep]_vars
  BY SoloInit, <1>2, <1>3, PTL DEF Spec
<1> QED
  BY <1>4 DEF Keep, NothingLost

-------------------------------------------------------------------------------
\* Whole turns: with clients that send their new question, no overlap of calls
\* and no failure tears a turn apart.

\* WholeTurns of any message list.
Greets(s) == IF Len(s) > 0 /\ s[1].owner = Greeting THEN 1 ELSE 0
AsksAt(s, i) == (i - Greets(s)) % 2 = 1

Whole(s) ==
    /\ (Len(s) - Greets(s)) % 2 = 0
    /\ \A i \in Greets(s) + 1 .. Len(s) :
         /\ s[i].owner \in Requests
         /\ s[i].role = IF AsksAt(s, i) THEN "user" ELSE "assistant"
         /\ AsksAt(s, i) => s[i + 1].owner = s[i].owner
    /\ \A i, j \in Greets(s) + 1 .. Len(s) :
         (s[i].owner = s[j].owner /\ s[i].role = s[j].role) => i = j

\* A list of whole turns of requests that, where p says how far each one is, have
\* saved, or are of D.
Saved == {"relist", "done"}
Base(s, p, D) ==
    /\ s \in Seq(Message) /\ Whole(s)
    /\ \A i \in 1 .. Len(s) :
          s[i].owner \in Requests => p[s[i].owner] \in Saved \/ s[i].owner \in D

\* What a request holds: such a list, and its own messages.
Prepared(r, D) ==
    /\ r \in Turns /\ pc[r] \in {"list", "answer", "save"} =>
          \E db : Base(db, pc, D) /\ mem[r] = Append(db, UserMessage(r))
    /\ r \in Asks /\ pc[r] = "save" =>
          \E db : /\ Base(db, pc, D)
                  /\ mem[r] = db \o <<UserMessage(r), AssistantMessage(r, text[r])>>

TurnsInv(D) ==
    /\ TypeOK
    /\ Base(row, pc, D)
    /\ loop = "feedback" => Base(held, pc, D)
    /\ \A r \in Requests : Prepared(r, D)

\* A turn that reads adds its question to what it read, and nothing else; so it is
\* when its client sent that question alone.
Adds ==
    \A r \in Turns, db \in {row, << >>} :
        Read(r) /\ Reads(db) => Merge(db, front[r]) = Append(db, UserMessage(r))

SentNew == \A r \in Turns : pc[r] = "read" => front[r] = <<UserMessage(r)>>
StartsNew ==
    \A r \in Turns, sent \in Fronts : Start(r, sent) => front'[r] = <<UserMessage(r)>>

\* Another turn behind whole turns.
LEMMA WholeAppended ==
  ASSUME NEW s \in Seq(Message), Whole(s), NEW r \in Requests, NEW t \in Texts,
         \A i \in 1 .. Len(s) : s[i].owner # r
  PROVE  /\ s \o <<UserMessage(r), AssistantMessage(r, t)>> \in Seq(Message)
         /\ Whole(s \o <<UserMessage(r), AssistantMessage(r, t)>>)
         /\ Len(s \o <<UserMessage(r), AssistantMessage(r, t)>>) = Len(s) + 2
         /\ \A i \in 1 .. Len(s) + 2 :
               (s \o <<UserMessage(r), AssistantMessage(r, t)>>)[i] =
                  IF i <= Len(s) THEN s[i]
                  ELSE IF i = Len(s) + 1 THEN UserMessage(r) ELSE AssistantMessage(r, t)
<1> DEFINE u == UserMessage(r)
           a == AssistantMessage(r, t)
           z == s \o <<u, a>>
           n == Len(s)
           g == Greets(s)
<1>1. n \in Nat /\ r # Greeting
  BY LenProperties, HistoryAssumption DEF Requests
<1>2. /\ u \in Message /\ u.owner = r /\ u.role = "user"
      /\ a \in Message /\ a.owner = r /\ a.role = "assistant"
  BY MessageTypes DEF Owners, UserMessage, AssistantMessage
<1> HIDE DEF u, a
<1>3. <<u, a>> \in Seq(Message) /\ Len(<<u, a>>) = 2 /\ <<u, a>>[1] = u /\ <<u, a>>[2] = a
  BY <1>2
<1>4. /\ z \in Seq(Message) /\ Len(z) = n + 2
      /\ \A i \in 1 .. n + 2 : z[i] = IF i <= n THEN s[i] ELSE <<u, a>>[i - n]
  BY <1>3, ConcatProperties
<1>5. \A i \in 1 .. n : z[i] = s[i]
  BY <1>1, <1>4
<1>6. z[n + 1] = u /\ z[n + 2] = a
  BY <1>1, <1>3, <1>4
<1> HIDE DEF z
<1>7. Greets(z) = g /\ g \in {0, 1} /\ g <= n
  BY <1>1, <1>2, <1>4, <1>5, <1>6 DEF Greets
<1> HIDE DEF g
<1>8. (n - g) % 2 = 0
  BY DEF Whole, g
<1>9. \A d \in Int : d % 2 = 0 => (d + 2) % 2 = 0 /\ (d + 1) % 2 = 1
  OBVIOUS
<1>10. /\ (n + 2 - g) % 2 = 0 /\ (n + 1 - g) % 2 = 1
       /\ (n + 2 - g) % 2 # 1
  <2>1. PICK d \in Int : d = n - g
    BY <1>1, <1>7
  <2>2. n + 2 - g = d + 2 /\ n + 1 - g = d + 1
    BY <1>1, <1>7, <2>1
  <2>3. d % 2 = 0
    BY <1>8, <2>1
  <2>4. (d + 2) % 2 = 0 /\ (d + 1) % 2 = 1 /\ (d + 2) % 2 # 1
    BY <1>9, <2>3
  <2> QED
    BY <2>2, <2>4
<1>11. ASSUME NEW i \in g + 1 .. n + 2
       PROVE  /\ z[i].owner \in Requests
              /\ z[i].role = IF (i - g) % 2 = 1 THEN "user" ELSE "assistant"
              /\ (i - g) % 2 = 1 => z[i + 1].owner = z[i].owner
  <2>1. CASE i \in g + 1 .. n
    <3>1. /\ s[i].owner \in Requests
          /\ s[i].role = IF (i - g) % 2 = 1 THEN "user" ELSE "assistant"
          /\ (i - g) % 2 = 1 => s[i + 1].owner = s[i].owner
      BY <2>1 DEF Whole, AsksAt, g
    <3>2. (i - g) % 2 = 1 => i + 1 \in 1 .. n
      BY <1>1, <1>7, <1>8, <2>1
    <3>3. i \in 1 .. n
      BY <1>1, <1>7, <2>1
    <3> QED
      BY <1>5, <3>1, <3>2, <3>3
  <2>2. CASE i = n + 1
    <3>1. i + 1 = n + 2 /\ z[i] = u /\ z[i + 1] = a
      BY <1>1, <1>6, <2>2
    <3>2. (i - g) % 2 = 1
      BY <1>1, <1>7, <1>10, <2>2
    <3> QED
      BY <1>2, <3>1, <3>2
  <2>3. CASE i = n + 2
    <3>1. z[i] = a /\ (i - g) % 2 # 1
      BY <1>1, <1>6, <1>7, <1>10, <2>3
    <3> QED
      BY <1>2, <3>1
  <2> QED
    BY <1>1, <1>7, <2>1, <2>2, <2>3
<1>12. ASSUME NEW i \in g + 1 .. n + 2, NEW j \in g + 1 .. n + 2,
              z[i].owner = z[j].owner, z[i].role = z[j].role
       PROVE  i = j
  <2>1. \A k \in g + 1 .. n : k \in 1 .. n /\ z[k] = s[k] /\ s[k].owner # r
    BY <1>1, <1>5, <1>7
  <2>2. \A k \in g + 1 .. n + 2 : k \in g + 1 .. n \/ k = n + 1 \/ k = n + 2
    BY <1>1, <1>7
  <2>3. CASE i \in g + 1 .. n /\ j \in g + 1 .. n
    BY <1>12, <2>1, <2>3 DEF Whole, g
  <2>4. CASE ~ (i \in g + 1 .. n /\ j \in g + 1 .. n)
    BY <1>2, <1>6, <1>12, <2>1, <2>2, <2>4
  <2> QED
    BY <2>3, <2>4
<1>13. Whole(z)
  BY <1>4, <1>7, <1>10, <1>11, <1>12 DEF Whole, AsksAt
<1>14. \A i \in 1 .. n + 2 : z[i] = IF i <= n THEN s[i] ELSE IF i = n + 1 THEN u ELSE a
  BY <1>1, <1>5, <1>6
<1> QED
  BY <1>4, <1>13, <1>14 DEF z, u, a

\* Only the owners and roles matter.
LEMMA WholeSame ==
  ASSUME NEW s \in Seq(Message), NEW z \in Seq(Message), Whole(s), Len(z) = Len(s),
         \A i \in 1 .. Len(s) : z[i].owner = s[i].owner /\ z[i].role = s[i].role
  PROVE  Whole(z)
<1> DEFINE n == Len(s)
           g == Greets(s)
<1>1. n \in Nat
  BY LenProperties
<1>2. Greets(z) = g /\ g \in {0, 1}
  BY <1>1 DEF Greets
<1> HIDE DEF g
<1>3. ASSUME NEW i \in g + 1 .. n
      PROVE  /\ z[i].owner \in Requests
             /\ z[i].role = IF (i - g) % 2 = 1 THEN "user" ELSE "assistant"
             /\ (i - g) % 2 = 1 => z[i + 1].owner = z[i].owner
  <2>1. i \in 1 .. n
    BY <1>1, <1>2
  <2>2. (n - g) % 2 = 0
    BY DEF Whole, g
  <2>3. (i - g) % 2 = 1 => i + 1 \in 1 .. n
    BY <1>1, <1>2, <2>1, <2>2
  <2>4. /\ s[i].owner \in Requests
        /\ s[i].role = IF (i - g) % 2 = 1 THEN "user" ELSE "assistant"
        /\ (i - g) % 2 = 1 => s[i + 1].owner = s[i].owner
    BY DEF Whole, AsksAt, g
  <2> QED
    BY <2>1, <2>3, <2>4
<1>4. ASSUME NEW i \in g + 1 .. n, NEW j \in g + 1 .. n,
             z[i].owner = z[j].owner, z[i].role = z[j].role
      PROVE  i = j
  <2>1. i \in 1 .. n /\ j \in 1 .. n
    BY <1>1, <1>2
  <2> QED
    BY <1>4, <2>1 DEF Whole, g
<1>5. (Len(z) - g) % 2 = 0
  BY DEF Whole, g
<1> QED
  BY <1>2, <1>3, <1>4, <1>5 DEF Whole, AsksAt

LEMMA ReactPoints ==
  ASSUME NEW s \in Seq(Message), NEW i \in 1 .. Len(s), NEW x \in Reactions
  PROVE  /\ React(s, i, x) \in Seq(Message) /\ Len(React(s, i, x)) = Len(s)
         /\ \A j \in 1 .. Len(s) :
               /\ React(s, i, x)[j].owner = s[j].owner
               /\ React(s, i, x)[j].role = s[j].role
               /\ React(s, i, x)[j].text = s[j].text
               /\ React(s, i, x)[j].reaction = IF j = i THEN x ELSE s[j].reaction
<1> DEFINE e == [s[i] EXCEPT !.reaction = x]
           z == [s EXCEPT ![i] = e]
<1>1. s[i] \in Message
  BY ElementOfSeq
<1>2. /\ e \in Message /\ e.reaction = x
      /\ e.owner = s[i].owner /\ e.role = s[i].role /\ e.text = s[i].text
  BY <1>1 DEF Message
<1>3. React(s, i, x) = z
  BY DEF React
<1> HIDE DEF e
<1>4. /\ z \in Seq(Message) /\ Len(z) = Len(s)
      /\ \A j \in 1 .. Len(s) : z[j] = IF j = i THEN e ELSE s[j]
  BY <1>2, ExceptSeq
<1> HIDE DEF z
<1> QED
  BY <1>2, <1>3, <1>4

LEMMA BaseStays ==
  ASSUME NEW D, NEW E, NEW s, NEW p, NEW q, Base(s, p, D), D \subseteq E,
         \A r \in Requests : p[r] \in Saved => q[r] \in Saved
  PROVE  Base(s, q, E)
  BY DEF Base

LEMMA BaseReact ==
  ASSUME NEW D, NEW s, NEW p, Base(s, p, D), NEW i \in 1 .. Len(s), NEW x \in Reactions
  PROVE  Base(React(s, i, x), p, D)
<1>1. s \in Seq(Message) /\ Whole(s)
  BY DEF Base
<1>2. /\ React(s, i, x) \in Seq(Message) /\ Len(React(s, i, x)) = Len(s)
      /\ \A j \in 1 .. Len(s) : /\ React(s, i, x)[j].owner = s[j].owner
                                /\ React(s, i, x)[j].role = s[j].role
  BY <1>1, ReactPoints
<1>3. Whole(React(s, i, x))
  BY <1>1, <1>2, WholeSame
<1> QED
  BY <1>2, <1>3 DEF Base

\* A request that has not saved is not in such a list, and saves whole turns.
LEMMA BaseAppended ==
  ASSUME NEW D, NEW E, D \subseteq E,
         NEW db, NEW p, NEW q, Base(db, p, D), NEW r \in Requests, p[r] \notin Saved, r \notin D,
         q[r] \in Saved \/ r \in E, \A o \in Requests : p[o] \in Saved => q[o] \in Saved,
         NEW t \in Texts
  PROVE  /\ Base(db \o <<UserMessage(r), AssistantMessage(r, t)>>, q, E)
         /\ EndsWith(db \o <<UserMessage(r), AssistantMessage(r, t)>>, t)
<1> DEFINE u == UserMessage(r)
           a == AssistantMessage(r, t)
           z == db \o <<u, a>>
<1>1. db \in Seq(Message) /\ Whole(db) /\ Len(db) \in Nat
  BY LenProperties DEF Base
<1>2. \A i \in 1 .. Len(db) : db[i].owner # r
  BY DEF Base
<1>3. u.owner = r /\ a.owner = r /\ a.role = "assistant" /\ a.text = t
  BY DEF UserMessage, AssistantMessage
<1>4. /\ z \in Seq(Message) /\ Whole(z) /\ Len(z) = Len(db) + 2
      /\ \A i \in 1 .. Len(db) + 2 :
            z[i] = IF i <= Len(db) THEN db[i] ELSE IF i = Len(db) + 1 THEN u ELSE a
  BY <1>1, <1>2, WholeAppended
<1> HIDE DEF u, a, z
<1>5. \A i \in 1 .. Len(z) : z[i].owner \in Requests => q[z[i].owner] \in Saved \/ z[i].owner \in E
  BY <1>1, <1>3, <1>4 DEF Base
<1>6. EndsWith(z, t)
  BY <1>1, <1>3, <1>4 DEF EndsWith
<1>7. Base(z, q, E)
  BY <1>4, <1>5 DEF Base
<1> QED
  BY <1>6, <1>7 DEF z, u, a

LEMMA TwoAppends ==
  ASSUME NEW s \in Seq(Message), NEW u \in Message, NEW a \in Message
  PROVE  Append(Append(s, u), a) = s \o <<u, a>>
<1>1. Len(s) \in Nat
  BY LenProperties
<1>2. /\ Append(s, u) \in Seq(Message) /\ Len(Append(s, u)) = Len(s) + 1
      /\ \A i \in 1 .. Len(s) : Append(s, u)[i] = s[i]
      /\ Append(s, u)[Len(s) + 1] = u
  BY AppendProperties
<1> DEFINE x == Append(s, u)
<1> HIDE DEF x
<1>3. x \in Seq(Message) /\ Len(x) = Len(s) + 1
  BY <1>2 DEF x
<1>4. /\ Append(x, a) \in Seq(Message) /\ Len(Append(x, a)) = Len(s) + 2
      /\ \A i \in 1 .. Len(s) + 1 : Append(x, a)[i] = x[i]
      /\ Append(x, a)[Len(s) + 2] = a
  BY <1>1, <1>3, AppendProperties
<1>5. <<u, a>> \in Seq(Message) /\ Len(<<u, a>>) = 2 /\ <<u, a>>[1] = u /\ <<u, a>>[2] = a
  BY DEF Message
<1>6. /\ s \o <<u, a>> \in Seq(Message) /\ Len(s \o <<u, a>>) = Len(s) + 2
      /\ \A i \in 1 .. Len(s) + 2 :
            (s \o <<u, a>>)[i] = IF i <= Len(s) THEN s[i] ELSE <<u, a>>[i - Len(s)]
  BY <1>5, ConcatProperties
<1> DEFINE y == Append(x, a)
           z == s \o <<u, a>>
<1>7. \A i \in 1 .. Len(s) : y[i] = s[i] /\ z[i] = s[i]
  BY <1>1, <1>2, <1>4, <1>6 DEF x
<1>8. y[Len(s) + 1] = u /\ z[Len(s) + 1] = u
  BY <1>1, <1>2, <1>4, <1>5, <1>6 DEF x
<1>9. y[Len(s) + 2] = a /\ z[Len(s) + 2] = a
  BY <1>1, <1>4, <1>5, <1>6
<1>10. y \in Seq(Message) /\ z \in Seq(Message) /\ Len(y) = Len(s) + 2 /\ Len(z) = Len(s) + 2
  BY <1>4, <1>6
<1> HIDE DEF y, z
<1>11. \A i \in 1 .. Len(s) + 2 : y[i] = z[i]
  BY <1>1, <1>7, <1>8, <1>9
<1>12. y = z
  BY <1>10, <1>11, SeqEqual
<1> QED
  BY <1>12 DEF x, y, z

\* The merge of a new question adds it.
LEMMA MergeNew ==
  ASSUME NEW db \in Seq(Message), NEW r \in Requests, \A i \in 1 .. Len(db) : db[i].owner # r
  PROVE  Merge(db, <<UserMessage(r)>>) = Append(db, UserMessage(r))
<1> DEFINE u == UserMessage(r)
           new == <<u>>
           ks == {k \in 0 .. Len(new) : k <= Len(db) /\ Repeats(db, new, k)}
           overlap == CHOOSE k \in ks : \A j \in ks : j <= k
<1>1. Len(db) \in Nat /\ u \in Message /\ u.owner = r
  BY LenProperties, MessageTypes DEF UserMessage
<1> HIDE DEF u
<1>2. Len(new) = 1 /\ new[1] = u
  OBVIOUS
<1> HIDE DEF new
<1>3. ASSUME 1 \in ks PROVE FALSE
  <2>1. 1 <= Len(db) /\ Key(db[Len(db) - 1 + 1]) = Key(new[1])
    BY <1>3 DEF Repeats
  <2>2. Len(db) - 1 + 1 = Len(db) /\ Len(db) \in 1 .. Len(db)
    BY <1>1, <2>1
  <2>3. db[Len(db)].owner = r
    BY <1>1, <1>2, <2>1, <2>2 DEF Key
  <2> QED
    BY <2>2, <2>3
<1>4. ks = {0}
  <2>1. 0 \in ks
    BY <1>1, <1>2 DEF Repeats
  <2>2. ks \subseteq {0, 1}
    BY <1>2
  <2> HIDE DEF ks
  <2> QED
    BY <1>3, <2>1, <2>2
<1>5. overlap = 0
  <2> HIDE DEF ks
  <2> QED
    BY <1>4
<1>6. Merge(db, new) = db \o SubSeq(new, overlap + 1, Len(new))
  BY DEF Merge
<1> HIDE DEF overlap
<1>7. SubSeq(new, 1, 1) = <<u>>
  <2>1. new \in Seq(Message) /\ new = <<u>>
    BY <1>1 DEF new
  <2>2. \A i \in 1 .. 1 : new[i] \in Message
    BY <1>1, <1>2
  <2>3. /\ SubSeq(new, 1, 1) \in Seq(Message) /\ Len(SubSeq(new, 1, 1)) = 1
        /\ SubSeq(new, 1, 1)[1] = new[1]
    BY <1>2, <2>1, <2>2, SubSeqProperties
  <2>4. ASSUME NEW w \in Seq(Message), Len(w) = 1, w[1] = new[1] PROVE w = new
    <3>1. \A i \in 1 .. Len(w) : w[i] = new[i]
      BY <2>4
    <3> QED
      BY <1>2, <2>1, <2>4, <3>1, SeqEqual
  <2>5. SubSeq(new, 1, 1) = new
    BY <2>3, <2>4
  <2> QED
    BY <2>1, <2>5
<1>8. Merge(db, new) = db \o <<u>>
  BY <1>2, <1>5, <1>6, <1>7
<1>9. db \o <<u>> = Append(db, u)
  BY <1>1
<1> QED
  BY <1>8, <1>9 DEF new, u

\* A step of request r that leaves what the others hold alone.
LEMMA TurnsFrom ==
  ASSUME NEW D, TurnsInv(D), TypeOK', NEW r \in Requests, NEW p,
         pc' = [pc EXCEPT ![r] = p], pc[r] \in Saved => p \in Saved,
         \A o \in Requests : o # r => UNCHANGED <<mem[o], text[o]>>,
         Prepared(r, D)', row' = row \/ Base(row', pc', D),
         loop' = "feedback" => loop = "feedback" /\ held' = held
  PROVE  TurnsInv(D)'
<1>1. /\ \A o \in Requests : o # r => pc'[o] = pc[o]
      /\ pc'[r] = p
  BY DEF TurnsInv, TypeOK
<1>2. \A o \in Requests : pc[o] \in Saved => pc'[o] \in Saved
  BY <1>1
<1>3. \A s : Base(s, pc, D) => Base(s, pc', D)
  BY <1>2, BaseStays
<1>4. Base(row', pc', D) /\ (loop' = "feedback" => Base(held', pc', D))
  BY <1>3 DEF TurnsInv
<1>5. ASSUME NEW o \in Requests, o # r PROVE Prepared(o, D)'
  <2>1. Prepared(o, D) /\ UNCHANGED <<pc[o], mem[o], text[o]>>
    BY <1>1, <1>5 DEF TurnsInv
  <2> QED
    BY <1>3, <2>1 DEF Prepared
<1> QED
  BY <1>4, <1>5 DEF TurnsInv

LEMMA BaseEmpty == \A D : Base(<< >>, pc, D)
<1>1. << >> \in Seq(Message) /\ Len(<< >>) = 0
  OBVIOUS
<1>2. Greets(<< >>) = 0 /\ 0 % 2 = 0
  BY <1>1 DEF Greets
<1> QED
  BY <1>1, <1>2 DEF Base, Whole

LEMMA TurnsTurn ==
  ASSUME NEW D, TurnsInv(D), Adds, TypeOK', NEW r \in Turns \ D, TurnNext(r)
  PROVE  TurnsInv(D)'
<1>1. r \in Requests /\ r \in Owners /\ r \notin Asks /\ TypeOK /\ Prepared(r, D)
  BY HistoryAssumption DEF Requests, Owners, TurnsInv
<1>2. UserMessage(r) \in Message
  BY <1>1, MessageTypes
<1>3. ASSUME NEW sent \in Fronts, Start(r, sent) PROVE TurnsInv(D)'
  <2>1. /\ pc[r] = "new" /\ pc' = [pc EXCEPT ![r] = "read"]
        /\ UNCHANGED <<row, mem, text, loop, held>>
    BY <1>3 DEF Start, feedbackVars
  <2>2. pc'[r] = "read"
    BY <1>1, <2>1 DEF TypeOK
  <2>3. Prepared(r, D)'
    BY <1>1, <2>2 DEF Prepared
  <2> QED
    BY <1>1, <2>1, <2>3, TurnsFrom DEF Saved
<1>4. CASE Read(r)
  <2>1. PICK db \in {row, << >>} : Reads(db) /\ mem' = [mem EXCEPT ![r] = Merge(db, front[r])]
    BY <1>4 DEF Read
  <2>2. /\ pc[r] = "read" /\ pc' = [pc EXCEPT ![r] = "list"]
        /\ UNCHANGED <<row, text, loop, held>>
    BY <1>4 DEF Read, feedbackVars
  <2>4. Base(db, pc, D)
    BY BaseEmpty DEF TurnsInv
  <2>5. Merge(db, front[r]) = Append(db, UserMessage(r))
    BY <1>4, <2>1 DEF Adds
  <2>6. mem'[r] = Append(db, UserMessage(r)) /\ pc'[r] = "list"
    BY <1>1, <2>1, <2>2, <2>5 DEF TypeOK
  <2>7. \A o \in Requests : pc[o] \in Saved => pc'[o] \in Saved
    BY <1>1, <2>2 DEF TypeOK, Saved
  <2>8. Base(db, pc', D)
    BY <2>4, <2>7, BaseStays
  <2>9. Prepared(r, D)'
    BY <1>1, <2>6, <2>8 DEF Prepared
  <2>10. \A o \in Requests : o # r => UNCHANGED <<mem[o], text[o]>>
    BY <1>1, <2>1, <2>2 DEF TypeOK
  <2> QED
    BY <1>1, <2>2, <2>9, <2>10, TurnsFrom DEF Saved
<1>5. ASSUME NEW p \in {"answer", "save", "done"}, pc[r] \in {"list", "answer"},
             pc' = [pc EXCEPT ![r] = p], UNCHANGED <<row, mem, loop, held>>,
             \A o \in Requests : o # r => text'[o] = text[o]
      PROVE  TurnsInv(D)'
  <2>1. PICK db : Base(db, pc, D) /\ mem[r] = Append(db, UserMessage(r))
    BY <1>1, <1>5 DEF Prepared
  <2>2. \A o \in Requests : pc[o] \in Saved => pc'[o] \in Saved
    BY <1>1, <1>5 DEF TypeOK, Saved
  <2>3. Base(db, pc', D)
    BY <2>1, <2>2, BaseStays
  <2>4. pc'[r] = p
    BY <1>1, <1>5 DEF TypeOK
  <2>5. Prepared(r, D)'
    BY <1>1, <1>5, <2>1, <2>3, <2>4 DEF Prepared
  <2> QED
    BY <1>1, <1>5, <2>5, TurnsFrom DEF Saved
<1>6. CASE List(r)
  BY <1>5, <1>6 DEF List, feedbackVars
<1>7. CASE Refuse(r)
  BY <1>5, <1>7 DEF Refuse, feedbackVars
<1>8. ASSUME NEW result \in Answers, Answer(r, result) PROVE TurnsInv(D)'
  <2>1. \A o \in Requests : o # r => text'[o] = text[o]
    BY <1>1, <1>8 DEF Answer, TypeOK
  <2> QED
    BY <1>5, <1>8, <2>1 DEF Answer, feedbackVars
<1>9. CASE SaveTurn(r)
  <2> DEFINE a == AssistantMessage(r, text[r])
  <2>1. /\ pc[r] = "save" /\ pc' = [pc EXCEPT ![r] = "relist"]
        /\ UNCHANGED <<front, text, loop, held>>
        /\ mem' = [mem EXCEPT ![r] = Append(@, a)]
    BY <1>9 DEF SaveTurn, feedbackVars
  <2>2. text[r] \in Texts /\ a \in Message
    BY <1>1, MessageTypes DEF TypeOK
  <2>3. PICK db : Base(db, pc, D) /\ mem[r] = Append(db, UserMessage(r))
    BY <1>1, <2>1 DEF Prepared
  <2>4. pc'[r] = "relist" /\ \A o \in Requests : pc[o] \in Saved => pc'[o] \in Saved
    BY <1>1, <2>1 DEF TypeOK, Saved
  <2>5. mem'[r] = db \o <<UserMessage(r), a>>
    <3>1. mem'[r] = Append(Append(db, UserMessage(r)), a)
      BY <1>1, <2>1, <2>3 DEF TypeOK
    <3>2. db \in Seq(Message)
      BY <2>3 DEF Base
    <3> QED
      BY <1>2, <2>2, <3>1, <3>2, TwoAppends
  <2>6. Base(mem'[r], pc', D) /\ EndsWith(mem'[r], text[r])
    <3>1. PICK t \in Texts : t = text[r]
      BY <2>2
    <3>2. pc[r] \notin Saved /\ pc'[r] \in Saved
      BY <2>1, <2>4 DEF Saved
    <3>3. /\ Base(db \o <<UserMessage(r), AssistantMessage(r, t)>>, pc', D)
          /\ EndsWith(db \o <<UserMessage(r), AssistantMessage(r, t)>>, t)
      BY <1>1, <2>3, <2>4, <3>2, BaseAppended
    <3> QED
      BY <2>5, <3>1, <3>3
  <2>7. StoreAnswer(mem'[r], r, text[r]) = mem'[r]
    BY <2>6, StoreAnswerFixed DEF Base
  <2>8. row' = row \/ Base(row', pc', D)
    BY <1>9, <2>6, <2>7 DEF SaveTurn, Overwrite
  <2>9. Prepared(r, D)'
    BY <1>1, <2>4 DEF Prepared
  <2>10. \A o \in Requests : o # r => UNCHANGED <<mem[o], text[o]>>
    BY <1>1, <2>1 DEF TypeOK
  <2> QED
    BY <1>1, <2>1, <2>8, <2>9, <2>10, TurnsFrom DEF Saved
<1>10. CASE RelistTurn(r)
  <2>1. /\ pc[r] = "relist" /\ pc' = [pc EXCEPT ![r] = "done"]
        /\ UNCHANGED <<row, front, mem, text, loop, held>>
    BY <1>10 DEF RelistTurn, feedbackVars
  <2>2. pc'[r] = "done"
    BY <1>1, <2>1 DEF TypeOK
  <2>3. Prepared(r, D)'
    BY <1>1, <2>2 DEF Prepared
  <2> QED
    BY <1>1, <2>1, <2>3, TurnsFrom DEF Saved
<1> QED
  BY <1>3, <1>4, <1>6, <1>7, <1>8, <1>9, <1>10 DEF TurnNext

LEMMA TurnsAsk ==
  ASSUME NEW D, TurnsInv(D), TypeOK', NEW r \in Asks \ D, AskStep(r)
  PROVE  TurnsInv(D)'
<1>1. r \in Requests /\ r \in Owners /\ r \notin Turns /\ TypeOK /\ Prepared(r, D)
  BY HistoryAssumption DEF Requests, Owners, TurnsInv
<1>2. CASE AppendAnswer(r)
  <2>1. PICK db \in {row, << >>} :
           mem' = [mem EXCEPT ![r] = db \o <<UserMessage(r), AssistantMessage(r, "answer")>>]
    BY <1>2 DEF AppendAnswer
  <2>2. /\ pc[r] = "new" /\ pc' = [pc EXCEPT ![r] = "save"]
        /\ text' = [text EXCEPT ![r] = "answer"]
        /\ UNCHANGED <<row, front, held>> /\ loop' = "ask"
    BY <1>2 DEF AppendAnswer, feedbackVars
  <2>3. Base(db, pc, D)
    BY BaseEmpty DEF TurnsInv
  <2>4. \A o \in Requests : pc[o] \in Saved => pc'[o] \in Saved
    BY <1>1, <2>2 DEF TypeOK, Saved
  <2>5. Base(db, pc', D)
    BY <2>3, <2>4, BaseStays
  <2>6. /\ mem'[r] = db \o <<UserMessage(r), AssistantMessage(r, text'[r])>>
    BY <1>1, <2>1, <2>2 DEF TypeOK
  <2>7. Prepared(r, D)'
    BY <1>1, <2>5, <2>6 DEF Prepared
  <2>8. \A o \in Requests : o # r => UNCHANGED <<mem[o], text[o]>>
    BY <1>1, <2>1, <2>2 DEF TypeOK
  <2> QED
    BY <1>1, <2>2, <2>7, <2>8, TurnsFrom DEF Saved
<1>3. CASE SaveAsk(r)
  <2>1. /\ pc[r] = "save" /\ pc' = [pc EXCEPT ![r] = "relist"]
        /\ UNCHANGED <<front, mem, text, loop, held>>
    BY <1>3 DEF SaveAsk, feedbackVars
  <2>2. PICK db : /\ Base(db, pc, D)
                  /\ mem[r] = db \o <<UserMessage(r), AssistantMessage(r, text[r])>>
    BY <1>1, <2>1 DEF Prepared
  <2>3. pc'[r] = "relist" /\ \A o \in Requests : pc[o] \in Saved => pc'[o] \in Saved
    BY <1>1, <2>1 DEF TypeOK, Saved
  <2>4. Base(mem[r], pc', D) /\ EndsWith(mem[r], text[r])
    <3>1. PICK t \in Texts : t = text[r]
      BY <1>1 DEF TypeOK
    <3>2. pc[r] \notin Saved /\ pc'[r] \in Saved
      BY <2>1, <2>3 DEF Saved
    <3>3. /\ Base(db \o <<UserMessage(r), AssistantMessage(r, t)>>, pc', D)
          /\ EndsWith(db \o <<UserMessage(r), AssistantMessage(r, t)>>, t)
      BY <1>1, <2>2, <2>3, <3>2, BaseAppended
    <3> QED
      BY <2>2, <3>1, <3>3
  <2>5. StoreAnswer(mem[r], r, text[r]) = mem[r]
    BY <2>4, StoreAnswerFixed DEF Base
  <2>6. row' = row \/ Base(row', pc', D)
    BY <1>3, <2>4, <2>5 DEF SaveAsk, Overwrite
  <2>7. Prepared(r, D)'
    BY <1>1, <2>3 DEF Prepared
  <2> QED
    BY <1>1, <2>1, <2>6, <2>7, TurnsFrom DEF Saved
<1>4. CASE RelistAsk(r)
  <2>1. /\ pc[r] = "relist" /\ pc' = [pc EXCEPT ![r] = "done"]
        /\ UNCHANGED <<row, front, mem, text, held>> /\ loop' = "idle"
    BY <1>4 DEF RelistAsk, feedbackVars
  <2>2. pc'[r] = "done"
    BY <1>1, <2>1 DEF TypeOK
  <2>3. Prepared(r, D)'
    BY <1>1, <2>2 DEF Prepared
  <2> QED
    BY <1>1, <2>1, <2>3, TurnsFrom DEF Saved
<1> QED
  BY <1>2, <1>3, <1>4 DEF AskStep

LEMMA TurnsLoop ==
  ASSUME NEW D, TurnsInv(D), TypeOK', FeedbackNext \/ DeleteNext
  PROVE  TurnsInv(D)'
<1>1. UNCHANGED requestVars
  BY DEF FeedbackNext, DeleteNext, ReadFeedback, WriteFeedback, VerifyOwner, DeleteHistory,
         DeleteListing
<1>2. \A r \in Requests : Prepared(r, D)'
  BY <1>1 DEF requestVars, Prepared, TurnsInv
<1>3. Base(<< >>, pc, D)
  BY BaseEmpty
<1>4. Base(row, pc, D)'
  BY <1>1, <1>3 DEF FeedbackNext, DeleteNext, ReadFeedback, WriteFeedback, VerifyOwner, DeleteHistory,
         DeleteListing, Overwrite, Forget, TurnsInv, requestVars
<1>5. loop' = "feedback" => Base(held', pc', D)
  <2>1. SUFFICES ASSUME loop' = "feedback" PROVE Base(held', pc', D)
    OBVIOUS
  <2>2. PICK i \in 1 .. Len(row), reaction \in Reactions : ReadFeedback(i, reaction)
    BY <2>1 DEF FeedbackNext, DeleteNext, WriteFeedback, VerifyOwner, DeleteHistory, DeleteListing
  <2> QED
    BY <1>1, <2>2, BaseReact DEF ReadFeedback, TurnsInv, requestVars
<1> QED
  BY <1>2, <1>4, <1>5 DEF TurnsInv

LEMMA TurnsInit == Init => \A D : TurnsInv(D)
<1> SUFFICES ASSUME Init, NEW D PROVE TurnsInv(D)
  OBVIOUS
<1>1. TypeOK
  BY TypeInit
<1>2. \A r \in Requests : Prepared(r, D)
  BY DEF Init, Prepared
<1>3. /\ \A i \in 1 .. Len(row) : row[i].owner = Greeting
      /\ Len(row) = Greets(row) /\ Len(row) \in Nat
  <2>1. CASE row = << >>
    BY <2>1 DEF Greets
  <2>2. CASE row = <<AssistantMessage(Greeting, "greeting")>>
    <3>1. Len(row) = 1 /\ row[1].owner = Greeting
      BY <2>2 DEF AssistantMessage
    <3> QED
      BY <3>1 DEF Greets
  <2> QED
    BY <2>1, <2>2 DEF Init
<1>4. 0 % 2 = 0 /\ Len(row) - Greets(row) = 0
  BY <1>3
<1>5. \A i \in Greets(row) + 1 .. Len(row) : FALSE
  BY <1>3
<1>6. Whole(row)
  BY <1>4, <1>5, Zenon DEF Whole
<1>7. Greeting \notin Requests
  BY HistoryAssumption DEF Requests
<1>8. Base(row, pc, D)
  BY <1>1, <1>3, <1>6, <1>7 DEF Base, TypeOK
<1> QED
  BY <1>1, <1>2, <1>8 DEF Init, TurnsInv

\* A step of a request that is not of D, or of none.
StepBeside(D) ==
    \/ \E r \in Turns \ D : TurnNext(r)
    \/ \E r \in Asks \ D : AskStep(r)
    \/ FeedbackNext \/ DeleteNext
    \/ UNCHANGED vars

LEMMA NextBeside == [Next]_vars => StepBeside({})
  BY AskNextIs DEF Next, StepBeside

LEMMA TurnsStep ==
  ASSUME NEW D, TurnsInv(D), Adds, TypeOK', StepBeside(D)
  PROVE  TurnsInv(D)'
<1>1. CASE UNCHANGED vars
  BY <1>1 DEF TurnsInv, Prepared, vars, requestVars, feedbackVars
<1> QED
  BY <1>1, TurnsTurn, TurnsAsk, TurnsLoop DEF StepBeside

\* A question that is sent alone is not in the row yet.
LEMMA AddsNew ==
  ASSUME NEW D, TurnsInv(D), SentNew, D \cap Turns = {}
  PROVE  Adds
<1> SUFFICES ASSUME NEW r \in Turns, NEW db \in {row, << >>}, Read(r), Reads(db)
             PROVE  Merge(db, front[r]) = Append(db, UserMessage(r))
  BY DEF Adds
<1>1. r \in Requests /\ pc[r] = "read" /\ front[r] = <<UserMessage(r)>>
  BY DEF Requests, Read, SentNew
<1>2. Base(db, pc, D)
  BY BaseEmpty DEF TurnsInv
<1> QED
  BY <1>1, <1>2, MergeNew DEF Base, Saved

\* A turn is about to read only if its client has just sent something.
LEMMA WhoStarts ==
  ASSUME TypeOK, StepBeside({}), NEW r \in Turns, pc'[r] = "read"
  PROVE  (pc[r] = "read" /\ front'[r] = front[r]) \/ \E sent \in Fronts : Start(r, sent)
<1>1. r \in Requests /\ r \notin Asks
  BY HistoryAssumption DEF Requests
<1>2. ASSUME NEW o \in Requests, NEW p, pc' = [pc EXCEPT ![o] = p], UNCHANGED front, p # "read"
      PROVE  pc[r] = "read" /\ front'[r] = front[r]
  BY <1>1, <1>2 DEF TypeOK
<1>3. ASSUME NEW o \in Turns, TurnNext(o), NEW sent \in Fronts, Start(o, sent), o # r
      PROVE  pc[r] = "read" /\ front'[r] = front[r]
  BY <1>1, <1>3 DEF Start, TypeOK
<1>4. ASSUME NEW o \in Turns, TurnNext(o), \A sent \in Fronts : ~Start(o, sent)
      PROVE  pc[r] = "read" /\ front'[r] = front[r]
  <2>1. o \in Requests
    BY DEF Requests
  <2> QED
    BY <1>2, <1>4, <2>1 DEF TurnNext, Read, List, Refuse, Answer, SaveTurn, RelistTurn
<1>5. ASSUME NEW o \in Asks, AskStep(o)
      PROVE  pc[r] = "read" /\ front'[r] = front[r]
  <2>1. o \in Requests
    BY DEF Requests
  <2> QED
    BY <1>2, <1>5, <2>1 DEF AskStep, AppendAnswer, SaveAsk, RelistAsk
<1>6. ASSUME FeedbackNext \/ DeleteNext \/ UNCHANGED vars
      PROVE  pc[r] = "read" /\ front'[r] = front[r]
  BY <1>1, <1>6 DEF FeedbackNext, ReadFeedback, WriteFeedback, DeleteNext, VerifyOwner,
       DeleteHistory, DeleteListing, requestVars, vars
<1> QED
  BY <1>3, <1>4, <1>5, <1>6 DEF StepBeside

LEMMA SentNewStep ==
  ASSUME TypeOK, SentNew, StepBeside({}), StartsNew
  PROVE  SentNew'
  BY WhoStarts DEF SentNew, StartsNew

LEMMA NewOnly ==
  ASSUME TypeOK, Fronts \subseteq {"new"}
  PROVE  StartsNew
  BY DEF StartsNew, Start, TypeOK, Requests

\* Of clients that send their new question the stored history is whole turns,
\* each stored once, for any number of calls that overlap in any way, any failing
\* reads and writes, and any way for answers to end.
THEOREM TurnsStayWhole ==
  ASSUME Fronts \subseteq {"new"}
  PROVE  Spec => []WholeTurns
<1>1. TurnsInv({}) => WholeTurns
  BY DEF TurnsInv, Base, Whole, WholeTurns, Greets, AsksAt
<1>2. Init => SentNew
  BY DEF Init, SentNew, Requests
<1>3. TurnsInv({}) /\ SentNew /\ [Next]_vars => TurnsInv({})' /\ SentNew'
  BY AddsNew, TypeStep, NextBeside, TurnsStep, NewOnly, SentNewStep DEF TurnsInv
<1>4. Init => TurnsInv({})
  BY TurnsInit
<1> QED
  BY <1>1, <1>2, <1>3, <1>4, PTL DEF Spec

-------------------------------------------------------------------------------
\* Calls that follow one another: deletes, listings and reactions.

\* Between its statements a delete leaves no message, and after it nothing runs;
\* feedback is on a message.
DeletedInv ==
    /\ SoloInv
    /\ loop = "listing" => row = << >>
    /\ loop = "feedback" => row # << >>
    /\ deleted => row = << >> /\ ~listed /\ loop = "idle" /\ \A r \in Requests : ~Running(r)

LEMMA RowSteps ==
  ASSUME [Next]_vars, row' # row
  PROVE  \/ \E r \in Turns : SaveTurn(r)
         \/ \E r \in Asks : SaveAsk(r)
         \/ WriteFeedback \/ DeleteHistory
  BY DEF Next, TurnNext, AskNext, FeedbackNext, DeleteNext, Start, Read, List, Refuse, Answer,
         RelistTurn, ReadAsk, AppendAnswer, RelistAsk, ReadFeedback, VerifyOwner, DeleteListing,
         vars

LEMMA DeletedStep ==
  ASSUME DeletedInv, [Next]_vars, Alone', readErrors' = readErrors
  PROVE  DeletedInv'
<1>1. SoloInv /\ SoloInv' /\ TypeOK /\ TypeOK' /\ Alone /\ Alone'
  BY SoloStep DEF DeletedInv, SoloInv
<1>2. CASE DeleteListing
  <2>1. /\ loop = "listing" /\ loop' = "idle" /\ row' = row /\ pc' = pc
        /\ (deleted' = TRUE /\ listed' = FALSE) \/ (deleted' = deleted /\ listed' = listed)
    BY <1>2 DEF DeleteListing, requestVars
  <2>2. \A r \in Requests : ~Running(r)
    BY <1>1, <2>1 DEF Alone
  <2>3. ~deleted
    BY <2>1 DEF DeletedInv
  <2> QED
    BY <1>1, <2>1, <2>2, <2>3 DEF DeletedInv, Running
<1>3. CASE UNCHANGED vars
  BY <1>1, <1>3 DEF DeletedInv, vars, requestVars, feedbackVars, Running
<1>4. CASE Next /\ ~DeleteListing
  <2>1. deleted' = deleted
    BY <1>4 DEF Next, TurnNext, AskNext, FeedbackNext, DeleteNext, Start, Read, List, Refuse, Answer,
         RelistTurn, ReadAsk, AppendAnswer, RelistAsk, ReadFeedback, VerifyOwner, SaveTurn, SaveAsk,
         WriteFeedback, DeleteHistory
  <2>2. ~deleted
    BY <1>4 DEF Next, TurnNext, AskNext, FeedbackNext, DeleteNext, Start, Read, List, Refuse, Answer,
         RelistTurn, ReadAsk, MayStart, RelistAsk, ReadFeedback, VerifyOwner, SaveTurn,
         SaveAsk, WriteFeedback, DeleteHistory, DeletedInv, Running, Requests
  <2>3. ASSUME loop' = "listing" PROVE row' = << >>
    <3>1. loop = "listing" \/ DeleteHistory
      BY <1>4, <2>3 DEF Next, TurnNext, AskNext, FeedbackNext, DeleteNext, Start, Read, List, Refuse,
           Answer, RelistTurn, ReadAsk, AppendAnswer, RelistAsk, ReadFeedback, VerifyOwner, SaveTurn,
           SaveAsk, WriteFeedback, DeleteHistory
    <3>2. CASE loop = "listing"
      <4>1. \A r \in Requests : ~Running(r)
        BY <1>1, <3>2 DEF Alone
      <4>2. row' = row
        BY <3>2, <4>1, RowSteps DEF SaveTurn, SaveAsk, WriteFeedback, DeleteHistory, Running, Requests
      <4> QED
        BY <3>2, <4>2 DEF DeletedInv
    <3>3. CASE DeleteHistory
      BY <2>3, <3>3 DEF DeleteHistory, Forget
    <3> QED
      BY <3>1, <3>2, <3>3
  <2>4. ASSUME loop' = "feedback" PROVE row' # << >>
    <3>1. loop = "feedback" \/ \E i \in 1 .. Len(row), x \in Reactions : ReadFeedback(i, x)
      BY <1>4, <2>4 DEF Next, TurnNext, AskNext, FeedbackNext, DeleteNext, Start, Read, List, Refuse,
           Answer, RelistTurn, ReadAsk, AppendAnswer, RelistAsk, VerifyOwner, SaveTurn,
           SaveAsk, WriteFeedback, DeleteHistory
    <3>2. CASE loop = "feedback"
      <4>1. \A r \in Requests : ~Running(r)
        BY <1>1, <3>2 DEF Alone
      <4>2. row' = row
        BY <2>4, <3>2, <4>1, RowSteps DEF SaveTurn, SaveAsk, WriteFeedback, DeleteHistory, Running,
                                          Requests
      <4> QED
        BY <3>2, <4>2 DEF DeletedInv
    <3>3. ASSUME NEW i \in 1 .. Len(row), NEW x \in Reactions, ReadFeedback(i, x)
          PROVE  row' # << >>
      <4>1. row' = row /\ Len(row) # 0
        BY <3>3 DEF ReadFeedback
      <4> QED
        BY <4>1
    <3> QED
      BY <3>1, <3>2, <3>3
  <2> QED
    BY <1>1, <2>1, <2>2, <2>3, <2>4 DEF DeletedInv
<1> QED
  BY <1>2, <1>3, <1>4

\* After an acknowledged delete neither the messages nor the conversation come
\* back, when calls follow one another and reads work.
THEOREM DeletedStays ==
  ASSUME Overlap = {}, MaxReadErrors = 0
  PROVE  Spec => []StaysDeleted
<1>1. Init => DeletedInv
  BY SoloInit DEF Init, DeletedInv
<1>2. DeletedInv /\ [Next]_vars => DeletedInv'
  BY DeletedStep, OneByOne DEF DeletedInv
<1>3. DeletedInv => StaysDeleted
  BY DEF DeletedInv, StaysDeleted
<1> QED
  BY <1>1, <1>2, <1>3, PTL DEF Spec

\* A turn lists its conversation before it answers; a document question stores its
\* pair first.
ListedInv ==
    /\ DeletedInv
    /\ row # << >> => listed \/ \E r \in Asks : pc[r] = "relist"
    /\ \A r \in Turns : pc[r] \in {"answer", "save", "relist"} => listed

LEMMA ListedStep ==
  ASSUME ListedInv, [Next]_vars, Alone', readErrors' = readErrors,
         \A r \in Asks : AskNext(r) => writeErrors' = writeErrors
  PROVE  ListedInv'
<1>1. DeletedInv /\ DeletedInv' /\ TypeOK /\ TypeOK' /\ Alone
  BY DeletedStep DEF ListedInv, DeletedInv, SoloInv
<1>2. pc \in [Requests -> {"new", "read", "list", "answer", "save", "relist", "done"}]
  BY <1>1 DEF TypeOK
<1>3. ASSUME NEW r \in Turns, TurnNext(r) PROVE ListedInv'
  <2>1. r \in Requests /\ r \notin Asks
    BY HistoryAssumption DEF Requests
  <2>2. listed' = listed \/ listed' = TRUE
    BY <1>3 DEF TurnNext, Start, Read, List, Refuse, Answer, SaveTurn, RelistTurn, Listing
  <2>3. PICK p : pc' = [pc EXCEPT ![r] = p] /\ (p \in {"answer", "save", "relist"} =>
                    listed' = TRUE \/ pc[r] \in {"answer", "save", "relist"})
    BY <1>3 DEF TurnNext, Start, Read, List, Refuse, Answer, SaveTurn, RelistTurn, Listing
  <2>4. pc'[r] = p /\ \A o \in Requests : o # r => pc'[o] = pc[o]
    BY <1>2, <2>1, <2>3
  <2>5. \A o \in Turns : pc'[o] \in {"answer", "save", "relist"} => listed'
    BY <2>2, <2>3, <2>4 DEF ListedInv, Requests
  <2>6. CASE row' = row
    BY <1>1, <2>1, <2>2, <2>4, <2>5, <2>6 DEF ListedInv, Requests
  <2>7. CASE row' # row
    <3>1. pc[r] = "save"
      BY <1>3, <2>7 DEF TurnNext, Start, Read, List, Refuse, Answer, SaveTurn, RelistTurn
    <3>2. listed
      BY <3>1 DEF ListedInv
    <3> QED
      BY <1>1, <2>2, <2>5, <3>2 DEF ListedInv
  <2> QED
    BY <2>6, <2>7
<1>4. ASSUME NEW r \in Asks, AskNext(r) PROVE ListedInv'
  <2>1. r \in Requests /\ r \notin Turns /\ ~WriteFails
    BY <1>1, <1>4, HistoryAssumption DEF Requests, WriteFails, TypeOK
  <2>2. PICK p : pc' = [pc EXCEPT ![r] = p]
    BY <1>4 DEF AskNext, ReadAsk, AppendAnswer, SaveAsk, RelistAsk
  <2>3. pc'[r] = p /\ \A o \in Requests : o # r => pc'[o] = pc[o]
    BY <1>2, <2>1, <2>2
  <2>4. listed' = listed \/ listed' = TRUE
    BY <1>4 DEF AskNext, ReadAsk, AppendAnswer, SaveAsk, RelistAsk, Listing
  <2>5. \A o \in Turns : pc'[o] \in {"answer", "save", "relist"} => listed'
    BY <2>1, <2>3, <2>4 DEF ListedInv, Requests
  <2>6. CASE ReadAsk(r)
    <3>1. row' = row /\ listed' = listed /\ pc[r] = "new"
      BY <2>6 DEF ReadAsk, AppendAnswer
    <3>2. \A o \in Asks : pc[o] = "relist" => pc'[o] = "relist"
      BY <2>3, <3>1 DEF Requests
    <3> QED
      BY <1>1, <2>5, <3>1, <3>2 DEF ListedInv
  <2>7. CASE SaveAsk(r)
    <3>1. pc'[r] = "relist"
      BY <1>2, <2>1, <2>7 DEF SaveAsk
    <3> QED
      BY <1>1, <2>5, <3>1 DEF ListedInv
  <2>8. CASE RelistAsk(r)
    <3>1. listed' = TRUE
      BY <2>1, <2>8 DEF RelistAsk, Listing
    <3> QED
      BY <1>1, <2>5, <3>1 DEF ListedInv
  <2> QED
    BY <1>4, <2>6, <2>7, <2>8 DEF AskNext
<1>5. CASE FeedbackNext \/ DeleteNext
  <2>1. pc' = pc
    BY <1>5 DEF FeedbackNext, DeleteNext, ReadFeedback, WriteFeedback, VerifyOwner, DeleteHistory,
         DeleteListing, requestVars
  <2>2. CASE DeleteListing
    <3>1. loop = "listing" /\ row' = row
      BY <2>2 DEF DeleteListing
    <3>2. row' = << >> /\ \A r \in Requests : ~Running(r)
      BY <1>1, <3>1 DEF DeletedInv, Alone
    <3>3. \A r \in Turns : pc'[r] \notin {"answer", "save", "relist"}
      BY <2>1, <3>2 DEF Running, Requests
    <3> QED
      BY <1>1, <3>2, <3>3 DEF ListedInv
  <2>3. CASE ~DeleteListing
    <3>1. listed' = listed
      BY <1>5, <2>3 DEF FeedbackNext, DeleteNext, ReadFeedback, WriteFeedback, VerifyOwner,
           DeleteHistory
    <3>2. CASE row' = row \/ row' = << >>
      BY <1>1, <2>1, <3>1, <3>2 DEF ListedInv
    <3>3. CASE row' # row /\ row' # << >>
      <4>1. WriteFeedback /\ row' = held
        BY <1>5, <3>3 DEF FeedbackNext, DeleteNext, ReadFeedback, WriteFeedback, VerifyOwner,
             DeleteHistory, DeleteListing, Overwrite, Forget
      <4>2. loop = "feedback" /\ \A r \in Requests : ~Running(r)
        BY <1>1, <4>1 DEF WriteFeedback, Alone
      <4>3. row # << >>
        BY <4>1, <4>2, <3>3 DEF ListedInv, DeletedInv
      <4> QED
        BY <1>1, <2>1, <3>1, <4>3 DEF ListedInv
    <3> QED
      BY <3>2, <3>3
  <2> QED
    BY <2>2, <2>3
<1>6. CASE UNCHANGED vars
  BY <1>1, <1>6 DEF ListedInv, vars, requestVars
<1> QED
  BY <1>3, <1>4, <1>5, <1>6 DEF Next

\* A stored history is listed, so that its owner sees it and can delete it: only a
\* document question whose listing fails leaves one that is not.
THEOREM HistoryIsListed ==
  ASSUME Overlap = {}, MaxReadErrors = 0, MaxWriteErrors = 0 \/ Asks = {}
  PROVE  Spec => []NoOrphan
<1>1. Init => ListedInv
  BY SoloInit DEF Init, ListedInv, DeletedInv, Requests
<1>2. ListedInv /\ [Next]_vars => ListedInv'
  <2> SUFFICES ASSUME ListedInv, [Next]_vars PROVE ListedInv'
    OBVIOUS
  <2>1. SoloInv /\ Alone' /\ readErrors' = readErrors /\ TypeOK /\ TypeOK'
    BY OneByOne DEF ListedInv, DeletedInv, SoloInv
  <2>2. \A r \in Asks : AskNext(r) => writeErrors' = writeErrors
    BY <2>1 DEF TypeOK
  <2> QED
    BY <2>1, <2>2, ListedStep
<1>3. ListedInv => NoOrphan
  BY DEF ListedInv, NoOrphan, Running, Requests
<1> QED
  BY <1>1, <1>2, <1>3, PTL DEF Spec

\* The reactions in the row are those acknowledged; what a call holds is the row
\* with its own messages, or with the reaction it sets; and a request that has not
\* saved has none.
Marked(s, a) == \A i \in 1 .. Len(s) : s[i].role = "assistant" => s[i].reaction = a[s[i].owner]

Carries(r) ==
    /\ r \in Turns /\ pc[r] \in {"list", "answer", "save"} => mem[r] = Append(row, UserMessage(r))
    /\ r \in Asks /\ pc[r] = "save" =>
          mem[r] = row \o <<UserMessage(r), AssistantMessage(r, text[r])>>
    /\ pc[r] \notin Saved => acked[r] = "none"

LikesInv ==
    /\ SoloInv /\ TurnsInv({})
    /\ Marked(row, acked)
    /\ \A r \in Requests : Carries(r)
    /\ loop = "feedback" =>
          \E i \in 1 .. Len(row), x \in Reactions :
             /\ row[i].role = "assistant"
             /\ held = React(row, i, x) /\ mark = <<row[i].owner, x>>

LEMMA OneAnswer ==
  ASSUME NEW s \in Seq(Message), Whole(s), NEW i \in 1 .. Len(s), NEW j \in 1 .. Len(s),
         s[i].role = "assistant", s[j].role = "assistant", s[i].owner = s[j].owner
  PROVE  i = j
<1>1. Len(s) \in Nat /\ Greets(s) \in {0, 1} /\ Greeting \notin Requests
  BY LenProperties, HistoryAssumption DEF Greets, Requests
<1>2. \A k \in 1 .. Len(s) : k \in Greets(s) + 1 .. Len(s) \/ (k = 1 /\ s[k].owner = Greeting)
  BY <1>1 DEF Greets
<1>3. \A k \in Greets(s) + 1 .. Len(s) : s[k].owner \in Requests
  BY DEF Whole
<1>4. CASE i \in Greets(s) + 1 .. Len(s) /\ j \in Greets(s) + 1 .. Len(s)
  BY <1>4 DEF Whole
<1> QED
  BY <1>1, <1>2, <1>3, <1>4

LEMMA PairEnds ==
  ASSUME NEW s \in Seq(Message), NEW r \in Requests, NEW t \in Texts
  PROVE  EndsWith(s \o <<UserMessage(r), AssistantMessage(r, t)>>, t)
<1> DEFINE u == UserMessage(r)
           m == AssistantMessage(r, t)
<1>1. Len(s) \in Nat /\ u \in Message /\ m \in Message /\ m.role = "assistant" /\ m.text = t
  BY LenProperties, MessageTypes DEF Owners, AssistantMessage
<1> HIDE DEF u, m
<1>2. Len(s \o <<u, m>>) = Len(s) + 2 /\ (s \o <<u, m>>)[Len(s) + 2] = m
  BY <1>1, PairAppended
<1>3. EndsWith(s \o <<u, m>>, t)
  BY <1>1, <1>2 DEF EndsWith
<1> QED
  BY <1>3 DEF u, m

\* A pair that is stored bears no reaction.
LEMMA MarkedAppended ==
  ASSUME NEW s \in Seq(Message), NEW a, Marked(s, a), NEW r \in Requests, NEW t \in Texts,
         a[r] = "none"
  PROVE  Marked(s \o <<UserMessage(r), AssistantMessage(r, t)>>, a)
<1> DEFINE u == UserMessage(r)
           m == AssistantMessage(r, t)
           z == s \o <<u, m>>
<1>1. Len(s) \in Nat /\ u \in Message /\ m \in Message
  BY LenProperties, MessageTypes DEF Owners
<1>2. u.role = "user" /\ m.owner = r /\ m.reaction = "none"
  BY DEF UserMessage, AssistantMessage
<1> HIDE DEF u, m
<1>3. <<u, m>> \in Seq(Message) /\ Len(<<u, m>>) = 2 /\ <<u, m>>[1] = u /\ <<u, m>>[2] = m
  BY <1>1
<1>4. /\ z \in Seq(Message) /\ Len(z) = Len(s) + 2
      /\ \A i \in 1 .. Len(s) + 2 : z[i] = IF i <= Len(s) THEN s[i] ELSE <<u, m>>[i - Len(s)]
  BY <1>3, ConcatProperties
<1>5. \A i \in 1 .. Len(s) : z[i] = s[i]
  BY <1>1, <1>4
<1>6. z[Len(s) + 1] = u /\ z[Len(s) + 2] = m
  BY <1>1, <1>3, <1>4
<1> HIDE DEF z
<1>7. \A i \in 1 .. Len(z) : i \in 1 .. Len(s) \/ i = Len(s) + 1 \/ i = Len(s) + 2
  BY <1>1, <1>4
<1>8. Marked(z, a)
  BY <1>2, <1>5, <1>6, <1>7 DEF Marked
<1> QED
  BY <1>8 DEF z, u, m

\* A step of request r that leaves the row, or stores r's pair.
LEMMA LikesFrom ==
  ASSUME LikesInv, SoloInv', TurnsInv({})', NEW r \in Requests, NEW p,
         pc' = [pc EXCEPT ![r] = p], Running(r) \/ p \notin {"new", "done"},
         pc[r] \in Saved => p \in Saved, acked' = acked, Carries(r)',
         row' = row \/ Marked(row', acked'),
         loop' # "feedback"
  PROVE  LikesInv'
<1>1. \A o \in Requests : o # r => pc'[o] = pc[o] /\ pc'[o] \in {"new", "done"}
  BY OthersKept DEF LikesInv, SoloInv
<1>2. \A o \in Requests : o # r => Carries(o)'
  BY <1>1 DEF LikesInv, Carries, Saved
<1>3. Marked(row, acked)'
  BY DEF LikesInv
<1> QED
  BY <1>2, <1>3 DEF LikesInv

LEMMA LikesTurn ==
  ASSUME LikesInv, SoloInv', TurnsInv({})', Adds, readErrors' = readErrors,
         NEW r \in Turns, TurnNext(r), writeErrors' = writeErrors
  PROVE  LikesInv'
<1>1. /\ r \in Requests /\ r \notin Asks /\ TypeOK /\ Carries(r) /\ Prepared(r, {})
      /\ ~ReadFails /\ ~WriteFails
  BY HistoryAssumption DEF Requests, LikesInv, SoloInv, TurnsInv, ReadFails, WriteFails, TypeOK
<1>2. loop \notin {"feedback", "history", "listing"} \/ \A o \in Requests : ~Running(o)
  BY DEF LikesInv, SoloInv, Alone
<1>3. ASSUME NEW sent \in Fronts, Start(r, sent) PROVE LikesInv'
  <2>1. /\ pc[r] = "new" /\ pc' = [pc EXCEPT ![r] = "read"] /\ pc'[r] = "read"
        /\ UNCHANGED <<row, acked>> /\ loop' = "idle"
    BY <1>1, <1>3 DEF Start, MayStart, feedbackVars, TypeOK
  <2>2. Carries(r)'
    BY <1>1, <2>1 DEF Carries, Saved
  <2> QED
    BY <1>1, <2>1, <2>2, LikesFrom DEF Saved
<1>4. CASE Read(r)
  <2>1. /\ pc[r] = "read" /\ pc' = [pc EXCEPT ![r] = "list"] /\ pc'[r] = "list"
        /\ UNCHANGED <<row, acked, loop>> /\ Running(r)
        /\ mem'[r] = Merge(row, front[r])
    BY <1>1, <1>4 DEF Read, Reads, feedbackVars, TypeOK, Running
  <2>4. mem'[r] = Append(row, UserMessage(r))
    BY <1>4, <2>1 DEF Adds, Reads
  <2>5. Carries(r)'
    BY <1>1, <2>1, <2>4 DEF Carries, Saved
  <2>6. loop' # "feedback"
    BY <1>1, <1>2, <2>1
  <2> QED
    BY <1>1, <2>1, <2>5, <2>6, LikesFrom DEF Saved
<1>5. ASSUME NEW p \in {"answer", "save", "done"}, pc[r] \in {"list", "answer"},
             pc' = [pc EXCEPT ![r] = p], UNCHANGED <<row, mem, loop, acked>>
      PROVE  LikesInv'
  <2>1. pc'[r] = p /\ Running(r)
    BY <1>1, <1>5 DEF TypeOK, Running
  <2>2. Carries(r)'
    BY <1>1, <1>5, <2>1 DEF Carries, Saved
  <2>3. loop' # "feedback"
    BY <1>1, <1>2, <1>5, <2>1
  <2> QED
    BY <1>1, <1>5, <2>1, <2>2, <2>3, LikesFrom DEF Saved
<1>6. CASE List(r)
  BY <1>5, <1>6 DEF List, feedbackVars
<1>7. CASE Refuse(r)
  BY <1>5, <1>7 DEF Refuse, feedbackVars
<1>8. ASSUME NEW result \in Answers, Answer(r, result) PROVE LikesInv'
  BY <1>5, <1>8 DEF Answer, feedbackVars
<1>9. CASE SaveTurn(r)
  <2> DEFINE a == AssistantMessage(r, text[r])
  <2>1. /\ pc[r] = "save" /\ pc' = [pc EXCEPT ![r] = "relist"] /\ pc'[r] = "relist"
        /\ UNCHANGED <<acked, loop>> /\ Running(r)
        /\ mem'[r] = Append(mem[r], a) /\ mem[r] = Append(row, UserMessage(r))
        /\ acked[r] = "none"
    BY <1>1, <1>9 DEF SaveTurn, feedbackVars, TypeOK, Running, Carries, Saved
  <2>2. row' = StoreAnswer(mem'[r], r, text[r])
    BY <1>1, <1>9 DEF SaveTurn, Overwrite
  <2>3. PICK t \in Texts : t = text[r]
    BY <1>1 DEF TypeOK
  <2>4. row \in Seq(Message) /\ UserMessage(r) \in Message /\ AssistantMessage(r, t) \in Message
    BY <1>1, MessageTypes DEF TypeOK, Owners
  <2>5. mem'[r] = row \o <<UserMessage(r), AssistantMessage(r, t)>>
    BY <2>1, <2>3, <2>4, TwoAppends
  <2>6. Marked(row \o <<UserMessage(r), AssistantMessage(r, t)>>, acked)
    BY <1>1, <2>1, <2>4, MarkedAppended DEF LikesInv
  <2>7. EndsWith(row \o <<UserMessage(r), AssistantMessage(r, t)>>, t)
    BY <1>1, <2>4, PairEnds
  <2>8. row' = mem'[r]
    <3>1. mem'[r] \in Seq(Message)
      BY <1>1 DEF TurnsInv, TypeOK
    <3> QED
      BY <2>2, <2>3, <2>5, <2>7, <3>1, StoreAnswerFixed
  <2>9. Marked(row', acked')
    BY <2>1, <2>5, <2>6, <2>8
  <2>10. Carries(r)'
    BY <1>1, <2>1 DEF Carries, Saved
  <2>11. loop' # "feedback"
    BY <1>1, <1>2, <2>1
  <2> QED
    BY <1>1, <2>1, <2>9, <2>10, <2>11, LikesFrom DEF Saved
<1>10. CASE RelistTurn(r)
  <2>1. /\ pc[r] = "relist" /\ pc' = [pc EXCEPT ![r] = "done"] /\ pc'[r] = "done"
        /\ UNCHANGED <<row, acked, loop>> /\ Running(r)
    BY <1>1, <1>10 DEF RelistTurn, feedbackVars, TypeOK, Running
  <2>2. Carries(r)'
    BY <1>1, <2>1 DEF Carries, Saved
  <2>3. loop' # "feedback"
    BY <1>1, <1>2, <2>1
  <2> QED
    BY <1>1, <2>1, <2>2, <2>3, LikesFrom DEF Saved
<1> QED
  BY <1>3, <1>4, <1>6, <1>7, <1>8, <1>9, <1>10 DEF TurnNext

LEMMA LikesAsk ==
  ASSUME LikesInv, SoloInv', TurnsInv({})', readErrors' = readErrors,
         NEW r \in Asks, AskNext(r), writeErrors' = writeErrors
  PROVE  LikesInv'
<1>1. /\ r \in Requests /\ r \notin Turns /\ TypeOK /\ Carries(r)
      /\ ~ReadFails /\ ~WriteFails
  BY HistoryAssumption DEF Requests, LikesInv, SoloInv, ReadFails, WriteFails, TypeOK
<1>2. loop \notin {"feedback", "history", "listing"} \/ \A o \in Requests : ~Running(o)
  BY DEF LikesInv, SoloInv, Alone
<1>3. CASE ReadAsk(r)
  <2>1. /\ pc[r] = "new" /\ pc' = [pc EXCEPT ![r] = "save"] /\ pc'[r] = "save"
        /\ UNCHANGED <<row, acked>> /\ loop' = "ask"
        /\ mem'[r] = row \o <<UserMessage(r), AssistantMessage(r, "answer")>>
        /\ text'[r] = "answer"
    BY <1>1, <1>3 DEF ReadAsk, AppendAnswer, MayStart, Reads, feedbackVars, TypeOK
  <2>2. Carries(r)'
    BY <1>1, <2>1 DEF Carries, Saved
  <2> QED
    BY <1>1, <2>1, <2>2, LikesFrom DEF Saved
<1>4. CASE SaveAsk(r)
  <2>1. PICK t \in Texts : t = text[r]
    BY <1>1 DEF TypeOK
  <2>2. /\ pc[r] = "save" /\ pc' = [pc EXCEPT ![r] = "relist"] /\ pc'[r] = "relist"
        /\ UNCHANGED <<acked, loop>> /\ Running(r)
        /\ mem[r] = row \o <<UserMessage(r), AssistantMessage(r, t)>>
        /\ acked[r] = "none"
        /\ row' = StoreAnswer(mem[r], r, t)
    BY <1>1, <1>4, <2>1 DEF SaveAsk, Overwrite, feedbackVars, TypeOK, Running, Carries, Saved
  <2>3. row \in Seq(Message) /\ mem[r] \in Seq(Message)
    BY <1>1 DEF TypeOK
  <2>4. Marked(row \o <<UserMessage(r), AssistantMessage(r, t)>>, acked)
    BY <1>1, <2>2, <2>3, MarkedAppended DEF LikesInv
  <2>5. EndsWith(row \o <<UserMessage(r), AssistantMessage(r, t)>>, t)
    BY <1>1, <2>3, PairEnds
  <2>6. row' = mem[r]
    BY <2>2, <2>3, <2>5, StoreAnswerFixed
  <2>7. Marked(row', acked')
    BY <2>2, <2>4, <2>6
  <2>8. Carries(r)'
    BY <1>1, <2>2 DEF Carries, Saved
  <2>9. loop' # "feedback"
    BY <1>1, <1>2, <2>2
  <2> QED
    BY <1>1, <2>2, <2>7, <2>8, <2>9, LikesFrom DEF Saved
<1>5. CASE RelistAsk(r)
  <2>1. /\ pc[r] = "relist" /\ pc' = [pc EXCEPT ![r] = "done"] /\ pc'[r] = "done"
        /\ UNCHANGED <<row, acked>> /\ Running(r) /\ loop' = "idle"
    BY <1>1, <1>5 DEF RelistAsk, feedbackVars, TypeOK, Running
  <2>2. Carries(r)'
    BY <1>1, <2>1 DEF Carries, Saved
  <2> QED
    BY <1>1, <2>1, <2>2, LikesFrom DEF Saved
<1> QED
  BY <1>3, <1>4, <1>5 DEF AskNext

LEMMA LikesLoop ==
  ASSUME LikesInv, SoloInv', TurnsInv({})', FeedbackNext \/ DeleteNext,
         WriteFeedback => writeErrors' = writeErrors
  PROVE  LikesInv'
<1>1. TypeOK /\ Whole(row) /\ \A r \in Requests : Carries(r)
  BY DEF LikesInv, SoloInv, TurnsInv, Base
<1>2. UNCHANGED requestVars /\ \A r \in Requests : ~Running(r)
  <2>1. UNCHANGED requestVars
    BY DEF FeedbackNext, DeleteNext, ReadFeedback, WriteFeedback, VerifyOwner, DeleteHistory,
           DeleteListing
  <2>2. loop \in {"feedback", "history", "listing"} \/ loop' \in {"feedback", "history"}
    BY DEF FeedbackNext, DeleteNext, ReadFeedback, WriteFeedback, VerifyOwner, DeleteHistory,
           DeleteListing
  <2> QED
    BY <2>1, <2>2 DEF LikesInv, SoloInv, Alone, Running, requestVars
<1>3. ASSUME acked' = acked PROVE \A r \in Requests : Carries(r)'
  BY <1>1, <1>2, <1>3 DEF Carries, Running, requestVars
<1>4. ASSUME NEW i \in 1 .. Len(row), NEW x \in Reactions, ReadFeedback(i, x) PROVE LikesInv'
  <2>1. UNCHANGED <<row, acked>>
    BY <1>4 DEF ReadFeedback
  <2>2. Marked(row, acked)'
    BY <2>1 DEF LikesInv
  <2>3. \E j \in 1 .. Len(row'), y \in Reactions :
             /\ row'[j].role = "assistant"
             /\ held' = React(row', j, y) /\ mark' = <<row'[j].owner, y>>
    BY <1>4 DEF ReadFeedback
  <2> QED
    BY <1>3, <2>1, <2>2, <2>3 DEF LikesInv
<1>5. CASE WriteFeedback
  <2>1. PICK i \in 1 .. Len(row), x \in Reactions :
             /\ row[i].role = "assistant"
             /\ held = React(row, i, x) /\ mark = <<row[i].owner, x>>
    BY <1>5 DEF WriteFeedback, LikesInv
  <2>2. row \in Seq(Message) /\ row[i] \in Message
    BY <1>1, ElementOfSeq DEF TypeOK
  <2>3. row[i].owner \in Owners
    BY <2>2 DEF Message
  <2>4. /\ row' = React(row, i, x) /\ loop' = "idle"
        /\ acked' = [acked EXCEPT ![row[i].owner] = x]
    BY <1>1, <1>5, <2>1 DEF WriteFeedback, Overwrite, WriteFails, TypeOK
  <2>5. /\ acked'[row[i].owner] = x
        /\ \A o \in Owners : o # row[i].owner => acked'[o] = acked[o]
    BY <1>1, <2>3, <2>4 DEF TypeOK
  <2>6. /\ Len(row') = Len(row)
        /\ \A j \in 1 .. Len(row) :
              /\ row'[j].owner = row[j].owner /\ row'[j].role = row[j].role
              /\ row'[j].reaction = IF j = i THEN x ELSE row[j].reaction
    BY <2>2, <2>4, ReactPoints
  <2>7. ASSUME NEW j \in 1 .. Len(row), row[j].role = "assistant"
        PROVE  row'[j].reaction = acked'[row'[j].owner]
    <3>1. CASE j = i
      BY <2>5, <2>6, <3>1
    <3>2. CASE j # i
      <4>1. row[j].owner # row[i].owner
        BY <1>1, <2>1, <2>2, <2>7, <3>2, OneAnswer
      <4>2. row[j] \in Message
        BY <2>2, ElementOfSeq
      <4>3. row[j].owner \in Owners
        BY <4>2 DEF Message
      <4>4. row[j].reaction = acked[row[j].owner]
        BY <2>7 DEF LikesInv, Marked
      <4> QED
        BY <2>5, <2>6, <3>2, <4>1, <4>3, <4>4
    <3> QED
      BY <3>1, <3>2
  <2>8. Marked(row, acked)'
    BY <2>6, <2>7 DEF Marked
  <2>9. ASSUME NEW r \in Requests PROVE Carries(r)'
    <3>1. pc'[r] = pc[r] /\ pc[r] \in {"new", "done"} /\ Carries(r)
      BY <1>1, <1>2 DEF Running, requestVars
    <3>2. ASSUME pc[r] \notin Saved PROVE acked'[r] = "none"
      <4>1. r # row[i].owner
        BY <3>2 DEF LikesInv, TurnsInv, Base
      <4> QED
        BY <2>5, <3>1, <3>2, <4>1 DEF Carries, Owners
    <3> QED
      BY <3>1, <3>2 DEF Carries
  <2> QED
    BY <2>4, <2>8, <2>9 DEF LikesInv
<1>6. CASE DeleteNext
  <2>1. acked' = acked /\ loop' # "feedback" /\ (row' = row \/ row' = << >>)
    BY <1>6 DEF DeleteNext, VerifyOwner, DeleteHistory, DeleteListing, Forget, feedbackVars
  <2>2. Marked(row, acked)'
    <3>1. CASE row' = row
      BY <2>1, <3>1 DEF LikesInv
    <3>2. CASE row' = << >>
      BY <3>2 DEF Marked
    <3> QED
      BY <2>1, <3>1, <3>2
  <2> QED
    BY <1>3, <2>1, <2>2 DEF LikesInv
<1> QED
  BY <1>4, <1>5, <1>6 DEF FeedbackNext

\* Only statements of a delete fail.
DeletesFail == writeErrors' # writeErrors => loop \in {"history", "listing"}

LEMMA LikesStep ==
  ASSUME LikesInv, [Next]_vars, Alone', readErrors' = readErrors, Adds, DeletesFail
  PROVE  LikesInv'
<1>1. SoloInv' /\ TurnsInv({})' /\ SoloInv /\ Alone
  <2>1. SoloInv /\ Alone /\ TypeOK /\ TypeOK' /\ TurnsInv({}) /\ SoloInv'
    BY SoloStep, TypeStep DEF LikesInv, SoloInv
  <2>2. TurnsInv({})'
    BY <2>1, NextBeside, TurnsStep
  <2> QED
    BY <2>1, <2>2
<1>2. CASE UNCHANGED vars
  BY <1>1, <1>2 DEF LikesInv, Marked, Carries, vars, requestVars, feedbackVars
<1>3. ASSUME NEW r \in Turns, TurnNext(r) PROVE LikesInv'
  <2>1. r \in Requests
    BY DEF Requests
  <2>2. writeErrors' = writeErrors \/ Running(r)
    BY <1>3 DEF TurnNext, Start, Read, List, Refuse, Answer, SaveTurn, RelistTurn, Running
  <2>3. writeErrors' = writeErrors
    BY <1>1, <2>1, <2>2 DEF Alone, DeletesFail
  <2> QED
    BY <1>1, <1>3, <2>3, LikesTurn
<1>4. ASSUME NEW r \in Asks, AskNext(r) PROVE LikesInv'
  <2>1. r \in Requests
    BY DEF Requests
  <2>2. writeErrors' = writeErrors \/ Running(r)
    BY <1>4 DEF AskNext, ReadAsk, AppendAnswer, SaveAsk, RelistAsk, Running
  <2>3. writeErrors' = writeErrors
    BY <1>1, <2>1, <2>2 DEF Alone, DeletesFail
  <2> QED
    BY <1>1, <1>4, <2>3, LikesAsk
<1>5. WriteFeedback => writeErrors' = writeErrors
  BY DEF WriteFeedback, DeletesFail
<1> QED
  BY <1>1, <1>2, <1>3, <1>4, <1>5, LikesLoop DEF Next

-------------------------------------------------------------------------------
\* Clients that send all they display: while nothing failed but deletes, and no
\* answer was an apology, what they display is what is stored.

\* The list has the messages of another one, and then m, or a pair.
Same(s, t) == Len(s) = Len(t) /\ \A i \in 1 .. Len(t) : Key(s[i]) = Key(t[i])

SameAnd(s, t, m) ==
    /\ Len(s) = Len(t) + 1 /\ \A i \in 1 .. Len(t) : Key(s[i]) = Key(t[i])
    /\ Key(s[Len(t) + 1]) = Key(m)

SameAndPair(s, t, m, a) ==
    /\ Len(s) = Len(t) + 2 /\ \A i \in 1 .. Len(t) : Key(s[i]) = Key(t[i])
    /\ Key(s[Len(t) + 1]) = Key(m) /\ Key(s[Len(t) + 2]) = Key(a)

TurnShown(r) ==
    /\ pc[r] \in {"read", "list", "answer"} => SameAnd(shown, row, UserMessage(r))
    /\ pc[r] = "save" =>
          SameAndPair(shown, row, UserMessage(r), AssistantMessage(r, text[r]))
    /\ pc[r] = "relist" => Same(shown, row)

AskShown(r) ==
    /\ pc[r] = "save" => Same(shown, row)
    /\ pc[r] = "relist" =>
          SameAndPair(row, shown, UserMessage(r), AssistantMessage(r, "answer"))

Displayed ==
    /\ (\A r \in Requests : ~Running(r)) /\ loop # "listing" => Same(shown, row)
    /\ \A r \in Turns : TurnShown(r)
    /\ \A r \in Asks : AskShown(r)

\* The client sends its question alone, or behind what is stored.
FrontShows(r) ==
    \/ front[r] = <<UserMessage(r)>>
    \/ SameAnd(front[r], row, UserMessage(r)) /\ front[r][Len(row) + 1] = UserMessage(r)

ShownInv ==
    /\ \A r \in Turns : pc[r] = "read" => FrontShows(r)
    /\ \A r \in Asks : pc[r] = "save" => text[r] = "answer"
    /\ writeErrors = 0 /\ ~deleted => Displayed

\* No answer is an apology.
AnswersOk ==
    \A r \in Turns :
        /\ ~Refuse(r)
        /\ \A result \in Answers \ {"refused"} : Answer(r, result) => result = "ok"

LEMMA MergeAll ==
  ASSUME NEW db \in Seq(Message), NEW new \in Seq(Message), NEW m \in Message,
         SameAnd(new, db, m), new[Len(db) + 1] = m
  PROVE  Merge(db, new) = Append(db, m)
<1> DEFINE n == Len(db)
           ks == {k \in 0 .. Len(new) : k <= Len(db) /\ Repeats(db, new, k)}
           overlap == CHOOSE k \in ks : \A j \in ks : j <= k
           rest == SubSeq(new, n + 1, n + 1)
<1>1. n \in Nat /\ Len(new) = n + 1
  BY LenProperties DEF SameAnd
<1>2. n \in ks
  BY <1>1 DEF Repeats, SameAnd
<1>3. \A j \in ks : j \in Nat /\ j <= n
  BY <1>1
<1>4. overlap = n
  <2> HIDE DEF ks, n
  <2>1. \A j \in ks : j <= n
    BY <1>3
  <2>2. \E k \in ks : \A j \in ks : j <= k
    BY <1>2, <2>1
  <2>3. overlap \in ks /\ \A j \in ks : j <= overlap
    BY <2>2, Zenon
  <2> HIDE DEF overlap
  <2> QED
    BY <1>1, <1>2, <1>3, <2>3
<1>5. Merge(db, new) = db \o rest
  <2>1. Merge(db, new) = db \o SubSeq(new, overlap + 1, Len(new))
    BY DEF Merge
  <2> HIDE DEF overlap
  <2> QED
    BY <1>1, <1>4, <2>1
<1>6. rest = <<m>>
  <2>1. \A i \in n + 1 .. n + 1 : new[i] \in Message
    BY <1>1
  <2>2. rest \in Seq(Message) /\ Len(rest) = 1 /\ rest[1] = m
    BY <1>1, <2>1, SubSeqProperties
  <2> HIDE DEF rest
  <2>3. <<m>> \in Seq(Message) /\ Len(<<m>>) = 1 /\ <<m>>[1] = m
    OBVIOUS
  <2> HIDE DEF n
  <2>4. \A i \in 1 .. Len(rest) : rest[i] = <<m>>[i]
    BY <2>2, <2>3
  <2> QED
    BY <2>2, <2>3, <2>4, SeqEqual
<1>7. db \o <<m>> = Append(db, m)
  OBVIOUS
<1> QED
  BY <1>5, <1>6, <1>7

LEMMA PairAt ==
  ASSUME NEW s \in Seq(Message), NEW u \in Message, NEW a \in Message
  PROVE  /\ s \o <<u, a>> \in Seq(Message) /\ Len(s \o <<u, a>>) = Len(s) + 2
         /\ \A i \in 1 .. Len(s) : (s \o <<u, a>>)[i] = s[i]
         /\ (s \o <<u, a>>)[Len(s) + 1] = u /\ (s \o <<u, a>>)[Len(s) + 2] = a
<1>1. Len(s) \in Nat
  BY LenProperties
<1>2. <<u, a>> \in Seq(Message) /\ Len(<<u, a>>) = 2 /\ <<u, a>>[1] = u /\ <<u, a>>[2] = a
  OBVIOUS
<1>3. /\ s \o <<u, a>> \in Seq(Message) /\ Len(s \o <<u, a>>) = Len(s) + 2
      /\ \A i \in 1 .. Len(s) + 2 :
            (s \o <<u, a>>)[i] = IF i <= Len(s) THEN s[i] ELSE <<u, a>>[i - Len(s)]
  BY <1>2, ConcatProperties
<1> QED
  BY <1>1, <1>2, <1>3

\* Whichever of the two it sends, a turn adds its question.
LEMMA AddsShown ==
  ASSUME TurnsInv({}), ShownInv, readErrors' = readErrors
  PROVE  Adds
<1> SUFFICES ASSUME NEW r \in Turns, NEW db \in {row, << >>}, Read(r), Reads(db)
             PROVE  Merge(db, front[r]) = Append(db, UserMessage(r))
  BY DEF Adds
<1>1. /\ r \in Requests /\ pc[r] = "read" /\ UserMessage(r) \in Message
      /\ row \in Seq(Message) /\ front[r] \in Seq(Message) /\ readErrors \in Nat
  BY MessageTypes DEF Requests, Owners, Read, TurnsInv, TypeOK
<1>2. db = row
  BY <1>1 DEF Reads, ReadFails
<1>3. \A i \in 1 .. Len(row) : row[i].owner # r
  BY <1>1 DEF TurnsInv, Base, Saved
<1> QED
  BY <1>1, <1>2, <1>3, MergeNew, MergeAll DEF ShownInv, FrontShows

LEMMA FrontsShow ==
  ASSUME LikesInv, Alone', ShownInv, [Next]_vars, writeErrors > 0 => StartsNew,
         NEW r \in Turns, pc'[r] = "read"
  PROVE  FrontShows(r)'
<1>1. /\ r \in Requests /\ r \in Owners /\ TypeOK /\ Alone /\ UserMessage(r) \in Message
      /\ pc' \in [Requests -> {"new", "read", "list", "answer", "save", "relist", "done"}]
  BY TypeStep, MessageTypes DEF Requests, Owners, LikesInv, SoloInv, TypeOK
<1>2. CASE pc[r] = "read" /\ front'[r] = front[r]
  <2>1. /\ \A o \in Requests : Running(o) => o = r
        /\ loop \notin {"feedback", "history"}
    BY <1>1, <1>2 DEF Alone, Running
  <2>2. row' = row
    <3> SUFFICES ASSUME row' # row PROVE FALSE
      OBVIOUS
    <3>1. ASSUME NEW o \in Turns, SaveTurn(o) PROVE FALSE
      BY <1>2, <2>1, <3>1 DEF SaveTurn, Running, Requests
    <3>2. ASSUME NEW o \in Asks, SaveAsk(o) PROVE FALSE
      BY <1>2, <2>1, <3>2 DEF SaveAsk, Running, Requests
    <3> QED
      BY <2>1, <3>1, <3>2, RowSteps DEF WriteFeedback, DeleteHistory
  <2> QED
    BY <1>2, <2>2 DEF ShownInv, FrontShows
<1>3. ASSUME NEW sent \in Fronts, Start(r, sent) PROVE FrontShows(r)'
  <2>1. /\ pc[r] = "new" /\ pc' = [pc EXCEPT ![r] = "read"] /\ ~deleted
        /\ loop = "idle" /\ row' = row /\ shown' = Append(shown, UserMessage(r))
        /\ front'[r] = IF sent = "all" THEN shown' ELSE <<UserMessage(r)>>
    BY <1>1, <1>3 DEF Start, MayStart, TypeOK
  <2>2. CASE front'[r] = <<UserMessage(r)>>
    BY <2>2 DEF FrontShows
  <2>3. CASE writeErrors = 0 /\ front'[r] = shown'
    <3>1. \A o \in Requests : ~Running(o)
      BY <1>1, <2>1 DEF Alone, Running
    <3>2. Same(shown, row)
      BY <2>1, <2>3, <3>1 DEF ShownInv, Displayed
    <3>3. /\ shown \in Seq(Message) /\ row \in Seq(Message)
          /\ Len(front'[r]) = Len(shown) + 1 /\ front'[r][Len(shown) + 1] = UserMessage(r)
          /\ \A i \in 1 .. Len(shown) : front'[r][i] = shown[i]
      BY <1>1, <2>1, <2>3, AppendProperties DEF TypeOK
    <3> QED
      BY <2>1, <3>2, <3>3 DEF FrontShows, Same, SameAnd
  <2>4. writeErrors \in Nat
    BY <1>1 DEF TypeOK
  <2>5. CASE writeErrors > 0
    BY <1>3, <2>2, <2>5 DEF StartsNew
  <2> QED
    BY <2>1, <2>2, <2>3, <2>4, <2>5
<1> QED
  BY <1>1, <1>2, <1>3, WhoStarts, NextBeside

\* A step of request r, while the others do nothing.
LEMMA ShownFrom ==
  ASSUME LikesInv, Alone', NEW r \in Requests, NEW p,
         pc' = [pc EXCEPT ![r] = p], p # "new", Running(r) \/ p # "done",
         r \in Turns => TurnShown(r)', r \in Asks => AskShown(r)',
         p = "done" => Same(shown', row')
  PROVE  Displayed'
<1>1. /\ \A o \in Requests : o # r => pc'[o] \in {"new", "done"}
      /\ pc'[r] = p
  BY OthersKept DEF LikesInv, SoloInv
<1>2. ASSUME \A o \in Requests : ~Running(o)' PROVE Same(shown', row')
  BY <1>1, <1>2 DEF Running
<1>3. \A o \in Turns : TurnShown(o)'
  BY <1>1 DEF TurnShown, Requests
<1>4. \A o \in Asks : AskShown(o)'
  BY <1>1 DEF AskShown, Requests
<1> QED
  BY <1>2, <1>3, <1>4 DEF Displayed

LEMMA AppendSame ==
  ASSUME NEW s \in Seq(Message), NEW t \in Seq(Message), NEW m \in Message
  PROVE  /\ Same(s, t) => SameAnd(Append(s, m), t, m)
         /\ \A u : SameAnd(s, t, u) => SameAndPair(Append(s, m), t, u, m)
<1>1. /\ Len(s) \in Nat /\ Len(t) \in Nat /\ Len(Append(s, m)) = Len(s) + 1
      /\ \A i \in 1 .. Len(s) : Append(s, m)[i] = s[i]
      /\ Append(s, m)[Len(s) + 1] = m
  BY LenProperties, AppendProperties
<1>2. ASSUME Same(s, t) PROVE SameAnd(Append(s, m), t, m)
  BY <1>1, <1>2 DEF Same, SameAnd
<1>3. ASSUME NEW u, SameAnd(s, t, u) PROVE SameAndPair(Append(s, m), t, u, m)
  BY <1>1, <1>3 DEF SameAnd, SameAndPair
<1> QED
  BY <1>2, <1>3

\* The pair that the client displays is stored, or the other way round.
LEMMA PairSame ==
  ASSUME NEW s \in Seq(Message), NEW t \in Seq(Message), NEW u \in Message, NEW a \in Message
  PROVE  /\ Same(s, t) => SameAndPair(t \o <<u, a>>, s, u, a)
         /\ SameAndPair(s, t, u, a) => Same(s, t \o <<u, a>>) /\ Same(t \o <<u, a>>, s)
<1> DEFINE z == t \o <<u, a>>
<1>1. /\ Len(s) \in Nat /\ Len(t) \in Nat /\ Len(z) = Len(t) + 2
      /\ \A i \in 1 .. Len(t) : z[i] = t[i]
      /\ z[Len(t) + 1] = u /\ z[Len(t) + 2] = a
  BY LenProperties, PairAt
<1> HIDE DEF z
<1>2. ASSUME Same(s, t) PROVE SameAndPair(z, s, u, a)
  BY <1>1, <1>2 DEF Same, SameAndPair
<1>3. ASSUME SameAndPair(s, t, u, a) PROVE Same(s, z)
  <2>1. \A i \in 1 .. Len(z) : i \in 1 .. Len(t) \/ i = Len(t) + 1 \/ i = Len(t) + 2
    BY <1>1
  <2> QED
    BY <1>1, <1>3, <2>1 DEF Same, SameAndPair
<1>4. ASSUME Same(s, z) PROVE Same(z, s)
  BY <1>4 DEF Same
<1> QED
  BY <1>2, <1>3, <1>4 DEF z

LEMMA ShownTurn ==
  ASSUME LikesInv, LikesInv', ShownInv, NEW r \in Turns, TurnNext(r), AnswersOk, DeletesFail,
         writeErrors = 0, writeErrors' = 0, ~deleted
  PROVE  Displayed'
<1>1. /\ r \in Requests /\ r \in Owners /\ r \notin Asks /\ TypeOK /\ Alone /\ Alone'
      /\ Displayed /\ UserMessage(r) \in Message /\ ~WriteFails
  BY MessageTypes, HistoryAssumption DEF Requests, Owners, LikesInv, SoloInv, ShownInv, WriteFails
<1>2. TurnShown(r) /\ row \in Seq(Message) /\ shown \in Seq(Message)
  BY <1>1 DEF Displayed, TypeOK
<1>3. ASSUME NEW sent \in Fronts, Start(r, sent) PROVE Displayed'
  <2>1. /\ pc[r] = "new" /\ pc' = [pc EXCEPT ![r] = "read"] /\ pc'[r] = "read"
        /\ loop = "idle" /\ row' = row /\ shown' = Append(shown, UserMessage(r))
    BY <1>1, <1>3 DEF Start, MayStart, TypeOK
  <2>2. \A o \in Requests : ~Running(o)
    BY <1>1, <2>1 DEF Alone, Running, TypeOK
  <2>3. Same(shown, row)
    BY <1>1, <2>1, <2>2 DEF Displayed
  <2>4. SameAnd(shown', row', UserMessage(r))
    BY <1>1, <1>2, <2>1, <2>3, AppendSame
  <2> QED
    BY <1>1, <2>1, <2>4, ShownFrom DEF TurnShown
<1>4. CASE Read(r)
  <2>1. /\ pc[r] = "read" /\ pc' = [pc EXCEPT ![r] = "list"] /\ pc'[r] = "list"
        /\ row' = row /\ shown' = shown
    BY <1>1, <1>4 DEF Read, TypeOK
  <2> QED
    BY <1>1, <1>2, <2>1, ShownFrom DEF TurnShown
<1>5. CASE List(r)
  <2>1. /\ pc[r] = "list" /\ pc' = [pc EXCEPT ![r] = "answer"] /\ pc'[r] = "answer"
        /\ row' = row /\ shown' = shown
    BY <1>1, <1>5 DEF List, TypeOK
  <2> QED
    BY <1>1, <1>2, <2>1, ShownFrom DEF TurnShown
<1>6. ASSUME NEW result \in Answers \ {"refused"}, Answer(r, result) PROVE Displayed'
  <2>1. /\ pc[r] = "answer" /\ pc' = [pc EXCEPT ![r] = "save"] /\ pc'[r] = "save"
        /\ row' = row /\ shown' = Append(shown, AssistantMessage(r, "answer"))
        /\ text'[r] = "answer"
    BY <1>1, <1>6 DEF Answer, AnswersOk, TypeOK
  <2>2. AssistantMessage(r, "answer") \in Message
    BY <1>1, MessageTypes DEF Texts
  <2>3. SameAndPair(shown', row', UserMessage(r), AssistantMessage(r, "answer"))
    BY <1>1, <1>2, <2>1, <2>2, AppendSame DEF TurnShown
  <2> QED
    BY <1>1, <2>1, <2>3, ShownFrom DEF TurnShown
<1>7. CASE SaveTurn(r)
  <2> DEFINE a == AssistantMessage(r, text[r])
  <2>1. /\ pc[r] = "save" /\ pc' = [pc EXCEPT ![r] = "relist"] /\ pc'[r] = "relist"
        /\ shown' = shown /\ row' = row \o <<UserMessage(r), a>>
    <3>1. /\ pc[r] = "save" /\ pc' = [pc EXCEPT ![r] = "relist"] /\ shown' = shown
          /\ mem'[r] = Append(mem[r], a) /\ mem[r] = Append(row, UserMessage(r))
          /\ row' = StoreAnswer(mem'[r], r, text[r])
      BY <1>1, <1>7 DEF SaveTurn, Overwrite, TypeOK, LikesInv, Carries
    <3>2. text[r] \in Texts /\ a \in Message
      BY <1>1, MessageTypes DEF TypeOK
    <3>3. mem'[r] = row \o <<UserMessage(r), a>> /\ mem'[r] \in Seq(Message)
      BY <1>1, <1>2, <3>1, <3>2, TwoAppends, PairAt
    <3>4. EndsWith(mem'[r], text[r])
      BY <1>1, <1>2, <3>2, <3>3, PairEnds
    <3> QED
      BY <1>1, <3>1, <3>3, <3>4, StoreAnswerFixed DEF TypeOK
  <2>2. a \in Message
    BY <1>1, MessageTypes DEF TypeOK
  <2>3. Same(shown', row')
    BY <1>1, <1>2, <2>1, <2>2, PairSame DEF TurnShown
  <2> QED
    BY <1>1, <2>1, <2>3, ShownFrom DEF TurnShown
<1>8. CASE RelistTurn(r)
  <2>1. /\ pc[r] = "relist" /\ pc' = [pc EXCEPT ![r] = "done"] /\ pc'[r] = "done"
        /\ row' = row /\ shown' = shown /\ Running(r)
    BY <1>1, <1>8 DEF RelistTurn, TypeOK, Running
  <2>2. Same(shown, row)
    BY <1>2, <2>1 DEF TurnShown
  <2> QED
    BY <1>1, <2>1, <2>2, ShownFrom DEF TurnShown
<1> QED
  BY <1>3, <1>4, <1>5, <1>6, <1>7, <1>8 DEF TurnNext, AnswersOk

LEMMA ShownAsk ==
  ASSUME LikesInv, LikesInv', ShownInv, NEW r \in Asks, AskNext(r),
         writeErrors = 0, writeErrors' = 0, ~deleted
  PROVE  Displayed'
<1>0. /\ r \in Requests /\ r \in Owners /\ r \notin Turns /\ "answer" \in Texts
      /\ TypeOK /\ Alone /\ Alone' /\ Displayed /\ ~WriteFails
  BY HistoryAssumption DEF Requests, Owners, Texts, LikesInv, SoloInv, ShownInv, WriteFails
<1>1. /\ r \in Requests /\ TypeOK /\ Alone /\ Alone' /\ Displayed /\ ~WriteFails
      /\ r \notin Turns /\ UserMessage(r) \in Message /\ AssistantMessage(r, "answer") \in Message
  BY <1>0, MessageTypes
<1>2. AskShown(r) /\ row \in Seq(Message) /\ shown \in Seq(Message)
  BY <1>1 DEF Displayed, TypeOK
<1>3. CASE ReadAsk(r)
  <2>1. /\ pc[r] = "new" /\ pc' = [pc EXCEPT ![r] = "save"] /\ pc'[r] = "save"
        /\ loop = "idle" /\ row' = row /\ shown' = shown
    BY <1>1, <1>3 DEF ReadAsk, AppendAnswer, TypeOK
  <2>2. \A o \in Requests : ~Running(o)
    BY <1>1, <2>1 DEF Alone, Running, TypeOK
  <2>3. Same(shown, row)
    BY <1>1, <2>1, <2>2 DEF Displayed
  <2> QED
    BY <1>1, <2>1, <2>3, ShownFrom DEF AskShown
<1>4. CASE SaveAsk(r)
  <2>1. /\ pc[r] = "save" /\ pc' = [pc EXCEPT ![r] = "relist"] /\ pc'[r] = "relist"
        /\ shown' = shown /\ row' = row \o <<UserMessage(r), AssistantMessage(r, "answer")>>
    <3>1. /\ pc[r] = "save" /\ pc' = [pc EXCEPT ![r] = "relist"] /\ shown' = shown
          /\ text[r] = "answer"
      BY <1>4 DEF SaveAsk, ShownInv
    <3>2. mem[r] = row \o <<UserMessage(r), AssistantMessage(r, "answer")>>
      BY <1>1, <3>1 DEF LikesInv, Carries
    <3>3. row' = StoreAnswer(mem[r], r, "answer")
      BY <1>1, <1>4, <3>1 DEF SaveAsk, Overwrite
    <3>4. mem[r] \in Seq(Message)
      BY <1>1, <1>2, <3>2, PairAt
    <3>5. EndsWith(mem[r], "answer")
      BY <1>0, <1>2, <3>2, PairEnds
    <3> QED
      BY <1>1, <3>1, <3>2, <3>3, <3>4, <3>5, StoreAnswerFixed DEF TypeOK
  <2>2. SameAndPair(row', shown', UserMessage(r), AssistantMessage(r, "answer"))
    BY <1>1, <1>2, <2>1, PairSame DEF AskShown
  <2> QED
    BY <1>1, <2>1, <2>2, ShownFrom DEF AskShown
<1>5. CASE RelistAsk(r)
  <2>1. /\ pc[r] = "relist" /\ pc' = [pc EXCEPT ![r] = "done"] /\ pc'[r] = "done"
        /\ row' = row /\ Running(r)
        /\ shown' = shown \o <<UserMessage(r), AssistantMessage(r, "answer")>>
    BY <1>1, <1>5 DEF RelistAsk, TypeOK, Running
  <2>2. Same(shown', row')
    BY <1>1, <1>2, <2>1, PairSame DEF AskShown
  <2> QED
    BY <1>1, <2>1, <2>2, ShownFrom DEF AskShown
<1> QED
  BY <1>3, <1>4, <1>5 DEF AskNext

LEMMA ShownLoop ==
  ASSUME LikesInv, ShownInv, FeedbackNext \/ DeleteNext,
         writeErrors = 0, writeErrors' = 0, ~deleted, ~deleted'
  PROVE  Displayed'
<1>1. TypeOK /\ Alone /\ Displayed /\ ~WriteFails
  BY DEF LikesInv, SoloInv, ShownInv, WriteFails
<1>2. UNCHANGED <<pc, text>>
  BY <1>1 DEF FeedbackNext, DeleteNext, ReadFeedback, WriteFeedback, VerifyOwner, DeleteHistory,
         DeleteListing, requestVars
<1>3. CASE UNCHANGED row /\ loop # "listing"
  <2>1. UNCHANGED shown
    BY <1>3 DEF FeedbackNext, DeleteNext, ReadFeedback, WriteFeedback, VerifyOwner, DeleteHistory,
         DeleteListing
  <2> QED
    BY <1>1, <1>2, <1>3, <2>1 DEF Displayed, TurnShown, AskShown, Running, Requests
<1>4. CASE DeleteListing
  BY <1>1, <1>4 DEF DeleteListing
<1>5. CASE DeleteHistory
  <2>1. loop' = "listing" /\ \A o \in Requests : ~Running(o)
    BY <1>1, <1>5 DEF DeleteHistory, Alone
  <2>2. \A o \in Requests : pc'[o] \in {"new", "done"}
    BY <1>2, <2>1 DEF Running
  <2> QED
    BY <2>1, <2>2 DEF Displayed, TurnShown, AskShown, Requests
<1>6. CASE WriteFeedback
  <2>1. /\ loop = "feedback" /\ row' = held /\ shown' = shown
        /\ \A o \in Requests : ~Running(o)
    BY <1>1, <1>6 DEF WriteFeedback, Overwrite, Alone
  <2>2. Same(shown, row)
    BY <1>1, <2>1 DEF Displayed
  <2>3. PICK i \in 1 .. Len(row), x \in Reactions : held = React(row, i, x)
    BY <2>1 DEF LikesInv
  <2>4. row \in Seq(Message) /\ row' = React(row, i, x)
    BY <1>1, <2>1, <2>3 DEF TypeOK
  <2>5. Same(shown', row')
    BY <2>1, <2>2, <2>4, ReactPoints DEF Same, Key
  <2>6. \A o \in Requests : pc'[o] \in {"new", "done"}
    BY <1>2, <2>1 DEF Running
  <2> QED
    BY <2>5, <2>6 DEF Displayed, TurnShown, AskShown, Requests
<1>7. loop = "listing" => DeleteListing
  BY DEF FeedbackNext, DeleteNext, ReadFeedback, WriteFeedback, VerifyOwner, DeleteHistory, MayStart
<1>8. UNCHANGED row \/ DeleteHistory \/ WriteFeedback
  BY DEF FeedbackNext, DeleteNext, ReadFeedback, VerifyOwner, DeleteListing
<1> QED
  BY <1>3, <1>4, <1>5, <1>6, <1>7, <1>8

LEMMA ShownStep ==
  ASSUME LikesInv, LikesInv', ShownInv, [Next]_vars, AnswersOk, DeletesFail,
         writeErrors > 0 => StartsNew
  PROVE  ShownInv'
<1>1. TypeOK /\ TypeOK' /\ Alone /\ Alone'
  BY DEF LikesInv, SoloInv
<1>2. ASSUME NEW r \in Asks, pc'[r] = "save" PROVE text'[r] = "answer"
  <2>1. r \in Requests /\ r \notin Turns
    BY HistoryAssumption DEF Requests
  <2>2. ASSUME NEW o \in Turns, TurnNext(o) PROVE pc'[r] = pc[r] /\ text'[r] = text[r]
    BY <1>1, <2>1, <2>2 DEF TypeOK, TurnNext, Start, Read, List, Refuse, Answer, SaveTurn, RelistTurn
  <2>3. ASSUME NEW o \in Asks, AskNext(o)
        PROVE  (pc'[r] = pc[r] /\ text'[r] = text[r]) \/ text'[r] = "answer"
    <3>1. o \in Requests
      BY DEF Requests
    <3> QED
      BY <1>1, <1>2, <2>1, <2>3, <3>1 DEF TypeOK, AskNext, ReadAsk, AppendAnswer, SaveAsk, RelistAsk
  <2>4. ASSUME FeedbackNext \/ DeleteNext \/ UNCHANGED vars
        PROVE  pc'[r] = pc[r] /\ text'[r] = text[r]
    BY <2>4 DEF FeedbackNext, DeleteNext, ReadFeedback, WriteFeedback, VerifyOwner, DeleteHistory,
         DeleteListing, requestVars, vars
  <2> QED
    BY <1>2, <2>2, <2>3, <2>4 DEF Next, ShownInv
<1>3. ASSUME writeErrors' = 0, ~deleted' PROVE Displayed'
  <2>1. writeErrors = 0
    <3>1. writeErrors' = writeErrors \/ writeErrors' = writeErrors + 1
      BY DEF Next, TurnNext, Start, Read, List, Refuse, Answer, SaveTurn, RelistTurn, AskNext,
           ReadAsk, AppendAnswer, SaveAsk, RelistAsk, FeedbackNext, ReadFeedback, WriteFeedback,
           DeleteNext, VerifyOwner, DeleteHistory, DeleteListing, Overwrite, WriteFails, vars
    <3> QED
      BY <1>1, <1>3, <3>1 DEF TypeOK
  <2>2. ~deleted
    BY <1>3 DEF Next, TurnNext, Start, Read, List, Refuse, Answer, SaveTurn, RelistTurn, AskNext,
         ReadAsk, AppendAnswer, SaveAsk, RelistAsk, FeedbackNext, ReadFeedback, WriteFeedback,
         DeleteNext, VerifyOwner, DeleteHistory, DeleteListing, vars
  <2>3. CASE UNCHANGED vars
    <3>1. UNCHANGED <<pc, text, row, shown, loop>>
      BY <2>3 DEF vars, requestVars
    <3>2. Displayed
      BY <2>1, <2>2 DEF ShownInv
    <3> QED
      BY <3>1, <3>2 DEF Displayed, TurnShown, AskShown, Running
  <2> QED
    BY <1>3, <2>1, <2>2, <2>3, ShownTurn, ShownAsk, ShownLoop DEF Next
<1>4. \A r \in Turns : pc'[r] = "read" => FrontShows(r)'
  BY <1>1, FrontsShow
<1> QED
  BY <1>2, <1>3, <1>4 DEF ShownInv

LEMMA ShownInit == Init => ShownInv
<1> SUFFICES ASSUME Init PROVE ShownInv
  OBVIOUS
<1>1. \A r \in Requests : pc[r] = "new"
  BY DEF Init
<1>2. Same(shown, row)
  BY DEF Init, Same
<1> QED
  BY <1>1, <1>2 DEF ShownInv, Displayed, TurnShown, AskShown, Requests

LEMMA LikesInit == Init => LikesInv
<1> SUFFICES ASSUME Init PROVE LikesInv
  OBVIOUS
<1>1. \A i \in 1 .. Len(row) : row[i].reaction = "none" /\ row[i].owner = Greeting
  <2>1. CASE row = << >>
    BY <2>1
  <2>2. CASE row = <<AssistantMessage(Greeting, "greeting")>>
    BY <2>2 DEF AssistantMessage
  <2> QED
    BY <2>1, <2>2 DEF Init
<1>2. Marked(row, acked)
  BY <1>1 DEF Init, Marked, Owners
<1> QED
  BY <1>2, SoloInit, TurnsInit DEF Init, LikesInv, Carries, Requests, Owners

\* A reaction that was acknowledged stays on the stored answer, through turns and
\* questions that follow, of clients that send their new question, or all that they
\* display if no answer is an apology (which they display and the history lacks).
THEOREM LikesStay ==
  ASSUME Overlap = {}, Fronts \subseteq {"new"} \/ Answers \subseteq {"ok"},
         MaxReadErrors = 0, MaxWriteErrors = 0
  PROVE  Spec => []LikeKept
<1>1. LikesInv => LikeKept
  BY DEF LikesInv, LikeKept, Marked
<1>2. ASSUME LikesInv, [Next]_vars
      PROVE  Alone' /\ readErrors' = readErrors /\ DeletesFail /\ TurnsInv({}) /\ TypeOK /\ writeErrors = 0
  <2>1. SoloInv /\ TurnsInv({}) /\ TypeOK /\ TypeOK' /\ Alone' /\ readErrors' = readErrors
    BY <1>2, TypeStep, OneByOne DEF LikesInv, SoloInv
  <2> QED
    BY <2>1 DEF DeletesFail, TypeOK
<1>3. CASE Fronts \subseteq {"new"}
  <2>1. Init => SentNew
    BY DEF Init, SentNew, Requests
  <2>2. LikesInv /\ SentNew /\ [Next]_vars => LikesInv' /\ SentNew'
    BY <1>2, <1>3, AddsNew, LikesStep, NewOnly, NextBeside, SentNewStep
  <2> QED
    BY <1>1, <2>1, <2>2, LikesInit, PTL DEF Spec
<1>4. CASE Answers \subseteq {"ok"}
  <2>1. ASSUME LikesInv, ShownInv, [Next]_vars PROVE LikesInv' /\ ShownInv'
    <3>1. LikesInv'
      BY <1>2, <2>1, AddsShown, LikesStep
    <3>2. AnswersOk
      BY <1>4 DEF AnswersOk, Refuse
    <3>3. ~(writeErrors > 0)
      BY <1>2, <2>1
    <3> QED
      BY <1>2, <2>1, <3>1, <3>2, <3>3, ShownStep
  <2> QED
    BY <1>1, <2>1, LikesInit, ShownInit, PTL DEF Spec
<1> QED
  BY <1>3, <1>4

-------------------------------------------------------------------------------
(* The published services.                                                 *)

\* The rows of a request are of the organisations it works on, and of one file
\* for each.
Waiting ==
    \A a \in Admins : \A r \in job[a].rows :
        /\ r.org \in job[a].orgs
        /\ \A q \in job[a].rows : q.org = r.org => q.uuid = r.uuid

\* What searches see was staged; and so is what publishing would copy.
TempStaged ==
    /\ staged \in [Orgs -> SUBSET SUBSET Row]
    /\ \A o \in Orgs : RowsOf(temp, o) \in staged[o]

\* The rows of an organisation, those included that an upload is about to write.
Writers == {a \in Admins : step[a] \in {"delete", "insert"}}
Known(o) ==
    RowsOf(live, o) \cup RowsOf(temp, o) \cup UNION {RowsOf(job[a].rows, o) : a \in Writers}

\* They have one file id, unless uploads of the organisation overlapped: the next
\* upload takes the id from any of the two tables.
OneUuid == \A o \in Orgs \ raced : \A r, q \in Known(o) : r.uuid = q.uuid

TablesInv ==
    PublishingTypeOK /\ uploads \in Nat /\ Waiting /\ TempStaged /\ LiveWasStaged /\ OneUuid

LEMMA SmallestIn ==
  ASSUME NEW S, S \subseteq Nat, S # {}
  PROVE  Smallest(S) \in S
  <1>1. PICK x \in S : \A y \in S : <<y, x>> \notin OpToRel(<, Nat)
    BY NatLessThanWellFounded, WFMin
  <1>2. ASSUME NEW y \in S PROVE x <= y
    <2>1. x \in Nat /\ y \in Nat
      OBVIOUS
    <2>2. ~ (y < x)
      BY <1>1, <2>1 DEF OpToRel
    <2> QED BY <2>1, <2>2
  <1> QED BY <1>2 DEF Smallest

\* The id an upload takes for an organisation.
LEMMA FileIdIs ==
  ASSUME temp \subseteq Row, live \subseteq Row, NEW o, NEW own \in 0 .. MaxUploads
  PROVE  /\ FileId(o, own) \in 0 .. MaxUploads
         /\ \/ FileId(o, own) \in Uuids(live, o)
            \/ Uuids(live, o) = {} /\ FileId(o, own) \in Uuids(temp, o)
            \/ Uuids(live, o) = {} /\ Uuids(temp, o) = {} /\ FileId(o, own) = own
  <1>1. /\ Uuids(live, o) \subseteq 0 .. MaxUploads /\ Uuids(live, o) \subseteq Nat
        /\ Uuids(temp, o) \subseteq 0 .. MaxUploads /\ Uuids(temp, o) \subseteq Nat
    BY DEF Uuids, RowsOf, Row
  <1> QED BY <1>1, SmallestIn DEF FileId

LEMMA TablesInit == PublishingInit => TablesInv
  <1> SUFFICES ASSUME PublishingInit PROVE TablesInv
    OBVIOUS
  <1>1. live \subseteq Row
    BY PublishingAssumption DEF PublishingInit, Row
  <1>2. PublishingTypeOK
    BY <1>1 DEF PublishingInit, PublishingTypeOK, NoJob
  <1>3. \A o : RowsOf(temp, o) = {} /\ RowsOf(live, o) \subseteq Row
    BY <1>1 DEF PublishingInit, RowsOf
  <1>4. TempStaged /\ LiveWasStaged
    BY <1>3 DEF PublishingInit, TempStaged, LiveWasStaged
  <1>5. Waiting
    BY DEF PublishingInit, Waiting, NoJob
  <1>6. \A o : Known(o) = RowsOf(live, o)
    BY <1>3 DEF PublishingInit, Known, Writers
  <1>7. \A r, q \in live : r = q
    BY DEF PublishingInit
  <1>8. OneUuid
    BY <1>6, <1>7 DEF OneUuid, RowsOf
  <1> QED BY <1>2, <1>4, <1>5, <1>8 DEF TablesInv, PublishingInit

\* Types.
LEMMA EndJobType ==
  ASSUME PublishingTypeOK, NEW a \in Admins, EndJob(a)
  PROVE  /\ lock' \in [{"temp", "live"} -> Admins \cup {Free}]
         /\ step' \in [Admins -> {"idle", "uuids", "delete", "insert", "deleteLive", "copy"}]
         /\ job' \in [Admins -> [rows : SUBSET Row, orgs : SUBSET Orgs, year : Years \cup {All}]]
  <1>1. NoJob \in [rows : SUBSET Row, orgs : SUBSET Orgs, year : Years \cup {All}]
    BY DEF NoJob
  <1> QED BY <1>1 DEF PublishingTypeOK, EndJob, Goto

LEMMA AdminType ==
  ASSUME TablesInv, NEW a \in Admins,
         \/ \E parsed \in SUBSET Orgs, year \in Years : Parse(a, parsed, year)
         \/ ReuseUuids(a) \/ DeleteExisting(a) \/ InsertRows(a)
         \/ \E year \in Years \cup {All}, asked \in SUBSET Orgs : SelectOrgs(a, year, asked)
         \/ DeleteLive(a) \/ CopyRows(a) \/ Rollback(a)
  PROVE  PublishingTypeOK' /\ uploads' \in Nat
  <1> DEFINE Job == [rows : SUBSET Row, orgs : SUBSET Orgs, year : Years \cup {All}]
             Steps == {"idle", "uuids", "delete", "insert", "deleteLive", "copy"}
  <1>1. /\ PublishingTypeOK /\ uploads \in Nat /\ MaxUploads \in Nat
        /\ temp \subseteq Row /\ live \subseteq Row
        /\ lock \in [{"temp", "live"} -> Admins \cup {Free}]
        /\ step \in [Admins -> Steps] /\ job \in [Admins -> Job]
    BY PublishingAssumption DEF TablesInv, PublishingTypeOK
  <1>2. ASSUME NEW parsed \in SUBSET Orgs, NEW year \in Years, Parse(a, parsed, year)
        PROVE  PublishingTypeOK' /\ uploads' \in Nat
    <2>1. uploads' \in Nat /\ uploads' \in 0 .. MaxUploads
      BY <1>1, <1>2 DEF Parse
    <2> DEFINE rows == {[org |-> o, year |-> year, file |-> uploads', uuid |-> uploads'] :
                           o \in parsed}
    <2>2. rows \subseteq Row
      BY <2>1 DEF Row
    <2>3. [rows |-> rows, orgs |-> parsed, year |-> year] \in Job
      BY <2>2
    <2>4. job' = [job EXCEPT ![a] = [rows |-> rows, orgs |-> parsed, year |-> year]]
      BY <1>2 DEF Parse
    <2> HIDE DEF rows
    <2>5. job' \in [Admins -> Job]
      BY <1>1, <2>3, <2>4
    <2>6. step' \in [Admins -> Steps]
      BY <1>1, <1>2 DEF Parse, Goto
    <2> QED BY <1>1, <1>2, <2>1, <2>5, <2>6 DEF Parse, PublishingTypeOK
  <1>3. CASE ReuseUuids(a)
    <2> DEFINE rows == {[r EXCEPT !.uuid = FileId(r.org, @)] : r \in job[a].rows}
    <2>1. ASSUME NEW r \in job[a].rows PROVE [r EXCEPT !.uuid = FileId(r.org, @)] \in Row
      <3>1. r \in Row /\ r.uuid \in 0 .. MaxUploads
        BY <1>1 DEF Row
      <3>2. FileId(r.org, r.uuid) \in 0 .. MaxUploads
        BY <1>1, <3>1, FileIdIs
      <3> QED BY <3>1, <3>2 DEF Row
    <2>2. rows \subseteq Row
      BY <2>1
    <2>3. job' = [job EXCEPT ![a].rows = rows]
      BY <1>3 DEF ReuseUuids
    <2> HIDE DEF rows
    <2>4. job' \in [Admins -> Job]
      BY <1>1, <2>2, <2>3
    <2>5. step' \in [Admins -> Steps]
      BY <1>1, <1>3 DEF ReuseUuids, Goto
    <2> QED BY <1>1, <1>3, <2>4, <2>5 DEF ReuseUuids, PublishingTypeOK, boundVars
  <1>4. CASE DeleteExisting(a) \/ DeleteLive(a)
    BY <1>1, <1>4 DEF DeleteExisting, DeleteLive, PublishingTypeOK, Goto, boundVars
  <1>5. CASE InsertRows(a)
    <2>1. temp' \subseteq Row
      BY <1>1, <1>5 DEF InsertRows, Outside
    <2> QED BY <1>1, <1>5, <2>1, EndJobType DEF InsertRows, PublishingTypeOK, boundVars
  <1>6. ASSUME NEW year \in Years \cup {All}, NEW asked \in SUBSET Orgs,
               SelectOrgs(a, year, asked)
        PROVE  PublishingTypeOK' /\ uploads' \in Nat
    <2>1. PICK orgs \in SUBSET Orgs :
             job' = [job EXCEPT ![a] = [rows |-> {}, orgs |-> orgs, year |-> year]]
      BY <1>6 DEF SelectOrgs
    <2>2. job' \in [Admins -> Job]
      BY <1>1, <2>1
    <2>3. step' \in [Admins -> Steps]
      BY <1>1, <1>6 DEF SelectOrgs, Goto
    <2> QED BY <1>1, <1>6, <2>2, <2>3 DEF SelectOrgs, PublishingTypeOK
  <1>7. CASE CopyRows(a)
    <2>1. live' \subseteq Row
      BY <1>1, <1>7 DEF CopyRows, Copied, Outside
    <2> QED BY <1>1, <1>7, <2>1, EndJobType DEF CopyRows, PublishingTypeOK, boundVars
  <1>8. CASE Rollback(a)
    BY <1>1, <1>8, EndJobType DEF Rollback, PublishingTypeOK
  <1> QED BY <1>2, <1>3, <1>4, <1>5, <1>6, <1>7, <1>8

\* What a correction leaves of a table: rows of the same organisations with the
\* same ids.
Correction(t, table) ==
    /\ table \subseteq Row
    /\ \A r \in table : \E q \in Table(t) : q.org = r.org /\ q.uuid = r.uuid
    /\ Correct(t, table)

LEMMA Corrections ==
  ASSUME PublishingTypeOK, NEW t \in DOMAIN lock,
         \/ \E r \in Table(t), year \in Years : UpdateRow(t, r, year)
         \/ \E r \in Table(t) : DeleteRow(t, r)
         \/ \E year \in Years \cup {All} : DeleteRows(t, year)
  PROVE  \E table : Correction(t, table)
  <1>1. Table(t) \subseteq Row
    BY DEF PublishingTypeOK, Table
  <1>2. ASSUME NEW r \in Table(t), NEW year \in Years, UpdateRow(t, r, year)
        PROVE  \E table : Correction(t, table)
    <2>1. r \in Row
      BY <1>1
    <2> DEFINE new == [r EXCEPT !.year = year]
    <2>2. new \in Row /\ new.org = r.org /\ new.uuid = r.uuid
      BY <2>1 DEF Row
    <2> HIDE DEF new
    <2>3. Correct(t, (Table(t) \ {r}) \cup {new})
      BY <1>2 DEF UpdateRow, new
    <2>4. Correction(t, (Table(t) \ {r}) \cup {new})
      BY <1>1, <2>2, <2>3 DEF Correction
    <2> QED BY <2>4
  <1>3. ASSUME NEW r \in Table(t), DeleteRow(t, r)
        PROVE  \E table : Correction(t, table)
    <2>1. Correction(t, Table(t) \ {r})
      BY <1>1, <1>3 DEF Correction, DeleteRow
    <2> QED BY <2>1
  <1>4. ASSUME NEW year \in Years \cup {All}, DeleteRows(t, year)
        PROVE  \E table : Correction(t, table)
    <2>1. Correction(t, {r \in Table(t) : year \notin {All, r.year}})
      BY <1>1, <1>4 DEF Correction, DeleteRows
    <2> QED BY <2>1
  <1> QED BY <1>2, <1>3, <1>4

LEMMA CorrectionKeeps ==
  ASSUME TablesInv, NEW t, NEW table, Correction(t, table)
  PROVE  /\ PublishingTypeOK' /\ uploads' \in Nat /\ Waiting'
         /\ TempStaged' /\ LiveWasStaged'
         /\ raced' = raced
         /\ \A o \in Orgs : \A r \in Known(o)' : \E q \in Known(o) : q.uuid = r.uuid
  <1>1. /\ PublishingTypeOK /\ uploads \in Nat /\ Waiting /\ TempStaged /\ LiveWasStaged
        /\ table \subseteq Row /\ Correct(t, table)
    BY DEF TablesInv, Correction
  <1>2. UNCHANGED <<lock, step, job, uploads, raced>>
    BY <1>1 DEF Correct
  <1>3. Waiting'
    BY <1>1, <1>2 DEF Waiting
  <1>4. CASE t = "temp" /\ temp' = table /\ Staged /\ UNCHANGED <<live, byHand>>
    <2>1. PublishingTypeOK'
      BY <1>1, <1>2, <1>4 DEF PublishingTypeOK
    <2>2. TempStaged'
      BY <1>1, <1>4 DEF TempStaged, Staged, RowsOf
    <2>3. \A o \in Orgs : staged[o] \subseteq staged'[o]
      BY <1>1, <1>4 DEF Staged
    <2>4. LiveWasStaged'
      BY <1>1, <1>4, <2>3 DEF LiveWasStaged, RowsOf
    <2>5. ASSUME NEW o \in Orgs, NEW r \in Known(o)'
          PROVE  \E q \in Known(o) : q.uuid = r.uuid
      <3>1. \/ r \in RowsOf(table, o)
            \/ r \in RowsOf(live, o) \cup UNION {RowsOf(job[a].rows, o) : a \in Writers}
        BY <1>2, <1>4, <2>5 DEF Known, Writers, RowsOf
      <3>2. CASE r \in RowsOf(table, o)
        <4>1. PICK q \in temp : q.org = r.org /\ q.uuid = r.uuid
          BY <1>4, <3>2 DEF Correction, Table, RowsOf
        <4>2. q \in Known(o)
          BY <3>2, <4>1 DEF Known, RowsOf
        <4> QED BY <4>1, <4>2
      <3> QED BY <3>1, <3>2 DEF Known
    <2> QED BY <1>1, <1>2, <1>3, <2>1, <2>2, <2>4, <2>5
  <1>5. CASE /\ t = "live" /\ live' = table
             /\ byHand' = byHand \cup {o \in Orgs : RowsOf(live, o) # RowsOf(table, o)}
             /\ UNCHANGED <<temp, staged>>
    <2>1. PublishingTypeOK'
      BY <1>1, <1>2, <1>5 DEF PublishingTypeOK
    <2>2. TempStaged'
      BY <1>1, <1>5 DEF TempStaged, RowsOf
    <2>3. LiveWasStaged'
      <3> SUFFICES ASSUME NEW o \in Orgs \ byHand' PROVE RowsOf(live', o) \in staged'[o]
        BY DEF LiveWasStaged
      <3>1. o \notin byHand /\ RowsOf(live, o) = RowsOf(table, o)
        BY <1>5
      <3> QED BY <1>1, <1>5, <3>1 DEF LiveWasStaged
    <2>4. ASSUME NEW o \in Orgs, NEW r \in Known(o)'
          PROVE  \E q \in Known(o) : q.uuid = r.uuid
      <3>1. \/ r \in RowsOf(table, o)
            \/ r \in RowsOf(temp, o) \cup UNION {RowsOf(job[a].rows, o) : a \in Writers}
        BY <1>2, <1>5, <2>4 DEF Known, Writers, RowsOf
      <3>2. CASE r \in RowsOf(table, o)
        <4>1. PICK q \in live : q.org = r.org /\ q.uuid = r.uuid
          BY <1>5, <3>2 DEF Correction, Table, RowsOf
        <4>2. q \in Known(o)
          BY <3>2, <4>1 DEF Known, RowsOf
        <4> QED BY <4>1, <4>2
      <3> QED BY <3>1, <3>2 DEF Known
    <2> QED BY <1>1, <1>2, <1>3, <2>1, <2>2, <2>3, <2>4
  <1> QED BY <1>1, <1>4, <1>5 DEF Correct

\* A step in which the rows of an organisation keep to the ids there were.
Narrow == \A o \in Orgs : \A r \in Known(o)' : \E q \in Known(o) : q.uuid = r.uuid

LEMMA NarrowKeeps ==
  ASSUME TablesInv, raced \subseteq raced', Narrow
  PROVE  OneUuid'
  <1> SUFFICES ASSUME NEW o \in Orgs, o \notin raced', NEW r \in Known(o)', NEW q \in Known(o)'
               PROVE  r.uuid = q.uuid
    BY DEF OneUuid
  <1>1. PICK x \in Known(o), y \in Known(o) : x.uuid = r.uuid /\ y.uuid = q.uuid
    BY DEF Narrow
  <1> QED BY <1>1 DEF TablesInv, OneUuid

\* When a request ends, its rows are gone.
LEMMA EndJobRows ==
  ASSUME PublishingTypeOK, Waiting, NEW a \in Admins, EndJob(a)
  PROVE  /\ Waiting'
         /\ Writers' \subseteq Writers \ {a}
         /\ \A b \in Writers' : job'[b] = job[b]
  <1>1. step \in [Admins -> {"idle", "uuids", "delete", "insert", "deleteLive", "copy"}]
    BY DEF PublishingTypeOK
  <1>2. job \in [Admins -> [rows : SUBSET Row, orgs : SUBSET Orgs, year : Years \cup {All}]]
    BY DEF PublishingTypeOK
  <1>3. step' = [step EXCEPT ![a] = "idle"] /\ job' = [job EXCEPT ![a] = NoJob]
    BY DEF EndJob, Goto
  <1>4. \A b \in Admins : b # a => job'[b] = job[b] /\ step'[b] = step[b]
    BY <1>1, <1>2, <1>3
  <1>5. step'[a] = "idle" /\ job'[a].rows = {}
    BY <1>1, <1>2, <1>3 DEF NoJob
  <1>6. Writers' \subseteq Writers \ {a}
    BY <1>4, <1>5 DEF Writers
  <1>7. Waiting'
    BY <1>4, <1>5 DEF Waiting
  <1> QED BY <1>4, <1>6, <1>7 DEF Writers

\* The steps of an upload before its commit, and those of a request to publish
\* before it copies: they leave the tables alone.
LEMMA ParseKeeps ==
  ASSUME TablesInv, NEW a \in Admins, NEW parsed \in SUBSET Orgs, NEW year \in Years,
         Parse(a, parsed, year)
  PROVE  Waiting' /\ Narrow
  <1>1. /\ step \in [Admins -> {"idle", "uuids", "delete", "insert", "deleteLive", "copy"}]
        /\ job \in [Admins -> [rows : SUBSET Row, orgs : SUBSET Orgs, year : Years \cup {All}]]
        /\ Waiting
    BY DEF TablesInv, PublishingTypeOK
  <1> DEFINE rows == {[org |-> o, year |-> year, file |-> uploads', uuid |-> uploads'] :
                         o \in parsed}
  <1>2. \A r \in rows : r.org \in parsed /\ r.uuid = uploads'
    OBVIOUS
  <1>3. job' = [job EXCEPT ![a] = [rows |-> rows, orgs |-> parsed, year |-> year]]
    BY DEF Parse
  <1> HIDE DEF rows
  <1>4. /\ job'[a].rows = rows /\ job'[a].orgs = parsed
        /\ \A b \in Admins : b # a => job'[b] = job[b]
    BY <1>1, <1>3
  <1>5. Waiting'
    BY <1>1, <1>2, <1>4 DEF Waiting
  <1>6. step' = [step EXCEPT ![a] = IF parsed = {} THEN "idle" ELSE "uuids"]
    BY DEF Parse, Goto
  <1>7. \A b \in Writers' : b \in Writers /\ job'[b] = job[b]
    BY <1>1, <1>4, <1>6 DEF Writers
  <1>8. \A o \in Orgs : Known(o)' \subseteq Known(o)
    BY <1>7 DEF Parse, Known, RowsOf
  <1> QED BY <1>5, <1>8 DEF Narrow

LEMMA SelectKeeps ==
  ASSUME TablesInv, NEW a \in Admins, NEW year \in Years \cup {All}, NEW asked \in SUBSET Orgs,
         SelectOrgs(a, year, asked)
  PROVE  Waiting' /\ Narrow
  <1>1. /\ step \in [Admins -> {"idle", "uuids", "delete", "insert", "deleteLive", "copy"}]
        /\ job \in [Admins -> [rows : SUBSET Row, orgs : SUBSET Orgs, year : Years \cup {All}]]
        /\ Waiting
    BY DEF TablesInv, PublishingTypeOK
  <1>2. PICK orgs : /\ job' = [job EXCEPT ![a] = [rows |-> {}, orgs |-> orgs, year |-> year]]
                    /\ step' = [step EXCEPT ![a] = IF orgs = {} THEN "idle" ELSE "deleteLive"]
    BY DEF SelectOrgs, Goto
  <1>3. job'[a].rows = {} /\ \A b \in Admins : b # a => job'[b] = job[b]
    BY <1>1, <1>2
  <1>4. Waiting'
    BY <1>1, <1>3 DEF Waiting
  <1>5. \A b \in Writers' : b \in Writers /\ job'[b] = job[b]
    BY <1>1, <1>2, <1>3 DEF Writers
  <1>6. \A o \in Orgs : Known(o)' \subseteq Known(o)
    BY <1>5 DEF SelectOrgs, Known, RowsOf
  <1> QED BY <1>4, <1>6 DEF Narrow

LEMMA LockKeeps ==
  ASSUME TablesInv, NEW a \in Admins, DeleteExisting(a) \/ DeleteLive(a)
  PROVE  Waiting' /\ Narrow
  <1>1. /\ step \in [Admins -> {"idle", "uuids", "delete", "insert", "deleteLive", "copy"}]
        /\ Waiting
    BY DEF TablesInv, PublishingTypeOK
  <1>2. Writers' = Writers
    BY <1>1 DEF Writers, DeleteExisting, DeleteLive, Goto
  <1>3. \A o \in Orgs : Known(o)' = Known(o)
    BY <1>2 DEF DeleteExisting, DeleteLive, Known, RowsOf
  <1>4. Waiting'
    BY <1>1 DEF Waiting, DeleteExisting, DeleteLive
  <1> QED BY <1>3, <1>4 DEF Narrow

\* An upload takes its ids: it can bring a new one only where there are no rows
\* of the organisation, or where another upload of it is under way.
LEMMA ReuseKeeps ==
  ASSUME TablesInv, NEW a \in Admins, ReuseUuids(a)
  PROVE  Waiting' /\ OneUuid'
  <1>1. /\ step \in [Admins -> {"idle", "uuids", "delete", "insert", "deleteLive", "copy"}]
        /\ job \in [Admins -> [rows : SUBSET Row, orgs : SUBSET Orgs, year : Years \cup {All}]]
        /\ temp \subseteq Row /\ live \subseteq Row
        /\ Waiting /\ OneUuid
    BY DEF TablesInv, PublishingTypeOK
  <1> DEFINE rows == {[r EXCEPT !.uuid = FileId(r.org, @)] : r \in job[a].rows}
  <1>2. job' = [job EXCEPT ![a].rows = rows]
    BY DEF ReuseUuids
  <1>3. \A r \in rows : \E x \in job[a].rows : r.org = x.org /\ r.uuid = FileId(x.org, x.uuid)
    <2> SUFFICES ASSUME NEW x \in job[a].rows
                 PROVE  LET r == [x EXCEPT !.uuid = FileId(x.org, @)]
                        IN  r.org = x.org /\ r.uuid = FileId(x.org, x.uuid)
      OBVIOUS
    <2>1. x \in Row
      BY <1>1
    <2> QED BY <2>1 DEF Row
  <1> HIDE DEF rows
  <1>4. /\ job'[a].rows = rows /\ job'[a].orgs = job[a].orgs
        /\ \A b \in Admins : b # a => job'[b] = job[b]
    BY <1>1, <1>2
  <1>5. step' = [step EXCEPT ![a] = "delete"]
    BY DEF ReuseUuids, Goto
  <1>6. a \notin Writers /\ \A b \in Writers' : b = a \/ (b \in Writers /\ job'[b] = job[b])
    BY <1>1, <1>4, <1>5 DEF Writers, ReuseUuids
  <1>7. \A r \in rows : r.org \in job[a].orgs
    BY <1>1, <1>3 DEF Waiting
  <1>8. \A r, q \in rows : r.org = q.org => r.uuid = q.uuid
    <2> SUFFICES ASSUME NEW r \in rows, NEW q \in rows, r.org = q.org PROVE r.uuid = q.uuid
      OBVIOUS
    <2>1. PICK x \in job[a].rows : r.org = x.org /\ r.uuid = FileId(x.org, x.uuid)
      BY <1>3
    <2>2. PICK y \in job[a].rows : q.org = y.org /\ q.uuid = FileId(y.org, y.uuid)
      BY <1>3
    <2>3. x.uuid = y.uuid
      BY <1>1, <2>1, <2>2 DEF Waiting
    <2> QED BY <2>1, <2>2, <2>3
  <1>9. Waiting'
    BY <1>1, <1>4, <1>7, <1>8 DEF Waiting
  <1>10. OneUuid'
    <2> SUFFICES ASSUME NEW o \in Orgs, o \notin raced'
                 PROVE  (\A r, q \in Known(o) : r.uuid = q.uuid)'
      BY DEF OneUuid
    <2>1. raced' = raced \cup (job[a].orgs \cap UNION {Uploading(b) : b \in Admins})
      BY DEF ReuseUuids
    <2>2. \A x, y \in Known(o) : x.uuid = y.uuid
      BY <1>1, <2>1 DEF OneUuid
    <2>3. ASSUME NEW r \in Known(o)' PROVE r \in RowsOf(rows, o) \/ r \in Known(o)
      <3>1. \/ r \in RowsOf(live, o) \cup RowsOf(temp, o)
            \/ \E b \in Writers' : r \in RowsOf(job'[b].rows, o)
        BY DEF Known, RowsOf, ReuseUuids
      <3> QED BY <1>4, <1>6, <3>1 DEF Known
    <2>4. CASE RowsOf(rows, o) = {}
      BY <2>2, <2>3, <2>4
    <2>5. CASE RowsOf(rows, o) # {}
      <3>1. o \in job[a].orgs
        BY <1>7, <2>5 DEF RowsOf
      <3>2. \A b \in Writers : o \notin job[b].orgs
        BY <2>1, <3>1 DEF Writers, Uploading
      <3>3. \A b \in Writers : RowsOf(job[b].rows, o) = {}
        BY <1>1, <3>2 DEF Waiting, RowsOf, Writers
      <3>4. \A r \in Known(o) : r \in RowsOf(live, o) \/ r \in RowsOf(temp, o)
        BY <3>3 DEF Known
      <3>5. ASSUME NEW r \in RowsOf(rows, o), NEW q \in Known(o) PROVE r.uuid = q.uuid
        <4>1. PICK x \in job[a].rows : r.org = x.org /\ r.uuid = FileId(x.org, x.uuid)
          BY <1>3 DEF RowsOf
        <4>2. x.org = o /\ x.uuid \in 0 .. MaxUploads
          BY <1>1, <4>1 DEF RowsOf, Row
        <4>3. \/ r.uuid \in Uuids(live, o)
              \/ Uuids(live, o) = {} /\ r.uuid \in Uuids(temp, o)
              \/ Uuids(live, o) = {} /\ Uuids(temp, o) = {}
          BY <1>1, <4>1, <4>2, FileIdIs
        <4>4. ~ (Uuids(live, o) = {} /\ Uuids(temp, o) = {})
          BY <3>4 DEF Uuids
        <4>5. PICK y \in RowsOf(live, o) \cup RowsOf(temp, o) : r.uuid = y.uuid
          BY <4>3, <4>4 DEF Uuids
        <4>6. y \in Known(o)
          BY DEF Known
        <4> QED BY <2>2, <4>5, <4>6
      <3>6. \A r, q \in RowsOf(rows, o) : r.uuid = q.uuid
        BY <1>8 DEF RowsOf
      <3> QED BY <2>2, <2>3, <3>5, <3>6
    <2> QED BY <2>4, <2>5
  <1> QED BY <1>9, <1>10

\* A commit.
LEMMA InsertKeeps ==
  ASSUME TablesInv, NEW a \in Admins, InsertRows(a)
  PROVE  Waiting' /\ TempStaged' /\ LiveWasStaged' /\ Narrow
  <1>1. PublishingTypeOK /\ Waiting /\ TempStaged /\ LiveWasStaged
    BY DEF TablesInv
  <1>2. EndJob(a) /\ UNCHANGED <<live, byHand>> /\ a \in Writers
    BY DEF InsertRows, Writers
  <1>3. temp' = Outside(temp, job[a].orgs) \cup job[a].rows
    BY DEF InsertRows
  <1>4. temp' \subseteq Row
    BY <1>1, <1>3 DEF PublishingTypeOK, Outside
  <1>5. staged' = [o \in Orgs |-> staged[o] \cup {RowsOf(temp', o)}]
    BY DEF InsertRows, Staged
  <1>6. TempStaged'
    BY <1>1, <1>4, <1>5 DEF TempStaged, RowsOf
  <1>7. LiveWasStaged'
    BY <1>1, <1>2, <1>5 DEF LiveWasStaged, RowsOf
  <1>8. Narrow
    <2>1. \A o \in Orgs : \A r \in Known(o)' :
             \/ r \in RowsOf(live, o)
             \/ r \in RowsOf(temp', o)
             \/ \E b \in Writers : r \in RowsOf(job[b].rows, o)
      BY <1>1, <1>2, EndJobRows DEF Known, RowsOf
    <2>2. \A o \in Orgs : \A r \in RowsOf(temp', o) :
             r \in RowsOf(temp, o) \/ r \in RowsOf(job[a].rows, o)
      BY <1>3 DEF RowsOf, Outside
    <2>3. \A o \in Orgs : \A r \in Known(o)' : r \in Known(o)
      BY <1>2, <2>1, <2>2 DEF Known
    <2> QED BY <2>3 DEF Narrow
  <1> QED BY <1>1, <1>2, <1>6, <1>7, <1>8, EndJobRows

LEMMA CopyKeeps ==
  ASSUME TablesInv, NEW a \in Admins, CopyRows(a)
  PROVE  Waiting' /\ TempStaged' /\ LiveWasStaged' /\ Narrow
  <1>1. PublishingTypeOK /\ Waiting /\ TempStaged /\ LiveWasStaged
    BY DEF TablesInv
  <1>2. EndJob(a) /\ UNCHANGED <<temp, staged, raced>>
    BY DEF CopyRows
  <1>3. /\ live' = Outside(live, job[a].orgs) \cup {r \in temp : r.org \in job[a].orgs}
        /\ byHand' = byHand \ job[a].orgs
    BY DEF CopyRows, Copied
  <1>4. TempStaged'
    BY <1>1, <1>2 DEF TempStaged, RowsOf
  <1>5. LiveWasStaged'
    <2> SUFFICES ASSUME NEW o \in Orgs \ byHand' PROVE RowsOf(live', o) \in staged[o]
      BY <1>2 DEF LiveWasStaged
    <2>1. CASE o \in job[a].orgs
      <3>1. RowsOf(live', o) = RowsOf(temp, o)
        BY <1>3, <2>1 DEF RowsOf, Outside
      <3> QED BY <1>1, <3>1 DEF TempStaged
    <2>2. CASE o \notin job[a].orgs
      <3>1. RowsOf(live', o) = RowsOf(live, o) /\ o \notin byHand
        BY <1>3, <2>2 DEF RowsOf, Outside
      <3> QED BY <1>1, <3>1 DEF LiveWasStaged
    <2> QED BY <2>1, <2>2
  <1>6. Narrow
    <2>1. \A o \in Orgs : \A r \in Known(o)' :
             \/ r \in RowsOf(live', o)
             \/ r \in RowsOf(temp, o)
             \/ \E b \in Writers : r \in RowsOf(job[b].rows, o)
      BY <1>1, <1>2, EndJobRows DEF Known, RowsOf
    <2>2. \A o \in Orgs : \A r \in RowsOf(live', o) : r \in RowsOf(live, o) \/ r \in RowsOf(temp, o)
      BY <1>3 DEF RowsOf, Outside
    <2>3. \A o \in Orgs : \A r \in Known(o)' : r \in Known(o)
      BY <2>1, <2>2 DEF Known
    <2> QED BY <2>3 DEF Narrow
  <1> QED BY <1>1, <1>2, <1>4, <1>5, <1>6, EndJobRows

LEMMA RollbackKeeps ==
  ASSUME TablesInv, NEW a \in Admins, Rollback(a)
  PROVE  Waiting' /\ Narrow
  <1>1. PublishingTypeOK /\ Waiting /\ EndJob(a) /\ UNCHANGED <<temp, live>>
    BY DEF TablesInv, Rollback
  <1>2. \A o \in Orgs : \A r \in Known(o)' : r \in Known(o)
    BY <1>1, EndJobRows DEF Known, RowsOf
  <1> QED BY <1>1, <1>2, EndJobRows DEF Narrow

\* Together.  Every step but the one that takes ids keeps to the ids there were.
LEMMA TablesStep ==
  ASSUME TablesInv, [PublishingNext]_publishingVars
  PROVE  TablesInv'
  <1>1. TempStaged /\ LiveWasStaged
    BY DEF TablesInv
  <1>2. ASSUME UNCHANGED <<temp, live, traceVars>> PROVE TempStaged' /\ LiveWasStaged'
    BY <1>1, <1>2 DEF TempStaged, LiveWasStaged, RowsOf, traceVars
  <1>3. ASSUME UNCHANGED <<temp, live, staged, byHand>> PROVE TempStaged' /\ LiveWasStaged'
    BY <1>1, <1>3 DEF TempStaged, LiveWasStaged, RowsOf
  <1>4. ASSUME NEW a \in Admins, NEW parsed \in SUBSET Orgs, NEW year \in Years,
               Parse(a, parsed, year)
        PROVE  TablesInv'
    <2>1. UNCHANGED <<temp, live, traceVars>> /\ raced' = raced
      BY <1>4 DEF Parse, traceVars
    <2> QED BY <1>2, <1>4, <2>1, AdminType, ParseKeeps, NarrowKeeps DEF TablesInv
  <1>5. ASSUME NEW a \in Admins, ReuseUuids(a) PROVE TablesInv'
    <2>1. UNCHANGED <<temp, live, staged, byHand>>
      BY <1>5 DEF ReuseUuids
    <2> QED BY <1>3, <1>5, <2>1, AdminType, ReuseKeeps DEF TablesInv
  <1>6. ASSUME NEW a \in Admins, DeleteExisting(a) \/ DeleteLive(a) PROVE TablesInv'
    <2>1. UNCHANGED <<temp, live, traceVars>> /\ raced' = raced
      BY <1>6 DEF DeleteExisting, DeleteLive, traceVars
    <2> QED BY <1>2, <1>6, <2>1, AdminType, LockKeeps, NarrowKeeps DEF TablesInv
  <1>7. ASSUME NEW a \in Admins, InsertRows(a) PROVE TablesInv'
    <2>1. raced' = raced
      BY <1>7 DEF InsertRows
    <2> QED BY <1>7, <2>1, AdminType, InsertKeeps, NarrowKeeps DEF TablesInv
  <1>8. ASSUME NEW a \in Admins, NEW year \in Years \cup {All}, NEW asked \in SUBSET Orgs,
               SelectOrgs(a, year, asked)
        PROVE  TablesInv'
    <2>1. UNCHANGED <<temp, live, traceVars>> /\ raced' = raced
      BY <1>8 DEF SelectOrgs, traceVars
    <2> QED BY <1>2, <1>8, <2>1, AdminType, SelectKeeps, NarrowKeeps DEF TablesInv
  <1>9. ASSUME NEW a \in Admins, CopyRows(a) PROVE TablesInv'
    <2>1. raced' = raced
      BY <1>9 DEF CopyRows
    <2> QED BY <1>9, <2>1, AdminType, CopyKeeps, NarrowKeeps DEF TablesInv
  <1>10. ASSUME NEW a \in Admins, Rollback(a) PROVE TablesInv'
    <2>1. UNCHANGED <<temp, live, traceVars>> /\ raced' = raced
      BY <1>10 DEF Rollback, traceVars
    <2> QED BY <1>2, <1>10, <2>1, AdminType, RollbackKeeps, NarrowKeeps DEF TablesInv
  <1>11. ASSUME NEW t \in DOMAIN lock,
                \/ \E r \in Table(t), year \in Years : UpdateRow(t, r, year)
                \/ \E r \in Table(t) : DeleteRow(t, r)
                \/ \E year \in Years \cup {All} : DeleteRows(t, year)
         PROVE  TablesInv'
    <2>1. PICK table : Correction(t, table)
      BY <1>11, Corrections DEF TablesInv
    <2> QED BY <2>1, CorrectionKeeps, NarrowKeeps DEF TablesInv, Narrow
  <1>12. CASE UNCHANGED publishingVars
    <2>1. UNCHANGED <<temp, live, lock, step, job, uploads, staged, byHand, raced>>
      BY <1>12 DEF publishingVars, boundVars, traceVars
    <2>2. \A o \in Orgs : Known(o)' = Known(o)
      BY <2>1 DEF Known, RowsOf, Writers
    <2>3. OneUuid'
      BY <2>1, <2>2 DEF OneUuid, TablesInv
    <2>4. Waiting' /\ PublishingTypeOK'
      BY <2>1 DEF Waiting, PublishingTypeOK, TablesInv
    <2> QED BY <1>3, <2>1, <2>3, <2>4 DEF TablesInv
  <1> QED
    BY <1>4, <1>5, <1>6, <1>7, <1>8, <1>9, <1>10, <1>11, <1>12 DEF PublishingNext

\* The tables, the locks and the requests keep their shapes.
THEOREM PublishingTypes == PublishingSpec => []PublishingTypeOK
  <1>1. TablesInv => PublishingTypeOK
    BY DEF TablesInv
  <1> QED BY <1>1, TablesInit, TablesStep, PTL DEF PublishingSpec

\* Searches never see an organisation half published, for any number of uploads,
\* corrections and requests that overlap, and whichever statements fail.
THEOREM NeverHalfPublished == PublishingSpec => []LiveWasStaged
  <1>1. TablesInv => LiveWasStaged
    BY DEF TablesInv
  <1> QED BY <1>1, TablesInit, TablesStep, PTL DEF PublishingSpec

\* A download link survives: the id of an organisation's file stays what it was,
\* unless uploads of the organisation overlapped.
THEOREM LinksSurvive == PublishingSpec => UuidKept
  <1> DEFINE Stays == \A o \in Orgs \ raced :
                        (Uuids(live, o) # {} /\ Uuids(live', o) # {}) =>
                           Uuids(live', o) = Uuids(live, o)
  <1>1. ASSUME TablesInv, TablesInv', [PublishingNext]_publishingVars PROVE [Stays]_publishingVars
    <2> SUFFICES ASSUME NEW o \in Orgs \ raced, Uuids(live, o) # {}, Uuids(live', o) # {}
                 PROVE  Uuids(live', o) = Uuids(live, o)
      OBVIOUS
    <2>1. \A r, q \in Known(o) : r.uuid = q.uuid
      BY <1>1 DEF TablesInv, OneUuid
    <2>2. \A r \in RowsOf(live', o) : \E q \in Known(o) : q.uuid = r.uuid
      <3>1. CASE live' = live
        BY <3>1 DEF Known
      <3>2. ASSUME NEW a \in Admins, CopyRows(a)
            PROVE  \A r \in RowsOf(live', o) : \E q \in Known(o) : q.uuid = r.uuid
        BY <1>1, <3>2, CopyKeeps DEF Narrow, Known, RowsOf
      <3>3. ASSUME NEW t \in DOMAIN lock, NEW table, Correction(t, table)
            PROVE  \A r \in RowsOf(live', o) : \E q \in Known(o) : q.uuid = r.uuid
        BY <1>1, <3>3, CorrectionKeeps DEF Known, RowsOf
      <3>4. ASSUME NEW t \in DOMAIN lock,
                   \/ \E r \in Table(t), year \in Years : UpdateRow(t, r, year)
                   \/ \E r \in Table(t) : DeleteRow(t, r)
                   \/ \E year \in Years \cup {All} : DeleteRows(t, year)
            PROVE  \E table : Correction(t, table)
        BY <1>1, <3>4, Corrections DEF TablesInv
      <3>5. ASSUME NEW a \in Admins,
                   \/ \E parsed \in SUBSET Orgs, year \in Years : Parse(a, parsed, year)
                   \/ ReuseUuids(a) \/ DeleteExisting(a) \/ InsertRows(a)
                   \/ \E year \in Years \cup {All}, asked \in SUBSET Orgs :
                         SelectOrgs(a, year, asked)
                   \/ DeleteLive(a) \/ Rollback(a)
            PROVE  live' = live
        BY <3>5 DEF Parse, ReuseUuids, DeleteExisting, InsertRows, SelectOrgs, DeleteLive, Rollback
      <3>6. CASE UNCHANGED publishingVars
        BY <3>1, <3>6 DEF publishingVars
      <3> QED BY <1>1, <3>1, <3>2, <3>3, <3>4, <3>5, <3>6 DEF PublishingNext
    <2>3. \A r \in RowsOf(live, o) : r \in Known(o)
      BY DEF Known
    <2>4. PICK id : Uuids(live, o) = {id} /\ \A r \in Known(o) : r.uuid = id
      BY <2>1, <2>3 DEF Uuids
    <2> QED BY <2>2, <2>4 DEF Uuids
  <1>2. TablesInv /\ TablesInv' /\ [PublishingNext]_publishingVars => [Stays]_publishingVars
    BY <1>1
  <1> HIDE DEF Stays
  <1>3. PublishingSpec => [][Stays]_publishingVars
    BY <1>2, TablesInit, TablesStep, PTL DEF PublishingSpec
  <1> QED BY <1>3 DEF UuidKept, Stays

-------------------------------------------------------------------------------
(* The uploaded documents.                                                 *)

\* A text is on a host from when it was written, and stays on one of them.
TextsInv ==
    /\ local \cup remote \subseteq Uploads
    /\ docs \in Seq(Uploads)
    /\ dstep \in [Uploads -> {"new", "uploaded", "written", "sent", "unsent", "stored",
                              "save", "done"}]
    /\ \A u \in Uploads :
          /\ dstep[u] \in {"written", "unsent"} => u \in local
          /\ dstep[u] = "sent" => u \in remote
    /\ RecordedTextExists

\* An upload keeps the second it got, so what is found in its file, was extracted
\* from it or is passed on to a question is of an upload of the same second.
Arrived(u) == u \in Uploads /\ dstep[u] # "new"
SameSecond(u, t) == Arrived(u) /\ Arrived(t) /\ stamp[u] = stamp[t]

SecondsInv ==
    /\ TextsInv
    /\ second \in Nat
    /\ stamp \in [Uploads -> 0 .. MaxSeconds]
    /\ \A s \in DOMAIN disk : Arrived(disk[s]) /\ stamp[disk[s]] = s
    /\ \A u \in Uploads : dstep[u] # "new" => stamp[u] \in DOMAIN disk
    /\ local \cup remote \subseteq DOMAIN body
    /\ \A u \in DOMAIN body : SameSecond(u, body[u])
    /\ todo \in [Questions -> SUBSET Ours]
    /\ context \in [Questions -> SUBSET Uploads]
    /\ \A q \in Questions : \A t \in context[q] : \E u \in Ours : SameSecond(u, t)

LEMMA DocumentsInitInv == DocumentsInit => SecondsInv
  <1> SUFFICES ASSUME DocumentsInit PROVE SecondsInv
    OBVIOUS
  <1>1. docs \in Seq(Uploads) /\ DOMAIN docs = {}
    BY DEF DocumentsInit
  <1>2. TextsInv
    BY <1>1 DEF DocumentsInit, TextsInv, RecordedTextExists
  <1>3. DOMAIN disk = {} /\ DOMAIN body = {}
    BY DEF DocumentsInit
  <1>4. stamp \in [Uploads -> 0 .. MaxSeconds]
    BY DocumentAssumption DEF DocumentsInit
  <1> QED BY <1>2, <1>3, <1>4 DEF DocumentsInit, SecondsInv

\* A step that leaves the uploads alone.
LEMMA OthersKeep ==
  ASSUME SecondsInv, UNCHANGED <<fileVars, extractVars, todo, context>>
  PROVE  SecondsInv'
  BY DEF SecondsInv, TextsInv, RecordedTextExists, Arrived, SameSecond, fileVars, extractVars

LEMMA UploadKeeps ==
  ASSUME SecondsInv, NEW u \in Uploads, Upload(u)
  PROVE  SecondsInv'
  <1>1. /\ TextsInv /\ second \in Nat /\ stamp \in [Uploads -> 0 .. MaxSeconds]
        /\ dstep \in [Uploads -> {"new", "uploaded", "written", "sent", "unsent", "stored",
                                  "save", "done"}]
    BY DEF SecondsInv, TextsInv
  <1>2. dstep[u] = "new" /\ dstep' = [dstep EXCEPT ![u] = "uploaded"]
    BY DEF Upload, Reach
  <1>3. /\ second' \in Nat /\ second' \in 0 .. MaxSeconds
        /\ stamp' = [stamp EXCEPT ![u] = second']
        /\ disk' = With(disk, second', u)
        /\ UNCHANGED <<body, local, remote, docs, todo, context>>
    BY <1>1, DocumentAssumption DEF Upload, FileName, askVars
  <1>4. TextsInv'
    BY <1>1, <1>2, <1>3 DEF TextsInv, RecordedTextExists
  <1>5. \A w : Arrived(w) => Arrived(w)' /\ w # u /\ stamp'[w] = stamp[w]
    BY <1>1, <1>2, <1>3 DEF Arrived
  <1>6. Arrived(u)' /\ stamp'[u] = second' /\ stamp' \in [Uploads -> 0 .. MaxSeconds]
    BY <1>1, <1>2, <1>3 DEF Arrived
  <1>7. \A w, t : SameSecond(w, t) => SameSecond(w, t)'
    BY <1>5 DEF SameSecond
  <1>8. /\ DOMAIN disk' = DOMAIN disk \cup {second'} /\ disk'[second'] = u
        /\ \A s \in DOMAIN disk : s # second' => disk'[s] = disk[s]
    BY <1>3 DEF With
  <1>9. (\A s \in DOMAIN disk : Arrived(disk[s]) /\ stamp[disk[s]] = s)'
    BY <1>5, <1>6, <1>8 DEF SecondsInv
  <1>10. \A w \in Uploads : dstep'[w] # "new" => stamp'[w] \in DOMAIN disk'
    BY <1>1, <1>2, <1>3, <1>8 DEF SecondsInv
  <1>11. (\A w \in DOMAIN body : SameSecond(w, body[w]))'
    BY <1>3, <1>7 DEF SecondsInv, SameSecond, Arrived
  <1>12. \A q \in Questions : \A t \in context'[q] : \E w \in Ours : SameSecond(w, t)'
    BY <1>3, <1>7 DEF SecondsInv
  <1> QED BY <1>1, <1>3, <1>4, <1>6, <1>9, <1>10, <1>11, <1>12 DEF SecondsInv, Arrived

\* The steps of an extraction: no second changes.
LEMMA ExtractingKeeps ==
  ASSUME SecondsInv, TextsInv', NEW u \in Uploads,
         dstep[u] # "new", dstep'[u] # "new",
         \A w \in Uploads : w # u => dstep'[w] = dstep[w],
         UNCHANGED fileVars, UNCHANGED <<todo, context>>,
         \/ body' = body /\ local' \cup remote' \subseteq DOMAIN body
         \/ body' = With(body, u, disk[stamp[u]]) /\ local' = local \cup {u} /\ remote' = remote
  PROVE  SecondsInv'
  <1>1. UNCHANGED <<second, disk, stamp>>
    BY DEF fileVars
  <1>2. \A w : Arrived(w) => Arrived(w)'
    BY DEF Arrived
  <1>3. \A w, t : SameSecond(w, t) => SameSecond(w, t)'
    BY <1>1, <1>2 DEF SameSecond
  <1>4. SameSecond(u, disk[stamp[u]])
    BY DEF SecondsInv, SameSecond, Arrived
  <1>5. /\ (\A w \in DOMAIN body : SameSecond(w, body[w]))'
        /\ local' \cup remote' \subseteq DOMAIN body'
    <2>1. CASE body' = body /\ local' \cup remote' \subseteq DOMAIN body
      BY <1>3, <2>1 DEF SecondsInv
    <2>2. CASE body' = With(body, u, disk[stamp[u]]) /\ local' = local \cup {u} /\ remote' = remote
      <3>1. /\ DOMAIN body' = DOMAIN body \cup {u} /\ body'[u] = disk[stamp[u]]
            /\ \A w \in DOMAIN body : w # u => body'[w] = body[w]
        BY <2>2 DEF With
      <3>2. \A w \in DOMAIN body' : SameSecond(w, body'[w])
        BY <1>4, <3>1 DEF SecondsInv
      <3> QED BY <1>3, <2>2, <3>1, <3>2 DEF SecondsInv
    <2> QED BY <2>1, <2>2
  <1>6. \A q \in Questions : \A t \in context'[q] : \E w \in Ours : SameSecond(w, t)'
    BY <1>3 DEF SecondsInv
  <1>7. (\A s \in DOMAIN disk : Arrived(disk[s]) /\ stamp[disk[s]] = s)'
    BY <1>1, <1>2 DEF SecondsInv
  <1>8. \A w \in Uploads : dstep'[w] # "new" => stamp'[w] \in DOMAIN disk'
    BY <1>1 DEF SecondsInv
  <1> QED BY <1>1, <1>5, <1>6, <1>7, <1>8 DEF SecondsInv

LEMMA ExtractionTexts ==
  ASSUME TextsInv, NEW u \in Uploads,
         Extract(u) \/ Transfer(u) \/ Record(u) \/ ReadSummary(u) \/ SaveSummary(u)
  PROVE  TextsInv'
  <1> DEFINE Steps == {"new", "uploaded", "written", "sent", "unsent", "stored", "save", "done"}
  <1>1. dstep \in [Uploads -> Steps] /\ docs \in Seq(Uploads) /\ RecordedTextExists
    BY DEF TextsInv
  <1>2. CASE Extract(u)
    <2>1. PICK s \in {"written", "done"} :
             /\ dstep' = [dstep EXCEPT ![u] = s]
             /\ s = "written" => local' = local \cup {u}
             /\ s = "done" => local' = local
             /\ UNCHANGED <<remote, docs>>
      BY <1>2 DEF Extract, Reach
    <2>2. \A w \in Uploads : dstep'[w] = IF w = u THEN s ELSE dstep[w]
      BY <1>1, <2>1
    <2>3. dstep' \in [Uploads -> Steps]
      BY <1>1, <2>1
    <2> QED BY <1>1, <2>1, <2>2, <2>3 DEF TextsInv, RecordedTextExists
  <1>3. CASE Transfer(u)
    <2>1. PICK s \in {"sent", "unsent"} :
             /\ dstep[u] = "written"
             /\ dstep' = [dstep EXCEPT ![u] = s]
             /\ remote \subseteq remote' /\ remote' \subseteq remote \cup {u}
             /\ s = "sent" => u \in remote'
             /\ UNCHANGED <<local, docs>>
      BY <1>3 DEF Transfer, Reach
    <2>2. \A w \in Uploads : dstep'[w] = IF w = u THEN s ELSE dstep[w]
      BY <1>1, <2>1
    <2>3. dstep' \in [Uploads -> Steps]
      BY <1>1, <2>1
    <2> QED BY <1>1, <2>1, <2>2, <2>3 DEF TextsInv, RecordedTextExists
  <1>4. CASE Record(u)
    <2>1. /\ dstep[u] \in {"sent", "unsent"}
          /\ dstep' = [dstep EXCEPT ![u] = "stored"]
          /\ remote' = remote
          /\ docs' = docs \/ docs' = Append(docs, u)
          /\ \/ local' = local
             \/ local' = IF dstep[u] = "sent" THEN local \ {u} ELSE local
      BY <1>4 DEF Record, Reach, KeptAfter
    <2>2. /\ u \in local' \cup remote'
          /\ local \cup remote \subseteq local' \cup remote'
          /\ local' \subseteq local /\ local \ {u} \subseteq local'
      BY <2>1 DEF TextsInv
    <2>3. docs' \in Seq(Uploads)
      BY <1>1, <2>1
    <2>4. RecordedTextExists'
      <3>1. CASE docs' = docs
        BY <1>1, <2>2, <3>1 DEF RecordedTextExists
      <3>2. CASE docs' = Append(docs, u)
        <4> SUFFICES ASSUME NEW i \in DOMAIN docs' PROVE docs'[i] \in local' \cup remote'
          BY DEF RecordedTextExists
        <4>1. docs'[i] = u \/ (i \in DOMAIN docs /\ docs'[i] = docs[i])
          BY <1>1, <3>2
        <4> QED BY <1>1, <2>2, <4>1 DEF RecordedTextExists
      <3> QED BY <2>1, <3>1, <3>2
    <2>5. \A w \in Uploads : dstep'[w] = IF w = u THEN "stored" ELSE dstep[w]
      BY <1>1, <2>1
    <2>6. dstep' \in [Uploads -> Steps]
      BY <1>1, <2>1
    <2> QED BY <2>1, <2>2, <2>3, <2>4, <2>5, <2>6 DEF TextsInv
  <1>5. CASE ReadSummary(u) \/ SaveSummary(u)
    <2>1. PICK s \in {"save", "done"} :
             dstep' = [dstep EXCEPT ![u] = s] /\ UNCHANGED <<local, remote, docs>>
      BY <1>5 DEF ReadSummary, SaveSummary, Reach
    <2>2. \A w \in Uploads : dstep'[w] = IF w = u THEN s ELSE dstep[w]
      BY <1>1, <2>1
    <2>3. dstep' \in [Uploads -> Steps]
      BY <1>1, <2>1
    <2> QED BY <1>1, <2>1, <2>2, <2>3 DEF TextsInv, RecordedTextExists
  <1> QED BY <1>2, <1>3, <1>4, <1>5

LEMMA ExtractionKeeps ==
  ASSUME SecondsInv, NEW u \in Uploads,
         Extract(u) \/ Transfer(u) \/ Record(u) \/ ReadSummary(u) \/ SaveSummary(u)
  PROVE  SecondsInv'
  <1>1. /\ TextsInv'
        /\ dstep \in [Uploads -> {"new", "uploaded", "written", "sent", "unsent", "stored",
                                  "save", "done"}]
    BY ExtractionTexts DEF SecondsInv, TextsInv
  <1>2. dstep[u] # "new" /\ UNCHANGED <<fileVars, todo, context>>
    BY DEF Extract, Transfer, Record, ReadSummary, SaveSummary, askVars
  <1>3. \E s \in {"written", "sent", "unsent", "stored", "save", "done"} :
           dstep' = [dstep EXCEPT ![u] = s]
    BY DEF Extract, Transfer, Record, ReadSummary, SaveSummary, Reach
  <1>4. dstep'[u] # "new" /\ \A w \in Uploads : w # u => dstep'[w] = dstep[w]
    BY <1>1, <1>3
  <1>5. local \cup remote \subseteq DOMAIN body
    BY DEF SecondsInv
  <1>6. CASE Extract(u)
    <2>1. \/ body' = With(body, u, disk[stamp[u]]) /\ local' = local \cup {u} /\ remote' = remote
          \/ UNCHANGED <<body, local, remote>>
      BY <1>6 DEF Extract
    <2> QED BY <1>1, <1>2, <1>4, <1>5, <2>1, ExtractingKeeps
  <1>7. CASE Transfer(u)
    <2>1. u \in local
      BY <1>7 DEF SecondsInv, TextsInv, Transfer
    <2>2. body' = body /\ local' \cup remote' \subseteq DOMAIN body
      BY <1>5, <1>7, <2>1 DEF Transfer
    <2> QED BY <1>1, <1>2, <1>4, <2>2, ExtractingKeeps
  <1>8. CASE Record(u) \/ ReadSummary(u) \/ SaveSummary(u)
    <2>1. body' = body /\ local' \cup remote' \subseteq DOMAIN body
      BY <1>5, <1>8 DEF Record, KeptAfter, ReadSummary, SaveSummary
    <2> QED BY <1>1, <1>2, <1>4, <2>1, ExtractingKeeps
  <1> QED BY <1>6, <1>7, <1>8

\* The steps of a question: it loads texts of records of its own conversation.
LEMMA SourcesOurs == docs \in Seq(Uploads) => Sources \subseteq Ours
  <1> SUFFICES ASSUME docs \in Seq(Uploads), NEW u \in Sources PROVE u \in Ours
    OBVIOUS
  <1>1. u \in Records
    BY DEF Sources
  <1> QED BY <1>1 DEF Records, IsOurs

LEMMA QuestionKeeps ==
  ASSUME SecondsInv, NEW q \in Questions, QuestionNext(q)
  PROVE  SecondsInv'
  <1>1. /\ todo \in [Questions -> SUBSET Ours] /\ context \in [Questions -> SUBSET Uploads]
        /\ docs \in Seq(Uploads)
    BY DEF SecondsInv, TextsInv
  <1>2. CASE FindRecords(q)
    <2>1. UNCHANGED <<fileVars, extractVars, context>>
      BY <1>2 DEF FindRecords
    <2>2. todo' = [todo EXCEPT ![q] = Sources] \/ todo' = todo
      BY <1>2 DEF FindRecords
    <2>3. todo' \in [Questions -> SUBSET Ours]
      BY <1>1, <2>2, SourcesOurs
    <2> QED
      BY <2>1, <2>3 DEF SecondsInv, TextsInv, RecordedTextExists, Arrived, SameSecond,
                        fileVars, extractVars
  <1>3. ASSUME NEW u \in Uploads, LoadText(q, u) PROVE SecondsInv'
    <2>1. UNCHANGED <<fileVars, extractVars>>
      BY <1>3 DEF LoadText
    <2>2. u \in Ours /\ todo' = [todo EXCEPT ![q] = @ \ {u}]
      BY <1>1, <1>3 DEF LoadText
    <2>3. todo' \in [Questions -> SUBSET Ours]
      BY <1>1, <2>2
    <2>4. \/ context' = context
          \/ u \in local \cup remote /\ context' = [context EXCEPT ![q] = @ \cup {body[u]}]
      BY <1>3 DEF LoadText
    <2>5. u \in local \cup remote => SameSecond(u, body[u]) /\ body[u] \in Uploads
      BY DEF SecondsInv, SameSecond, Arrived
    <2>6. /\ context' \in [Questions -> SUBSET Uploads]
          /\ \A p \in Questions : \A t \in context'[p] : \E w \in Ours : SameSecond(w, t)
      <3>1. CASE context' = context
        BY <1>1, <3>1 DEF SecondsInv
      <3>2. CASE /\ context' = [context EXCEPT ![q] = @ \cup {body[u]}]
                 /\ SameSecond(u, body[u]) /\ body[u] \in Uploads
        <4>1. \A p \in Questions : \A t \in context'[p] : t \in context[p] \/ t = body[u]
          BY <1>1, <3>2
        <4>2. context' \in [Questions -> SUBSET Uploads]
          BY <1>1, <3>2
        <4> QED BY <2>2, <3>2, <4>1, <4>2 DEF SecondsInv
      <3> QED BY <2>4, <2>5, <3>1, <3>2
    <2> QED
      BY <2>1, <2>3, <2>6 DEF SecondsInv, TextsInv, RecordedTextExists, Arrived, SameSecond,
                              fileVars, extractVars
  <1>4. CASE AnswerQuestion(q) \/ StoreQuestion(q)
    BY <1>4, OthersKeep DEF AnswerQuestion, StoreQuestion, askVars
  <1> QED BY <1>2, <1>3, <1>4 DEF QuestionNext

LEMMA DocumentsStep ==
  ASSUME SecondsInv, [DocumentsNext]_documentVars
  PROVE  SecondsInv'
  <1>1. CASE OtherCalls
    BY <1>1, OthersKeep DEF OtherCalls, askVars
  <1>2. CASE UNCHANGED documentVars
    BY <1>2, OthersKeep DEF documentVars, askVars
  <1> QED
    BY <1>1, <1>2, UploadKeeps, ExtractionKeeps, QuestionKeeps DEF DocumentsNext, ExtractNext

\* The path that was recorded for a document names a text on this host or on the
\* other, for any number of uploads and whatever fails.
THEOREM RecordedIsThere == DocumentsSpec => []RecordedTextExists
  <1>1. SecondsInv => RecordedTextExists
    BY DEF SecondsInv, TextsInv
  <1> QED BY <1>1, DocumentsInitInv, DocumentsStep, PTL DEF DocumentsSpec

\* A question is answered from documents of its own conversation, but for files
\* that came under the same name in the same second.
THEOREM OwnDocuments == DocumentsSpec => []AnswersFromOwn
  <1>1. SecondsInv => AnswersFromOwn
    BY DEF SecondsInv, AnswersFromOwn, SameSecond
  <1> QED BY <1>1, DocumentsInitInv, DocumentsStep, PTL DEF DocumentsSpec

-------------------------------------------------------------------------------
(* The rows of an uploaded file (WelfareParser).                           *)

\* Induction, over the members of a set.
LEMMA Upwards ==
  ASSUME NEW n \in Nat, NEW P, 0 \in P, \A i \in 1 .. n : i - 1 \in P => i \in P
  PROVE  \A i \in 0 .. n : i \in P
<1> SUFFICES ASSUME NEW m \in 0 .. n, m \notin P PROVE FALSE
  OBVIOUS
<1> DEFINE T == {j \in 0 .. n : j \notin P}
<1>1. T \subseteq Nat /\ T # {}
  OBVIOUS
<1> HIDE DEF T
<1>2. PICK x \in T : \A y \in T : <<y, x>> \notin OpToRel(<, Nat)
  BY <1>1, NatLessThanWellFounded, WFMin
<1>3. x \in 1 .. n /\ x \notin P
  BY DEF T
<1>4. x - 1 \in T
  BY <1>3 DEF T
<1>5. ~ (x - 1 < x)
  BY <1>1, <1>2, <1>4 DEF OpToRel
<1> QED
  BY <1>3, <1>5

StepsBy(f, n, T, start, move) ==
    /\ f \in [0 .. n -> T] /\ f[0] = start
    /\ \A i \in 1 .. n : f[i] = move[<<i, f[i - 1]>>]

\* What a loop makes of its elements exists, if every move makes something of it.
LEMMA StepsExist ==
  ASSUME NEW n \in Nat, NEW T, NEW start \in T, NEW move \in [(1 .. n) \X T -> T]
  PROVE  \E f : StepsBy(f, n, T, start, move)
<1> DEFINE Done(m, f) == f \in [0 .. m -> T] /\ f[0] = start
                         /\ \A i \in 1 .. m : f[i] = move[<<i, f[i - 1]>>]
           P == {m \in 0 .. n : \E f : Done(m, f)}
<1>1. 0 \in P
  <2>1. Done(0, [i \in 0 .. 0 |-> start])
    OBVIOUS
  <2> HIDE DEF Done
  <2> QED
    BY <2>1
<1>2. ASSUME NEW m \in 1 .. n, m - 1 \in P PROVE m \in P
  <2>1. PICK f : Done(m - 1, f)
    BY <1>2
  <2> DEFINE h == [i \in 0 .. m |-> IF i = m THEN move[<<m, f[m - 1]>>] ELSE f[i]]
  <2>2. f[m - 1] \in T
    BY <2>1
  <2>3. move[<<m, f[m - 1]>>] \in T
    BY <2>2
  <2>4. h \in [0 .. m -> T] /\ h[0] = start
    BY <2>1, <2>3
  <2>5. ASSUME NEW i \in 1 .. m PROVE h[i] = move[<<i, h[i - 1]>>]
    <3>1. CASE i = m
      <4>1. h[i] = move[<<m, f[m - 1]>>] /\ m - 1 \in 0 .. m /\ m - 1 # m
        BY <3>1
      <4>2. h[i - 1] = f[m - 1]
        BY <3>1, <4>1
      <4> QED
        BY <3>1, <4>1, <4>2
    <3>2. CASE i # m
      BY <2>1, <3>2
    <3> QED
      BY <3>1, <3>2
  <2>6. Done(m, h)
    BY <2>4, <2>5
  <2> HIDE DEF Done, h
  <2> QED
    BY <2>6
<1> HIDE DEF P
<1>3. n \in P
  BY <1>1, <1>2, Upwards
<1> QED
  BY <1>3 DEF P, StepsBy
\* The periods of a text.

FoundDate ==
    [year : Nat, month : 1 .. 12, day : 0 .. 31,
     middle : BOOLEAN, upto : BOOLEAN, nextYear : BOOLEAN]

DatesSoFar == [year : Nat, found : Seq(FoundDate)]

\* A period that does not end before it starts.
Period == {p \in Nat \X Nat : p[2] # Unknown => p[1] <= p[2]}

LEMMA RegroupedIs ==
  ASSUME NEW d \in Date
  PROVE  Regrouped(d) \in Date
BY DEF Regrouped, Date

LEMMA YearAfterIs ==
  ASSUME NEW d \in Date, NEW year \in Nat
  PROVE  YearAfter(year, d) \in Nat
<1> DEFINE y == Regrouped(d).year
<1>1. y \in Nat
  BY RegroupedIs DEF Date
<1> HIDE DEF y
<1> QED
  BY <1>1 DEF YearAfter, y

LEMMA ReadDateIs ==
  ASSUME NEW done \in DatesSoFar, NEW d \in Date
  PROVE  ReadDate(done, d) \in DatesSoFar
<1> DEFINE y == YearAfter(done.year, d)  r == Regrouped(d)
<1>1. done.year \in Nat /\ done.found \in Seq(FoundDate)
  BY DEF DatesSoFar
<1>2. y \in Nat
  BY <1>1, YearAfterIs
<1>3. r \in Date
  BY RegroupedIs
<1> HIDE DEF y, r
<1>4. ASSUME IsDate(r) PROVE Append(done.found, [r EXCEPT !.year = y]) \in Seq(FoundDate)
  <2>1. [r EXCEPT !.year = y] \in FoundDate
    BY <1>2, <1>3, <1>4 DEF IsDate, Date, FoundDate
  <2> QED
    BY <1>1, <2>1, AppendProperties
<1>5. Skip(done.found, d) \in Seq(FoundDate)
  <2>1. CASE done.found = << >>
    BY <1>1, <2>1 DEF Skip
  <2>2. CASE done.found # << >>
    <3> DEFINE s == done.found  n == Len(s)
               e == [s[n] EXCEPT !.upto = @ \/ d.upto, !.nextYear = @ \/ d.nextYear]
    <3>1. n \in 1 .. Len(s) /\ s[n] \in FoundDate
      BY <1>1, <2>2, EmptySeq, LenProperties, ElementOfSeq
    <3>2. d.upto \in BOOLEAN /\ d.nextYear \in BOOLEAN
      BY DEF Date
    <3>3. e \in FoundDate
      BY <3>1, <3>2 DEF FoundDate
    <3>4. [s EXCEPT ![n].upto = @ \/ d.upto, ![n].nextYear = @ \/ d.nextYear] = [s EXCEPT ![n] = e]
      BY <1>1, <3>1 DEF FoundDate
    <3>5. [s EXCEPT ![n] = e] \in Seq(FoundDate)
      <4> HIDE DEF e, n, s
      <4>1. s \in Seq(FoundDate)
        BY <1>1 DEF s
      <4> QED
        BY <3>1, <3>3, <4>1, ExceptSeq
    <3> QED
      BY <2>2, <3>4, <3>5 DEF Skip
  <2> QED
    BY <2>1, <2>2
<1>6. ReadDate(done, d) =
        [year  |-> y, found |-> IF IsDate(r) THEN Append(done.found, [r EXCEPT !.year = y])
                                ELSE Skip(done.found, d)]
  BY DEF ReadDate, y, r
<1> QED
  BY <1>2, <1>4, <1>5, <1>6 DEF DatesSoFar

LEMMA ReadDatesIs ==
  ASSUME NEW names \in Seq(Date), NEW year \in Nat
  PROVE  ReadDates(names, year) \in Seq(FoundDate)
<1> DEFINE T == DatesSoFar  n == Len(names)  start == [year |-> year, found |-> << >>]
           move == [x \in (1 .. n) \X T |-> ReadDate(x[2], names[x[1]])]
           Body(r) == [i \in 0 .. n |-> IF i = 0 THEN start ELSE ReadDate(r[i - 1], names[i])]
           after == CHOOSE r : r = Body(r)
<1>1. n \in Nat /\ start \in T
  BY LenProperties, EmptySeq DEF DatesSoFar
<1>2. \A i \in 1 .. n : names[i] \in Date
  BY ElementOfSeq
<1>3. move \in [(1 .. n) \X T -> T]
  BY <1>2, ReadDateIs
<1>4. ReadDates(names, year) = after[n].found
  BY DEF ReadDates, Stepwise
<1> HIDE DEF T, n, start, move
<1>5. PICK f : StepsBy(f, n, T, start, move)
  BY <1>1, <1>3, StepsExist
<1>6. f = Body(f)
  <2>1. f = [i \in 0 .. n |-> f[i]] /\ f[0] = start
    BY <1>5 DEF StepsBy
  <2>2. ASSUME NEW i \in 1 .. n PROVE f[i] = ReadDate(f[i - 1], names[i])
    <3>1. i - 1 \in 0 .. n
      BY <1>1
    <3>2. f[i] = move[<<i, f[i - 1]>>] /\ f[i - 1] \in T
      BY <1>5, <3>1 DEF StepsBy
    <3> QED
      BY <3>2 DEF move
  <2>3. \A i \in 0 .. n : i # 0 => i \in 1 .. n
    BY <1>1
  <2>4. \A i \in 0 .. n : f[i] = IF i = 0 THEN start ELSE ReadDate(f[i - 1], names[i])
    BY <2>1, <2>2, <2>3
  <2> QED
    BY <2>1, <2>4
<1>7. after = Body(after)
  <2> HIDE DEF Body
  <2> QED
    BY <1>6
<1> HIDE DEF after
<1> DEFINE P == {i \in 0 .. n : after[i] \in T}
<1>8. 0 \in P
  BY <1>1, <1>7
<1>9. ASSUME NEW i \in 1 .. n, i - 1 \in P PROVE i \in P
  <2>1. after[i] = ReadDate(after[i - 1], names[i]) /\ after[i - 1] \in T
    BY <1>1, <1>7, <1>9
  <2>2. after[i] \in T
    BY <1>2, <2>1, ReadDateIs DEF T
  <2> QED
    BY <1>1, <2>2
<1> HIDE DEF P
<1>10. n \in P
  <2>1. \A i \in 0 .. n : i \in P
    BY <1>1, <1>8, <1>9, Upwards
  <2> QED
    BY <1>1, <2>1
<1> QED
  BY <1>4, <1>10 DEF P, T, DatesSoFar

\* The days from the first of a month on.
LEMMA DaysOf ==
  ASSUME NEW d \in FoundDate, NEW year \in Nat
  PROVE  /\ StartOf(d) \in Nat /\ EndOf(d, year) \in Nat
         /\ StartOf(d) <= EndOf(d, d.year)
<1>1. /\ d.year \in Nat /\ d.month \in Nat /\ d.day \in Nat
  BY DEF FoundDate
<1>2. \A y \in Nat : LastDay(y, d.month) \in Nat /\ LastDay(y, d.month) >= 1
  BY <1>1 DEF LastDay
<1>3. StartOf(d) \in Nat
  BY <1>1 DEF StartOf, Number
<1>4. EndOf(d, year) \in Nat
  BY <1>1, <1>2 DEF EndOf, Number
<1>5. StartOf(d) <= EndOf(d, d.year)
  <2> DEFINE l == LastDay(d.year, d.month)
  <2>1. l \in Nat /\ l >= 1
    BY <1>1, <1>2
  <2> HIDE DEF l
  <2>2. EndOf(d, d.year) = Number(d.year, d.month, IF d.day = 0 THEN l ELSE d.day)
    BY DEF EndOf, l
  <2> QED
    BY <1>1, <2>1, <2>2 DEF StartOf, Number
<1> QED
  BY <1>3, <1>4, <1>5

LEMMA MendedIs ==
  ASSUME NEW d1 \in FoundDate, NEW d2 \in FoundDate
  PROVE  Mended(d1, d2) \in Nat
<1>1. /\ d1.year \in Nat /\ d2.year \in Nat /\ d2.month \in Nat /\ d2.day \in Nat
      /\ d1.year + 1 \in Nat
  BY DEF FoundDate
<1>2. EndOf(d2, d1.year + 1) \in Nat /\ EndOf(d2, d2.year) \in Nat
  BY <1>1, DaysOf
<1>3. Number(d2.year, d2.month, d2.day * 10) \in Nat
  BY <1>1 DEF Number
<1> QED
  BY <1>2, <1>3 DEF Mended

LEMMA PeriodsAre ==
  ASSUME NEW d1 \in FoundDate
  PROVE  /\ <<StartOf(d1), Unknown>> \in Period
         /\ <<StartOf(d1), EndOf(d1, d1.year)>> \in Period
         /\ \A d2 \in FoundDate : <<StartOf(d1), EndAfter(d1, d2)>> \in Period
<1>1. d1.year \in Nat
  BY DEF FoundDate
<1>2. StartOf(d1) \in Nat /\ EndOf(d1, d1.year) \in Nat /\ StartOf(d1) <= EndOf(d1, d1.year)
  BY <1>1, DaysOf
<1>3. ASSUME NEW d2 \in FoundDate PROVE <<StartOf(d1), EndAfter(d1, d2)>> \in Period
  <2> DEFINE a == StartOf(d1)  e == EndOf(d2, d2.year)  m == Mended(d1, d2)
             end == IF e >= a THEN e ELSE m
  <2>1. a \in Nat /\ e \in Nat /\ m \in Nat
    <3>1. d2.year \in Nat
      BY DEF FoundDate
    <3> QED
      BY <1>2, <3>1, DaysOf, MendedIs
  <2>2. EndAfter(d1, d2) = IF end < a THEN Unknown ELSE end
    BY DEF EndAfter
  <2> HIDE DEF a, e, m
  <2>3. end \in Nat
    BY <2>1
  <2> HIDE DEF end
  <2>4. <<a, IF end < a THEN Unknown ELSE end>> \in Period
    BY <2>1, <2>3 DEF Period, Unknown
  <2> QED
    BY <2>2, <2>4 DEF a
<1> QED
  BY <1>2, <1>3 DEF Period, Unknown

PeriodsSoFar(n) ==
    {done \in [next : 1 .. n + 2, pairs : Seq(Period)] : done.next > 1 => done.pairs # << >>}

LEMMA NextPeriodIs ==
  ASSUME NEW found \in Seq(FoundDate), NEW done \in PeriodsSoFar(Len(found))
  PROVE  /\ NextPeriod(found, done) \in PeriodsSoFar(Len(found))
         /\ found # << >> => NextPeriod(found, done).pairs # << >>
<1> DEFINE n == Len(found)  i == done.next  ps == done.pairs
<1>1. /\ n \in Nat /\ i \in 1 .. n + 2 /\ ps \in Seq(Period) /\ (i > 1 => ps # << >>)
      /\ (found # << >> => n > 0)
  BY LenProperties, EmptySeq DEF PeriodsSoFar
<1>2. CASE i > n
  <2>1. NextPeriod(found, done) = done
    BY <1>2 DEF NextPeriod
  <2> QED
    BY <1>1, <1>2, <2>1
<1>3. CASE i <= n
  <2> DEFINE next == NextPeriod(found, done)
             Found(p, k) == next = [next |-> i + k, pairs |-> Append(ps, p)]
  <2>1. PICK p \in Period, k \in 1 .. 2 : Found(p, k)
    <3>1. found[i] \in FoundDate
      BY <1>1, <1>3, ElementOfSeq
    <3>2. CASE Joined(found, i)
      <4>1. i + 1 \in 1 .. n
        BY <1>1, <3>2 DEF Joined
      <4>2. found[i + 1] \in FoundDate
        BY <4>1, ElementOfSeq
      <4>3. <<StartOf(found[i]), EndAfter(found[i], found[i + 1])>> \in Period
        BY <3>1, <4>2, PeriodsAre
      <4>4. Found(<<StartOf(found[i]), EndAfter(found[i], found[i + 1])>>, 2)
        BY <1>1, <1>3, <3>2 DEF NextPeriod
      <4> HIDE DEF Found, i, ps
      <4> QED
        BY <4>3, <4>4
    <3>3. CASE ~ Joined(found, i)
      <4> DEFINE one == IF found[i].day = 0 /\ ~found[i].middle
                        THEN EndOf(found[i], found[i].year) ELSE Unknown
      <4>1. <<StartOf(found[i]), one>> \in Period
        BY <3>1, PeriodsAre
      <4>2. Found(<<StartOf(found[i]), one>>, 1)
        BY <1>1, <1>3, <3>3 DEF NextPeriod
      <4> HIDE DEF Found, i, ps, one
      <4> QED
        BY <4>1, <4>2
    <3> QED
      BY <3>2, <3>3
  <2> HIDE DEF next, i, ps, n
  <2>2. Append(ps, p) \in Seq(Period) /\ Append(ps, p) # << >>
    <3>1. Len(Append(ps, p)) = Len(ps) + 1 /\ Len(ps) \in Nat
      BY <1>1, AppendProperties, LenProperties
    <3> QED
      BY <1>1, <3>1, AppendProperties, EmptySeq
  <2>3. i + k \in 1 .. n + 2
    BY <1>1, <1>3
  <2>4. next \in PeriodsSoFar(n) /\ next.pairs # << >>
    BY <2>1, <2>2, <2>3 DEF PeriodsSoFar
  <2> QED
    BY <2>4 DEF next, n
<1> QED
  BY <1>1, <1>2, <1>3

LEMMA PairsAre ==
  ASSUME NEW found \in Seq(FoundDate)
  PROVE  Pairs(found) \in Seq(Period) /\ (found # << >> => Pairs(found) # << >>)
<1> DEFINE n == Len(found)  T == PeriodsSoFar(n)  start == [next |-> 1, pairs |-> << >>]
           move == [x \in (1 .. n) \X T |-> NextPeriod(found, x[2])]
           Body(r) == [i \in 0 .. n |-> IF i = 0 THEN start ELSE NextPeriod(found, r[i - 1])]
           after == CHOOSE r : r = Body(r)
<1>1. n \in Nat /\ start \in T
  BY LenProperties, EmptySeq DEF PeriodsSoFar
<1>2. \A done \in T : NextPeriod(found, done) \in T
  BY NextPeriodIs
<1>3. move \in [(1 .. n) \X T -> T]
  BY <1>2
<1>4. Pairs(found) = after[n].pairs
  BY DEF Pairs, Stepwise
<1>5. \A done \in T : found # << >> => NextPeriod(found, done).pairs # << >>
  BY NextPeriodIs
<1>6. found # << >> => n > 0
  BY LenProperties, EmptySeq
<1>7. \A done \in T : done.pairs \in Seq(Period)
  BY DEF PeriodsSoFar
<1> HIDE DEF T, n, start, move
<1>8. PICK f : StepsBy(f, n, T, start, move)
  BY <1>1, <1>3, StepsExist
<1>9. f = Body(f)
  <2>1. f = [i \in 0 .. n |-> f[i]] /\ f[0] = start
    BY <1>8 DEF StepsBy
  <2>2. ASSUME NEW i \in 1 .. n PROVE f[i] = NextPeriod(found, f[i - 1])
    <3>1. i - 1 \in 0 .. n
      BY <1>1
    <3>2. f[i] = move[<<i, f[i - 1]>>] /\ f[i - 1] \in T
      BY <1>8, <3>1 DEF StepsBy
    <3> QED
      BY <3>2 DEF move
  <2>3. \A i \in 0 .. n : i # 0 => i \in 1 .. n
    BY <1>1
  <2>4. \A i \in 0 .. n : f[i] = IF i = 0 THEN start ELSE NextPeriod(found, f[i - 1])
    BY <2>1, <2>2, <2>3
  <2> QED
    BY <2>1, <2>4
<1>10. after = Body(after)
  <2> HIDE DEF Body
  <2> QED
    BY <1>9
<1> HIDE DEF after
<1> DEFINE P == {i \in 0 .. n : after[i] \in T}
<1>11. 0 \in P
  BY <1>1, <1>10
<1>12. ASSUME NEW i \in 1 .. n, i - 1 \in P PROVE i \in P
  <2>1. after[i] = NextPeriod(found, after[i - 1]) /\ after[i - 1] \in T
    BY <1>1, <1>10, <1>12
  <2>2. after[i] \in T
    BY <1>2, <2>1
  <2> QED
    BY <1>1, <2>2
<1> HIDE DEF P
<1>13. \A i \in 0 .. n : i \in P
  BY <1>1, <1>11, <1>12, Upwards
<1>14. after[n] \in T
  BY <1>1, <1>13 DEF P
<1>15. ASSUME found # << >> PROVE after[n].pairs # << >>
  <2>1. n \in 1 .. n /\ n - 1 \in 0 .. n
    BY <1>1, <1>6, <1>15
  <2>2. after[n] = NextPeriod(found, after[n - 1])
    BY <1>1, <1>10, <2>1
  <2>3. after[n - 1] \in T
    BY <1>13, <2>1 DEF P
  <2> QED
    BY <1>5, <1>15, <2>2, <2>3
<1> QED
  BY <1>4, <1>7, <1>14, <1>15

Unlike(s) == \A i, j \in DOMAIN s : i # j => s[i] # s[j]

LEMMA UnlikeAppended ==
  ASSUME NEW S, NEW s \in Seq(S), Unlike(s), NEW x \in S, \A i \in DOMAIN s : s[i] # x
  PROVE  Append(s, x) \in Seq(S) /\ Unlike(Append(s, x)) /\ Append(s, x) # << >>
<1>1. /\ Len(s) \in Nat /\ DOMAIN s = 1 .. Len(s)
      /\ Append(s, x) \in Seq(S) /\ Len(Append(s, x)) = Len(s) + 1
      /\ DOMAIN Append(s, x) = 1 .. Len(s) + 1
      /\ \A i \in 1 .. Len(s) : Append(s, x)[i] = s[i]
      /\ Append(s, x)[Len(s) + 1] = x
  BY AppendProperties, LenProperties
<1>2. Unlike(Append(s, x))
  <2> SUFFICES ASSUME NEW i \in 1 .. Len(s) + 1, NEW j \in 1 .. Len(s) + 1, i # j
               PROVE  Append(s, x)[i] # Append(s, x)[j]
    BY <1>1 DEF Unlike
  <2>1. CASE i \in 1 .. Len(s) /\ j \in 1 .. Len(s)
    BY <1>1, <2>1 DEF Unlike
  <2>2. CASE i = Len(s) + 1 /\ j \in 1 .. Len(s)
    BY <1>1, <2>2
  <2>3. CASE i \in 1 .. Len(s) /\ j = Len(s) + 1
    BY <1>1, <2>3
  <2> QED
    BY <1>1, <2>1, <2>2, <2>3
<1>3. Append(s, x) # << >>
  BY <1>1, EmptySeq
<1> QED
  BY <1>1, <1>2, <1>3

LEMMA DistinctIs ==
  ASSUME NEW pairs \in Seq(Period)
  PROVE  /\ Distinct(pairs) \in Seq(Period) /\ Unlike(Distinct(pairs))
         /\ pairs # << >> => Distinct(pairs) # << >>
<1> DEFINE n == Len(pairs)  T == {s \in Seq(Period) : Unlike(s)}  start == << >>
           Added(done, p) == IF \E k \in DOMAIN done : done[k] = p THEN done ELSE Append(done, p)
           move == [x \in (1 .. n) \X T |-> Added(x[2], pairs[x[1]])]
           Body(r) == [i \in 0 .. n |-> IF i = 0 THEN start ELSE Added(r[i - 1], pairs[i])]
           after == CHOOSE r : r = Body(r)
<1>1. n \in Nat /\ start \in T
  BY LenProperties, EmptySeq DEF Unlike
<1>2. \A done \in T, p \in Period : Added(done, p) \in T /\ Added(done, p) # << >>
  <2> SUFFICES ASSUME NEW done \in T, NEW p \in Period
               PROVE  Added(done, p) \in T /\ Added(done, p) # << >>
    OBVIOUS
  <2>1. CASE \E k \in DOMAIN done : done[k] = p
    <3>1. Added(done, p) = done /\ done # << >>
      BY <2>1, EmptySeq
    <3> QED
      BY <3>1
  <2>2. CASE ~ \E k \in DOMAIN done : done[k] = p
    BY <2>2, UnlikeAppended
  <2> QED
    BY <2>1, <2>2
<1>3. \A i \in 1 .. n : pairs[i] \in Period
  BY ElementOfSeq
<1> HIDE DEF Added, T
<1>4. move \in [(1 .. n) \X T -> T]
  BY <1>2, <1>3
<1>5. Distinct(pairs) = after[n]
  BY DEF Distinct, Stepwise, Added
<1>6. pairs # << >> => n > 0
  BY LenProperties, EmptySeq
<1> HIDE DEF n, start, move
<1>8. PICK f : StepsBy(f, n, T, start, move)
  BY <1>1, <1>4, StepsExist
<1>9. f = Body(f)
  <2>1. f = [i \in 0 .. n |-> f[i]] /\ f[0] = start
    BY <1>8 DEF StepsBy
  <2>2. ASSUME NEW i \in 1 .. n PROVE f[i] = Added(f[i - 1], pairs[i])
    <3>1. i - 1 \in 0 .. n
      BY <1>1
    <3>2. f[i] = move[<<i, f[i - 1]>>] /\ f[i - 1] \in T
      BY <1>8, <3>1 DEF StepsBy
    <3> QED
      BY <3>2 DEF move
  <2>3. \A i \in 0 .. n : i # 0 => i \in 1 .. n
    BY <1>1
  <2>4. \A i \in 0 .. n : f[i] = IF i = 0 THEN start ELSE Added(f[i - 1], pairs[i])
    BY <2>1, <2>2, <2>3
  <2> QED
    BY <2>1, <2>4
<1>10. after = Body(after)
  <2> HIDE DEF Body
  <2> QED
    BY <1>9
<1> HIDE DEF after
<1> DEFINE P == {i \in 0 .. n : after[i] \in T /\ (i > 0 => after[i] # << >>)}
<1>11. 0 \in P
  BY <1>1, <1>10
<1>12. ASSUME NEW i \in 1 .. n, i - 1 \in P PROVE i \in P
  <2>1. after[i] = Added(after[i - 1], pairs[i]) /\ after[i - 1] \in T
    BY <1>1, <1>10, <1>12
  <2>2. after[i] \in T /\ after[i] # << >>
    BY <1>2, <1>3, <2>1
  <2> QED
    BY <1>1, <2>2
<1> HIDE DEF P
<1>13. \A i \in 0 .. n : i \in P
  BY <1>1, <1>11, <1>12, Upwards
<1>14. n \in P
  BY <1>1, <1>13
<1>15. after[n] \in T /\ (n > 0 => after[n] # << >>)
  BY <1>14 DEF P
<1> QED
  BY <1>5, <1>6, <1>15 DEF T

LEMMA LeastIs ==
  ASSUME NEW S \in SUBSET Nat, S # {}
  PROVE  Least(S) \in S /\ \A y \in S : Least(S) <= y
<1>1. PICK x \in S : \A y \in S : <<y, x>> \notin OpToRel(<, Nat)
  BY NatLessThanWellFounded, WFMin
<1>2. ASSUME NEW y \in S PROVE x <= y
  <2>1. ~ (y < x)
    BY <1>1 DEF OpToRel
  <2> QED
    BY <2>1
<1> QED
  BY <1>2 DEF Least

LEMMA GreatestIs ==
  ASSUME NEW S \in SUBSET Nat, S # {}, NEW b \in Nat, \A y \in S : y <= b
  PROVE  Greatest(S) \in S /\ \A y \in S : Greatest(S) >= y
<1> DEFINE T == {b - y : y \in S}
<1>1. T \in SUBSET Nat /\ T # {}
  <2>1. \A y \in S : b - y \in Nat
    OBVIOUS
  <2> QED
    BY <2>1
<1>2. PICK x \in T : \A y \in T : <<y, x>> \notin OpToRel(<, Nat)
  BY <1>1, NatLessThanWellFounded, WFMin
<1>3. ASSUME NEW y \in T PROVE x <= y
  <2>1. y \in Nat /\ x \in Nat
    BY <1>1
  <2> HIDE DEF T
  <2>2. ~ (y < x)
    BY <1>2, <2>1 DEF OpToRel
  <2> QED
    BY <2>1, <2>2
<1>4. PICK z \in S : x = b - z
  OBVIOUS
<1>5. \A y \in S : z >= y
  BY <1>3, <1>4
<1> QED
  BY <1>5 DEF Greatest

\* The numbers of a sequence are not without bound.
LEMMA Bounded ==
  ASSUME NEW s \in Seq(Nat)
  PROVE  \E b \in Nat : \A i \in DOMAIN s : s[i] <= b
<1> DEFINE n == Len(s)
           P == {m \in 0 .. n : \E b \in Nat : \A i \in 1 .. m : s[i] <= b}
<1>1. n \in Nat /\ DOMAIN s = 1 .. n
  BY LenProperties
<1>2. \A i \in 1 .. n : s[i] \in Nat
  BY ElementOfSeq
<1> HIDE DEF n
<1>3. 0 \in P
  BY <1>1
<1>4. ASSUME NEW m \in 1 .. n, m - 1 \in P PROVE m \in P
  <2>1. PICK b \in Nat : \A i \in 1 .. m - 1 : s[i] <= b
    BY <1>4
  <2>2. s[m] \in Nat
    BY <1>2
  <2>3. \A i \in 1 .. m : s[i] <= b + s[m]
    <3> TAKE i \in 1 .. m
    <3>1. CASE i = m
      BY <2>2, <3>1
    <3>2. CASE i # m
      <4>1. i \in 1 .. m - 1 /\ i \in 1 .. n
        BY <1>1, <3>2
      <4>2. s[i] \in Nat
        BY <1>2, <4>1
      <4> QED
        BY <2>1, <2>2, <4>1, <4>2
    <3> QED
      BY <3>1, <3>2
  <2>4. b + s[m] \in Nat
    BY <2>2
  <2> QED
    BY <1>1, <2>3, <2>4
<1> HIDE DEF P
<1>5. \A i \in 0 .. n : i \in P
  BY <1>1, <1>3, <1>4, Upwards
<1>6. n \in P
  BY <1>1, <1>5
<1> QED
  BY <1>1, <1>6 DEF P

LEMMA MergedIs ==
  ASSUME NEW pairs \in Seq(Period), Unlike(pairs), pairs # << >>
  PROVE  Merged(pairs) \in Seq(Period) /\ Unlike(Merged(pairs)) /\ Merged(pairs) # << >>
<1> DEFINE starts == {pairs[i][1] : i \in DOMAIN pairs}
           ends == {pairs[i][2] : i \in DOMAIN pairs}
           whole == <<Least(starts), Greatest(ends)>>
<1>1. /\ Len(pairs) \in Nat /\ DOMAIN pairs = 1 .. Len(pairs) /\ 1 \in DOMAIN pairs
      /\ \A i \in DOMAIN pairs : pairs[i] \in Period
  BY LenProperties, EmptySeq, ElementOfSeq
<1>2. \A i \in DOMAIN pairs :
        /\ pairs[i][1] \in Nat /\ pairs[i][2] \in Nat
        /\ pairs[i][2] # 0 => pairs[i][1] <= pairs[i][2]
  BY <1>1 DEF Period, Unknown
<1>3. Least(starts) \in starts /\ \A y \in starts : Least(starts) <= y
  <2>1. starts \in SUBSET Nat /\ starts # {}
    BY <1>1, <1>2
  <2> HIDE DEF starts
  <2> QED
    BY <2>1, LeastIs
<1>4. PICK b \in Nat : \A y \in ends : y <= b
  <2> DEFINE s == [i \in 1 .. Len(pairs) |-> pairs[i][2]]
  <2>1. s \in Seq(Nat) /\ DOMAIN s = DOMAIN pairs
    <3>1. s \in [1 .. Len(pairs) -> Nat]
      BY <1>1, <1>2
    <3> QED
      BY <1>1, <3>1, IsASeq
  <2>2. \A i \in DOMAIN pairs : s[i] = pairs[i][2]
    BY <1>1
  <2> HIDE DEF s
  <2>3. PICK b \in Nat : \A i \in DOMAIN s : s[i] <= b
    BY <2>1, Bounded
  <2> QED
    BY <2>1, <2>2, <2>3
<1>5. Greatest(ends) \in ends /\ \A y \in ends : Greatest(ends) >= y
  <2>1. ends \in SUBSET Nat /\ ends # {}
    BY <1>1, <1>2
  <2> HIDE DEF ends
  <2> QED
    BY <1>4, <2>1, GreatestIs
<1>6. whole \in Period
  <2>1. PICK i \in DOMAIN pairs : Greatest(ends) = pairs[i][2]
    BY <1>5
  <2>2. Least(starts) <= pairs[i][1]
    BY <1>3, <2>1
  <2>3. PICK k \in DOMAIN pairs : Least(starts) = pairs[k][1]
    BY <1>3
  <2> DEFINE l == Least(starts)  g == Greatest(ends)  a == pairs[i][1]
  <2>4. l \in Nat /\ g \in Nat /\ a \in Nat /\ l <= a /\ (g # 0 => a <= g)
    BY <1>2, <2>1, <2>2, <2>3
  <2> HIDE DEF l, g, a
  <2>5. <<l, g>> \in Period
    BY <2>4 DEF Period, Unknown
  <2> QED
    BY <2>5 DEF l, g
<1> HIDE DEF whole
<1>7. <<whole>> \in Seq(Period) /\ Unlike(<<whole>>) /\ <<whole>> # << >>
  BY <1>6 DEF Unlike
<1>8. Merged(pairs) = IF Len(pairs) > MaxPeriods THEN <<whole>> ELSE pairs
  BY DEF Merged, whole
<1> QED
  BY <1>7, <1>8

LEMMA PeriodsSound ==
  ASSUME NEW names \in Seq(Date), NEW year \in Nat
  PROVE  /\ Periods(names, year) \in Seq(Period) /\ Unlike(Periods(names, year))
         /\ Periods(names, year) # << >>
<1> DEFINE found == ReadDates(names, year)  none == <<Unknown, Unknown>>
<1>1. found \in Seq(FoundDate)
  BY ReadDatesIs
<1>2. Periods(names, year) = IF found = << >> THEN <<none>> ELSE Merged(Distinct(Pairs(found)))
  BY DEF Periods
<1>3. none \in Period
  BY DEF Period, Unknown
<1> HIDE DEF found, none
<1>4. <<none>> \in Seq(Period) /\ Unlike(<<none>>) /\ <<none>> # << >>
  BY <1>3 DEF Unlike
<1>5. CASE found # << >>
  <2> DEFINE all == Pairs(found)  one == Distinct(all)
  <2>1. all \in Seq(Period) /\ all # << >>
    BY <1>1, <1>5, PairsAre
  <2> HIDE DEF all
  <2>2. one \in Seq(Period) /\ Unlike(one) /\ one # << >>
    BY <2>1, DistinctIs
  <2> HIDE DEF one
  <2>3. Merged(one) \in Seq(Period) /\ Unlike(Merged(one)) /\ Merged(one) # << >>
    BY <2>2, MergedIs
  <2> QED
    BY <1>2, <1>5, <2>3 DEF one, all
<1> QED
  BY <1>2, <1>4, <1>5

LEMMA PeriodsInOrderOf ==
  ASSUME dates \in Seq(Date)
  PROVE  PeriodsInOrder
<1> DEFINE ps == Periods(dates, FileYear)  rows == RowsOfService(dates, FileYear)
<1>1. ps \in Seq(Period) /\ Unlike(ps) /\ ps # << >>
  BY PeriodsSound, ParserAssumption
<1>2. /\ Len(ps) \in Nat /\ DOMAIN ps = 1 .. Len(ps) /\ 1 \in DOMAIN ps
      /\ \A i \in DOMAIN ps : ps[i] \in Period
  BY <1>1, LenProperties, EmptySeq, ElementOfSeq
<1>3. rows = [i \in DOMAIN ps |-> [name |-> i, start |-> ps[i][1], end |-> ps[i][2]]]
  BY DEF RowsOfService
<1> HIDE DEF ps, rows
<1>4. /\ DOMAIN rows = DOMAIN ps
      /\ \A i \in DOMAIN ps : rows[i].start = ps[i][1] /\ rows[i].end = ps[i][2]
  BY <1>3
<1>5. rows # << >>
  BY <1>2, <1>4
<1>6. \A i \in DOMAIN rows : rows[i].end # Unknown => rows[i].start <= rows[i].end
  BY <1>2, <1>4 DEF Period
<1>7. ASSUME NEW i \in DOMAIN rows, NEW j \in DOMAIN rows, i # j
      PROVE  <<rows[i].start, rows[i].end>> # <<rows[j].start, rows[j].end>>
  <2>1. ps[i] # ps[j] /\ ps[i] \in Nat \X Nat /\ ps[j] \in Nat \X Nat
    BY <1>1, <1>2, <1>4, <1>7 DEF Unlike, Period
  <2>2. ps[i] = <<ps[i][1], ps[i][2]>> /\ ps[j] = <<ps[j][1], ps[j][2]>>
    BY <2>1
  <2> QED
    BY <1>4, <2>1, <2>2
<1> QED
  BY <1>5, <1>6, <1>7 DEF PeriodsInOrder, rows

-------------------------------------------------------------------------------
\* The rows of a table.

TableRow == [field : Fields \cup {NoField}, cell : Cells]

TableSoFar == [values : [Fields -> SUBSET Cells], order : Seq(Fields), last : Fields \cup {NoField}]

\* The row k belongs to a field: it is its own or continues it.
Owns(rows, field, k) ==
    \E l \in 1 .. k : /\ rows[l].field = field
                      /\ \A i \in l + 1 .. k : rows[i].field = NoField

CellsUpTo(rows, field, k) ==
    {rows[j].cell : j \in {i \in 1 .. k : /\ Owns(rows, field, i)
                                          /\ \A h \in i + 1 .. k : rows[h].field # field}}

\* A row of the one field comes before all of the other.
ComesBefore(rows, one, other, k) ==
    \E a \in 1 .. k : rows[a].field = one /\ \A b \in 1 .. a : rows[b].field # other

\* What a table says after its first k rows.
SaysUpTo(table, rows, k) ==
    /\ table \in TableSoFar
    /\ IF table.last = NoField THEN \A i \in 1 .. k : rows[i].field = NoField
       ELSE Owns(rows, table.last, k)
    /\ \A f \in Fields : table.values[f] = CellsUpTo(rows, f, k)
    /\ \A f \in Fields : (\E i \in DOMAIN table.order : table.order[i] = f)
                            <=> \E i \in 1 .. k : rows[i].field = f
    /\ \A i, j \in DOMAIN table.order :
          i < j => ComesBefore(rows, table.order[i], table.order[j], k)

LEMMA OwnsNext ==
  ASSUME NEW rows \in Seq(TableRow), NEW k \in Nat, k + 1 \in 1 .. Len(rows), NEW f \in Fields
  PROVE  Owns(rows, f, k + 1) <=>
            rows[k + 1].field = f \/ (rows[k + 1].field = NoField /\ Owns(rows, f, k))
<1>1. f # NoField
  BY DEF Fields, NoField
<1>2. ASSUME Owns(rows, f, k + 1)
      PROVE  rows[k + 1].field = f \/ (rows[k + 1].field = NoField /\ Owns(rows, f, k))
  <2>1. PICK l \in 1 .. k + 1 : rows[l].field = f /\ \A i \in l + 1 .. k + 1 : rows[i].field = NoField
    BY <1>2 DEF Owns
  <2>2. CASE l = k + 1
    BY <2>1, <2>2
  <2>3. CASE l # k + 1
    <3>1. l \in 1 .. k /\ k + 1 \in l + 1 .. k + 1
      BY <2>3
    <3>2. \A i \in l + 1 .. k : rows[i].field = NoField
      BY <2>1
    <3> QED
      BY <2>1, <3>1, <3>2 DEF Owns
  <2> QED
    BY <2>2, <2>3
<1>3. ASSUME rows[k + 1].field = f PROVE Owns(rows, f, k + 1)
  <2>1. k + 1 \in 1 .. k + 1 /\ \A i \in (k + 1) + 1 .. k + 1 : rows[i].field = NoField
    OBVIOUS
  <2> QED
    BY <1>3, <2>1 DEF Owns
<1>4. ASSUME rows[k + 1].field = NoField, Owns(rows, f, k) PROVE Owns(rows, f, k + 1)
  <2>1. PICK l \in 1 .. k : rows[l].field = f /\ \A i \in l + 1 .. k : rows[i].field = NoField
    BY <1>4 DEF Owns
  <2>2. l \in 1 .. k + 1 /\ \A i \in l + 1 .. k + 1 : i = k + 1 \/ i \in l + 1 .. k
    OBVIOUS
  <2> QED
    BY <1>4, <2>1, <2>2 DEF Owns
<1> QED
  BY <1>2, <1>3, <1>4

LEMMA OneOwner ==
  ASSUME NEW rows, NEW k \in Nat, NEW f \in Fields, NEW g \in Fields,
         Owns(rows, f, k), Owns(rows, g, k)
  PROVE  f = g
<1>1. f # NoField /\ g # NoField
  BY DEF Fields, NoField
<1>2. PICK l \in 1 .. k : rows[l].field = f /\ \A i \in l + 1 .. k : rows[i].field = NoField
  BY DEF Owns
<1>3. PICK m \in 1 .. k : rows[m].field = g /\ \A i \in m + 1 .. k : rows[i].field = NoField
  BY DEF Owns
<1>4. ~ (l < m) /\ ~ (m < l)
  <2>1. l < m => m \in l + 1 .. k
    OBVIOUS
  <2>2. m < l => l \in m + 1 .. k
    OBVIOUS
  <2> QED
    BY <1>1, <1>2, <1>3, <2>1, <2>2
<1>5. l = m
  BY <1>4
<1> QED
  BY <1>2, <1>3, <1>5

LEMMA CellsNext ==
  ASSUME NEW rows \in Seq(TableRow), NEW k \in Nat, k + 1 \in 1 .. Len(rows), NEW f \in Fields
  PROVE  CellsUpTo(rows, f, k + 1) =
            IF rows[k + 1].field = f THEN {rows[k + 1].cell}
            ELSE IF rows[k + 1].field = NoField /\ Owns(rows, f, k)
            THEN CellsUpTo(rows, f, k) \cup {rows[k + 1].cell}
            ELSE CellsUpTo(rows, f, k)
<1> DEFINE Of(m) == {i \in 1 .. m : Owns(rows, f, i) /\ \A h \in i + 1 .. m : rows[h].field # f}
<1>1. \A m \in Nat : CellsUpTo(rows, f, m) = {rows[j].cell : j \in Of(m)}
  BY DEF CellsUpTo
<1>2. Owns(rows, f, k + 1) <=>
         rows[k + 1].field = f \/ (rows[k + 1].field = NoField /\ Owns(rows, f, k))
  BY OwnsNext
<1>3. f # NoField
  BY DEF Fields, NoField
<1>4. k + 1 \in Of(k + 1) <=> Owns(rows, f, k + 1)
  OBVIOUS
<1>5. ASSUME NEW i \in 1 .. k PROVE i \in Of(k + 1) <=> rows[k + 1].field # f /\ i \in Of(k)
  <2>1. \A h : h \in i + 1 .. k + 1 <=> h \in i + 1 .. k \/ h = k + 1
    OBVIOUS
  <2> QED
    BY <2>1
<1>6. \A i : i \in Of(k) => i \in 1 .. k
  OBVIOUS
<1>7. \A i : i \in Of(k + 1) => i = k + 1 \/ i \in 1 .. k
  OBVIOUS
<1>8. k + 1 \in Nat
  OBVIOUS
<1> HIDE DEF Of
<1>9. CASE rows[k + 1].field = f
  <2>1. Of(k + 1) = {k + 1}
    BY <1>2, <1>4, <1>5, <1>7, <1>9
  <2> QED
    BY <1>1, <1>8, <1>9, <2>1
<1>10. CASE rows[k + 1].field = NoField /\ Owns(rows, f, k)
  <2>1. Of(k + 1) = Of(k) \cup {k + 1}
    BY <1>2, <1>3, <1>4, <1>5, <1>6, <1>7, <1>10
  <2>2. CellsUpTo(rows, f, k + 1) = {rows[j].cell : j \in Of(k)} \cup {rows[k + 1].cell}
    BY <1>1, <1>8, <2>1
  <2> QED
    BY <1>1, <1>3, <1>10, <2>2
<1>11. CASE rows[k + 1].field # f /\ ~ (rows[k + 1].field = NoField /\ Owns(rows, f, k))
  <2>1. Of(k + 1) = Of(k)
    BY <1>2, <1>4, <1>5, <1>6, <1>7, <1>11
  <2> QED
    BY <1>1, <1>8, <1>11, <2>1
<1> QED
  BY <1>9, <1>10, <1>11

LEMMA BeforeStays ==
  ASSUME NEW rows, NEW k \in Nat, NEW f, NEW g, ComesBefore(rows, f, g, k)
  PROVE  ComesBefore(rows, f, g, k + 1)
BY DEF ComesBefore

LEMMA AddRowIs ==
  ASSUME NEW rows \in Seq(TableRow), NEW k \in Nat, k + 1 \in 1 .. Len(rows), NEW table,
         SaysUpTo(table, rows, k)
  PROVE  SaysUpTo(AddRow(table, rows[k + 1]), rows, k + 1)
<1> DEFINE field == rows[k + 1].field  cell == rows[k + 1].cell
           next == AddRow(table, rows[k + 1])
<1>1. field \in Fields \cup {NoField} /\ cell \in Cells
  <2>1. rows[k + 1] \in TableRow
    BY ElementOfSeq
  <2> QED
    BY <2>1 DEF TableRow
<1>2. NoField \notin Fields
  BY DEF Fields, NoField
<1>3. /\ table.values \in [Fields -> SUBSET Cells] /\ table.order \in Seq(Fields)
      /\ table.last \in Fields \cup {NoField}
      /\ table = [values |-> table.values, order |-> table.order, last |-> table.last]
  BY DEF SaysUpTo, TableSoFar
<1>4. \A f \in Fields : table.values[f] = CellsUpTo(rows, f, k)
  BY DEF SaysUpTo
<1>5. \A f \in Fields : CellsUpTo(rows, f, k + 1) =
         IF field = f THEN {cell}
         ELSE IF field = NoField /\ Owns(rows, f, k) THEN CellsUpTo(rows, f, k) \cup {cell}
         ELSE CellsUpTo(rows, f, k)
  BY CellsNext
<1>6. \A i : i \in 1 .. k + 1 <=> i \in 1 .. k \/ i = k + 1
  OBVIOUS
<1>7. ASSUME NEW f \in Fields
      PROVE  (\E i \in 1 .. k + 1 : rows[i].field = f)
                <=> (\E i \in 1 .. k : rows[i].field = f) \/ field = f
  BY <1>6
<1>8. CASE field = NoField
  <2>1. next = Continued(table, cell)
    BY <1>8 DEF AddRow
  <2>2. /\ next.order = table.order /\ next.last = table.last
        /\ next.values = IF table.last = NoField THEN table.values
                         ELSE [table.values EXCEPT ![table.last] = @ \cup {cell}]
        /\ next \in TableSoFar
    <3>1. CASE table.last = NoField
      BY <1>3, <2>1, <3>1 DEF Continued, TableSoFar
    <3>2. CASE table.last # NoField /\ cell \in table.values[table.last]
      <4>1. table.values[table.last] \cup {cell} = table.values[table.last]
        BY <3>2
      <4>2. [table.values EXCEPT ![table.last] = @ \cup {cell}] = table.values
        BY <1>3, <3>2, <4>1
      <4>3. next = table
        BY <2>1, <3>2 DEF Continued
      <4> QED
        BY <1>3, <3>2, <4>2, <4>3 DEF TableSoFar
    <3>3. CASE table.last # NoField /\ cell \notin table.values[table.last]
      <4> DEFINE values == [table.values EXCEPT ![table.last] = @ \cup {cell}]
      <4>1. table.last \in Fields /\ table.values[table.last] \cup {cell} \in SUBSET Cells
        BY <1>1, <1>3, <3>3
      <4>2. values \in [Fields -> SUBSET Cells]
        BY <1>3, <4>1
      <4>3. next = [values |-> values, order |-> table.order, last |-> table.last]
        BY <1>3, <2>1, <3>3 DEF Continued
      <4> HIDE DEF values
      <4>4. next.values = values /\ next.order = table.order /\ next.last = table.last /\ next \in TableSoFar
        BY <1>3, <4>2, <4>3 DEF TableSoFar
      <4> QED
        BY <3>3, <4>4 DEF values
    <3> QED
      BY <3>1, <3>2, <3>3
  <2>3. IF next.last = NoField THEN \A i \in 1 .. k + 1 : rows[i].field = NoField
        ELSE Owns(rows, next.last, k + 1)
    <3>1. CASE table.last = NoField
      BY <1>6, <1>8, <2>2, <3>1 DEF SaysUpTo
    <3>2. CASE table.last # NoField
      <4>1. table.last \in Fields /\ Owns(rows, table.last, k)
        BY <1>3, <3>2 DEF SaysUpTo
      <4> QED
        BY <1>8, <2>2, <3>2, <4>1, OwnsNext
    <3> QED
      BY <3>1, <3>2
  <2>4. ASSUME NEW f \in Fields PROVE next.values[f] = CellsUpTo(rows, f, k + 1)
    <3>1. CellsUpTo(rows, f, k + 1) =
            IF Owns(rows, f, k) THEN table.values[f] \cup {cell} ELSE table.values[f]
      BY <1>2, <1>4, <1>5, <1>8
    <3>2. Owns(rows, f, k) <=> table.last = f
      <4>1. CASE table.last = NoField
        <5>1. \A i \in 1 .. k : rows[i].field = NoField
          BY <4>1 DEF SaysUpTo
        <5> QED
          BY <1>2, <4>1, <5>1 DEF Owns
      <4>2. CASE table.last # NoField
        <5>1. table.last \in Fields /\ Owns(rows, table.last, k)
          BY <1>3, <4>2 DEF SaysUpTo
        <5> QED
          BY <5>1, OneOwner
      <4> QED
        BY <4>1, <4>2
    <3> QED
      BY <1>2, <1>3, <2>2, <3>1, <3>2
  <2>5. ASSUME NEW f \in Fields
        PROVE  (\E i \in DOMAIN next.order : next.order[i] = f)
                  <=> \E i \in 1 .. k + 1 : rows[i].field = f
    BY <1>2, <1>7, <1>8, <2>2 DEF SaysUpTo
  <2>6. \A i, j \in DOMAIN next.order :
           i < j => ComesBefore(rows, next.order[i], next.order[j], k + 1)
    BY <2>2, BeforeStays DEF SaysUpTo
  <2> HIDE DEF next
  <2> QED
    BY <2>2, <2>3, <2>4, <2>5, <2>6 DEF SaysUpTo, next
<1>9. CASE field # NoField
  <2> DEFINE order == table.order
             known == \E i \in DOMAIN order : order[i] = field
  <2>1. next = NewField(table, field, cell) /\ field \in Fields
    BY <1>1, <1>9 DEF AddRow
  <2>2. /\ next.values = [table.values EXCEPT ![field] = {cell}] /\ next.last = field
        /\ next.order = IF known THEN order ELSE Append(order, field)
        /\ next = [values |-> next.values, order |-> next.order, last |-> next.last]
    BY <2>1 DEF NewField
  <2>3. /\ Len(order) \in Nat /\ DOMAIN order = 1 .. Len(order)
        /\ Append(order, field) \in Seq(Fields)
        /\ DOMAIN Append(order, field) = 1 .. Len(order) + 1
        /\ \A i \in 1 .. Len(order) : Append(order, field)[i] = order[i]
        /\ Append(order, field)[Len(order) + 1] = field
    BY <1>3, <2>1, AppendProperties, LenProperties
  <2>4. next \in TableSoFar
    <3>1. next.values \in [Fields -> SUBSET Cells]
      BY <1>1, <1>3, <2>1, <2>2
    <3>2. next.order \in Seq(Fields)
      BY <1>3, <2>2, <2>3
    <3> HIDE DEF next
    <3> QED
      BY <2>1, <2>2, <3>1, <3>2 DEF TableSoFar
  <2>5. next.last # NoField /\ Owns(rows, next.last, k + 1)
    BY <1>9, <2>1, <2>2, OwnsNext
  <2>6. ASSUME NEW f \in Fields PROVE next.values[f] = CellsUpTo(rows, f, k + 1)
    <3>1. CASE f = field
      BY <1>3, <1>5, <2>1, <2>2, <3>1
    <3>2. CASE f # field
      BY <1>3, <1>4, <1>5, <1>9, <2>2, <3>2
    <3> QED
      BY <3>1, <3>2
  <2>7. \A f \in Fields : (\E i \in DOMAIN order : order[i] = f) <=> \E i \in 1 .. k : rows[i].field = f
    BY DEF SaysUpTo
  <2>8. ASSUME NEW f \in Fields
        PROVE  (\E i \in DOMAIN next.order : next.order[i] = f)
                  <=> \E i \in 1 .. k + 1 : rows[i].field = f
    <3>1. CASE known
      BY <1>7, <2>2, <2>7, <3>1
    <3>2. CASE ~ known
      <4>1. next.order = Append(order, field)
        BY <2>2, <3>2
      <4>2. (\E i \in DOMAIN next.order : next.order[i] = f)
              <=> (\E i \in DOMAIN order : order[i] = f) \/ field = f
        <5> HIDE DEF next, order, field
        <5>1. \A i : i \in 1 .. Len(order) + 1 <=> i \in 1 .. Len(order) \/ i = Len(order) + 1
          BY <2>3
        <5> QED
          BY <2>3, <4>1, <5>1
      <4> QED
        BY <1>7, <2>7, <4>2
    <3> QED
      BY <3>1, <3>2
  <2>9. ASSUME NEW i \in DOMAIN next.order, NEW j \in DOMAIN next.order, i < j
        PROVE  ComesBefore(rows, next.order[i], next.order[j], k + 1)
    <3>1. \A a, b \in DOMAIN order : a < b => ComesBefore(rows, order[a], order[b], k + 1)
      BY BeforeStays DEF SaysUpTo
    <3>2. CASE known
      BY <2>2, <2>9, <3>1, <3>2
    <3>3. CASE ~ known
      <4>1. next.order = Append(order, field)
        BY <2>2, <3>3
      <4>2. CASE j \in 1 .. Len(order)
        <5>1. i \in 1 .. Len(order)
          BY <2>3, <2>9, <4>1, <4>2
        <5> QED
          BY <2>3, <2>9, <3>1, <4>1, <4>2, <5>1
      <4>3. CASE j = Len(order) + 1
        <5>1. i \in 1 .. Len(order)
          BY <2>3, <2>9, <4>1, <4>3
        <5>2. next.order[i] = order[i] /\ next.order[j] = field /\ order[i] \in Fields
          BY <1>3, <2>3, <4>1, <4>3, <5>1
        <5>3. PICK a \in 1 .. k : rows[a].field = order[i]
          BY <2>3, <2>7, <5>1, <5>2
        <5>4. \A b \in 1 .. k : rows[b].field # field
          BY <2>1, <2>7, <3>3
        <5>5. a \in 1 .. k + 1 /\ \A b \in 1 .. a : b \in 1 .. k
          OBVIOUS
        <5> HIDE DEF next, order, field
        <5> QED
          BY <5>2, <5>3, <5>4, <5>5 DEF ComesBefore
      <4> QED
        BY <2>3, <4>1, <4>2, <4>3
    <3> QED
      BY <3>2, <3>3
  <2> HIDE DEF next
  <2> QED
    BY <2>4, <2>5, <2>6, <2>8, <2>9 DEF SaysUpTo, next
<1> QED
  BY <1>8, <1>9

LEMMA AddRowTyped ==
  ASSUME NEW table \in TableSoFar, NEW r \in TableRow
  PROVE  AddRow(table, r) \in TableSoFar
<1>1. /\ table.values \in [Fields -> SUBSET Cells] /\ table.order \in Seq(Fields)
      /\ table.last \in Fields \cup {NoField}
      /\ r.field \in Fields \cup {NoField} /\ r.cell \in Cells
  BY DEF TableSoFar, TableRow
<1>2. Continued(table, r.cell) \in TableSoFar
  <2>1. CASE table.last = NoField \/ r.cell \in table.values[table.last]
    BY <2>1 DEF Continued
  <2>2. CASE ~ (table.last = NoField \/ r.cell \in table.values[table.last])
    <3> DEFINE values == [table.values EXCEPT ![table.last] = @ \cup {r.cell}]
    <3>1. values \in [Fields -> SUBSET Cells]
      BY <1>1, <2>2
    <3>2. Continued(table, r.cell) = [values |-> values, order |-> table.order, last |-> table.last]
      BY <2>2 DEF Continued, TableSoFar
    <3> HIDE DEF values
    <3> QED
      BY <1>1, <3>1, <3>2 DEF TableSoFar
  <2> QED
    BY <2>1, <2>2
<1>3. ASSUME r.field # NoField PROVE NewField(table, r.field, r.cell) \in TableSoFar
  <2> DEFINE values == [table.values EXCEPT ![r.field] = {r.cell}]
             order == IF \E i \in DOMAIN table.order : table.order[i] = r.field THEN table.order
                      ELSE Append(table.order, r.field)
  <2>1. values \in [Fields -> SUBSET Cells]
    BY <1>1, <1>3
  <2>2. order \in Seq(Fields)
    BY <1>1, <1>3, AppendProperties
  <2>3. NewField(table, r.field, r.cell) = [values |-> values, order |-> order, last |-> r.field]
    BY DEF NewField
  <2> HIDE DEF values, order
  <2> QED
    BY <1>1, <1>3, <2>1, <2>2, <2>3 DEF TableSoFar
<1> QED
  BY <1>2, <1>3 DEF AddRow

LEMMA ReadRowsAre ==
  ASSUME NEW rows \in Seq(TableRow)
  PROVE  SaysUpTo(ReadRows(rows), rows, Len(rows))
<1> DEFINE n == Len(rows)  T == TableSoFar  start == Blank
           move == [x \in (1 .. n) \X T |-> AddRow(x[2], rows[x[1]])]
           Body(r) == [i \in 0 .. n |-> IF i = 0 THEN start ELSE AddRow(r[i - 1], rows[i])]
           after == CHOOSE r : r = Body(r)
<1>1. n \in Nat /\ start \in T
  BY LenProperties, EmptySeq DEF Blank, TableSoFar
<1>2. \A i \in 1 .. n : rows[i] \in TableRow
  BY ElementOfSeq
<1>3. move \in [(1 .. n) \X T -> T]
  BY <1>2, AddRowTyped
<1>4. ReadRows(rows) = after[n]
  BY DEF ReadRows, Stepwise
<1>5. SaysUpTo(start, rows, 0)
  <2>1. /\ start.values = [f \in Fields |-> {}] /\ start.order = << >> /\ start.last = NoField
        /\ DOMAIN start.order = {}
    BY EmptySeq DEF Blank
  <2>2. \A f \in Fields : start.values[f] = CellsUpTo(rows, f, 0)
    BY <2>1 DEF CellsUpTo
  <2> HIDE DEF start
  <2> QED
    BY <1>1, <2>1, <2>2 DEF SaysUpTo
<1>6. \A i \in 1 .. n, table \in T :
         SaysUpTo(table, rows, i - 1) => SaysUpTo(AddRow(table, rows[i]), rows, i)
  <2> SUFFICES ASSUME NEW i \in 1 .. n, NEW table \in T, SaysUpTo(table, rows, i - 1)
               PROVE  SaysUpTo(AddRow(table, rows[i]), rows, i)
    OBVIOUS
  <2> DEFINE k == i - 1
  <2>1. k \in Nat /\ k + 1 = i /\ k + 1 \in 1 .. Len(rows)
    BY <1>1
  <2>2. SaysUpTo(table, rows, k)
    OBVIOUS
  <2> HIDE DEF k
  <2>3. SaysUpTo(AddRow(table, rows[k + 1]), rows, k + 1)
    BY <2>1, <2>2, AddRowIs
  <2> QED
    BY <2>1, <2>3
<1> HIDE DEF T, n, start, move
<1>7. PICK f : StepsBy(f, n, T, start, move)
  BY <1>1, <1>3, StepsExist
<1>8. \A i \in 1 .. n : i - 1 \in 0 .. n /\ f[i] = AddRow(f[i - 1], rows[i])
  <2> TAKE i \in 1 .. n
  <2>1. i - 1 \in 0 .. n
    BY <1>1
  <2>2. f[i] = move[<<i, f[i - 1]>>] /\ f[i - 1] \in T
    BY <1>7, <2>1 DEF StepsBy
  <2> QED
    BY <2>1, <2>2 DEF move
<1>9. f = Body(f)
  <2>1. f = [i \in 0 .. n |-> f[i]] /\ f[0] = start
    BY <1>7 DEF StepsBy
  <2>2. \A i \in 0 .. n : i # 0 => i \in 1 .. n
    BY <1>1
  <2>3. \A i \in 0 .. n : f[i] = IF i = 0 THEN start ELSE AddRow(f[i - 1], rows[i])
    BY <1>8, <2>1, <2>2
  <2> QED
    BY <2>1, <2>3
<1>10. after = Body(after)
  <2> HIDE DEF Body
  <2> QED
    BY <1>9
<1> HIDE DEF after
<1> DEFINE P == {i \in 0 .. n : after[i] \in T /\ SaysUpTo(after[i], rows, i)}
<1>11. 0 \in P
  <2>1. after[0] = start
    BY <1>1, <1>10
  <2> QED
    BY <1>1, <1>5, <2>1
<1>12. ASSUME NEW i \in 1 .. n, i - 1 \in P PROVE i \in P
  <2>1. /\ after[i] = AddRow(after[i - 1], rows[i]) /\ after[i - 1] \in T
        /\ SaysUpTo(after[i - 1], rows, i - 1)
    BY <1>1, <1>10, <1>12
  <2>2. AddRow(after[i - 1], rows[i]) \in T
    BY <1>2, <2>1, AddRowTyped DEF T
  <2>3. SaysUpTo(after[i], rows, i)
    BY <1>6, <2>1
  <2> QED
    BY <1>1, <2>1, <2>2, <2>3
<1> HIDE DEF P
<1>13. \A i \in 0 .. n : i \in P
  BY <1>1, <1>11, <1>12, Upwards
<1>14. n \in P
  BY <1>1, <1>13
<1> QED
  BY <1>4, <1>14 DEF P, n

LEMMA OwnerIs ==
  ASSUME NEW rows \in Seq(TableRow), NEW k \in 1 .. Len(rows), NEW f \in Fields
  PROVE  Owner(rows, k) = f <=> Owns(rows, f, k)
<1> DEFINE before == {i \in 1 .. k : rows[i].field # NoField}
<1>1. f # NoField /\ Len(rows) \in Nat
  BY LenProperties DEF Fields, NoField
<1>2. \A i \in 1 .. Len(rows) : rows[i].field \in Fields \cup {NoField}
  BY ElementOfSeq DEF TableRow
<1>3. Owner(rows, k) = IF before = {} THEN NoField ELSE rows[Greatest(before)].field
  BY DEF Owner
<1>4. CASE before = {}
  BY <1>1, <1>3, <1>4 DEF Owns
<1>5. CASE before # {}
  <2> DEFINE g == Greatest(before)
  <2>1. g \in before /\ \A y \in before : g >= y
    <3>1. before \in SUBSET Nat /\ k \in Nat /\ \A y \in before : y <= k
      OBVIOUS
    <3> HIDE DEF before
    <3> QED
      BY <1>5, <3>1, GreatestIs
  <2> HIDE DEF g
  <2>2. g \in 1 .. k /\ rows[g].field \in Fields
    BY <1>1, <1>2, <2>1
  <2>3. \A i \in g + 1 .. k : rows[i].field = NoField
    BY <2>1, <2>2
  <2>4. Owns(rows, rows[g].field, k)
    BY <2>2, <2>3 DEF Owns
  <2>5. Owner(rows, k) = rows[g].field
    BY <1>3, <1>5 DEF g
  <2> QED
    BY <2>2, <2>4, <2>5, OneOwner
<1> QED
  BY <1>4, <1>5

\* The cells of a field, without its last row.
LEMMA CellsAre ==
  ASSUME NEW rows \in Seq(TableRow), NEW f \in Fields
  PROVE  CellsOf(rows, f) = CellsUpTo(rows, f, Len(rows))
<1> DEFINE n == Len(rows)
           of == {i \in DOMAIN rows :
                    f \in FieldsOf(rows) /\ i >= LastOf(rows, f) /\ Owner(rows, i) = f}
           upTo == {i \in 1 .. n : Owns(rows, f, i) /\ \A h \in i + 1 .. n : rows[h].field # f}
<1>1. n \in Nat /\ DOMAIN rows = 1 .. n /\ f # NoField
  BY LenProperties DEF Fields, NoField
<1>2. \A i \in 1 .. n : Owner(rows, i) = f <=> Owns(rows, f, i)
  BY OwnerIs
<1>3. ASSUME NEW i \in 1 .. n, Owns(rows, f, i)
      PROVE  f \in FieldsOf(rows) /\ (i >= LastOf(rows, f) <=> \A h \in i + 1 .. n : rows[h].field # f)
  <2> DEFINE those == {j \in DOMAIN rows : rows[j].field = f}  last == LastOf(rows, f)
  <2>1. PICK l \in 1 .. i : rows[l].field = f
    BY <1>3 DEF Owns
  <2>2. l \in 1 .. n /\ l \in those
    BY <1>1, <2>1
  <2>3. f \in FieldsOf(rows)
    BY <1>1, <2>1, <2>2 DEF FieldsOf
  <2>4. last \in those /\ \A y \in those : last >= y
    <3>1. those \in SUBSET Nat /\ those # {} /\ \A y \in those : y <= n
      BY <1>1, <2>2
    <3>2. last = Greatest(those)
      BY DEF LastOf
    <3> HIDE DEF those
    <3> QED
      BY <1>1, <3>1, <3>2, GreatestIs
  <2> HIDE DEF last
  <2>5. last \in 1 .. n /\ rows[last].field = f
    BY <1>1, <2>4
  <2>6. ASSUME i >= last, NEW h \in i + 1 .. n PROVE rows[h].field # f
    BY <1>1, <2>4, <2>5, <2>6
  <2>7. ASSUME ~ (i >= last) PROVE last \in i + 1 .. n
    BY <1>1, <2>5, <2>7
  <2> QED
    BY <2>3, <2>5, <2>6, <2>7 DEF last
<1>4. of = upTo
  <2>1. \A i \in 1 .. n : i \in of <=> i \in upTo
    BY <1>1, <1>2, <1>3
  <2> QED
    BY <1>1, <2>1
<1>5. CellsOf(rows, f) = {rows[k].cell : k \in of}
  BY DEF CellsOf
<1>6. CellsUpTo(rows, f, n) = {rows[k].cell : k \in upTo}
  BY DEF CellsUpTo
<1> HIDE DEF of, upTo
<1> QED
  BY <1>4, <1>5, <1>6

LEMMA FirstIs ==
  ASSUME NEW rows \in Seq(TableRow), NEW f \in FieldsOf(rows)
  PROVE  /\ FirstOf(rows, f) \in 1 .. Len(rows) /\ rows[FirstOf(rows, f)].field = f
         /\ \A j \in 1 .. Len(rows) : rows[j].field = f => FirstOf(rows, f) <= j
<1> DEFINE those == {i \in DOMAIN rows : rows[i].field = f}
<1>1. Len(rows) \in Nat /\ DOMAIN rows = 1 .. Len(rows)
  BY LenProperties
<1>2. those \in SUBSET Nat /\ those # {}
  BY <1>1 DEF FieldsOf
<1>3. FirstOf(rows, f) = Least(those)
  BY DEF FirstOf
<1>4. Least(those) \in those /\ \A y \in those : Least(those) <= y
  <2> HIDE DEF those
  <2> QED
    BY <1>2, LeastIs
<1> QED
  BY <1>1, <1>3, <1>4

\* A table is read as a service exactly if it describes one.
LEMMA ServiceIs ==
  ASSUME NEW rows \in Seq(TableRow)
  PROVE  IsService(ReadRows(rows)) <=> DescribesService(rows)
<1> DEFINE order == ReadRows(rows).order  n == Len(rows)  m == Len(order)
<1>1. SaysUpTo(ReadRows(rows), rows, n)
  BY ReadRowsAre
<1>2. order \in Seq(Fields)
  BY <1>1 DEF SaysUpTo, TableSoFar
<1>3. /\ m \in Nat /\ DOMAIN order = 1 .. m /\ n \in Nat /\ DOMAIN rows = 1 .. n
      /\ \A i \in 1 .. m : order[i] \in Fields
      /\ (order # << >> <=> m # 0)
  BY <1>2, LenProperties, ElementOfSeq, EmptySeq
<1>4. \A f \in Fields : (\E i \in DOMAIN order : order[i] = f) <=> \E i \in 1 .. n : rows[i].field = f
  BY <1>1 DEF SaysUpTo
<1>5. \A i, j \in DOMAIN order : i < j => ComesBefore(rows, order[i], order[j], n)
  BY <1>1 DEF SaysUpTo
<1>6. NoField \notin Fields /\ "name" \in Fields /\ "dept" \in Fields
  BY DEF Fields, NoField
<1>7. FieldsOf(rows) \subseteq Fields
  <2>1. \A i \in 1 .. n : rows[i].field \in Fields \cup {NoField}
    BY ElementOfSeq DEF TableRow
  <2> QED
    BY <1>3, <2>1 DEF FieldsOf
<1>8. \A f \in Fields : f \in FieldsOf(rows) <=> \E i \in 1 .. m : order[i] = f
  BY <1>3, <1>4, <1>6 DEF FieldsOf
<1>9. IsService(ReadRows(rows)) <=> m # 0 /\ order[1] = "name" /\ order[m] = "dept"
  BY <1>3 DEF IsService
<1> HIDE DEF order, m
<1>10. ASSUME NEW i \in 1 .. m, NEW j \in 1 .. m, i < j
       PROVE  FirstOf(rows, order[i]) < FirstOf(rows, order[j])
  <2>1. ComesBefore(rows, order[i], order[j], n)
    BY <1>3, <1>5, <1>10
  <2>2. order[i] \in FieldsOf(rows) /\ order[j] \in FieldsOf(rows)
    BY <1>3, <1>8
  <2> DEFINE f == order[i]  g == order[j]  x == FirstOf(rows, f)  y == FirstOf(rows, g)
  <2>3. x \in 1 .. n /\ y \in 1 .. n /\ rows[y].field = g /\ \A h \in 1 .. n : rows[h].field = f => x <= h
    BY <2>2, FirstIs
  <2>4. PICK a \in 1 .. n : rows[a].field = f /\ \A b \in 1 .. a : rows[b].field # g
    BY <2>1 DEF ComesBefore
  <2>5. x <= a
    BY <2>3, <2>4
  <2>6. y \notin 1 .. a
    BY <2>3, <2>4
  <2> HIDE DEF x, y, f, g
  <2>7. x < y
    BY <1>3, <2>3, <2>5, <2>6
  <2> QED
    BY <2>7 DEF x, y, f, g
<1>11. \A i \in 1 .. m : FirstOf(rows, order[i]) \in Nat
  BY <1>3, <1>8, FirstIs
<1>12. ASSUME m # 0, order[1] = "name", order[m] = "dept" PROVE DescribesService(rows)
  <2>1. 1 \in 1 .. m /\ m \in 1 .. m
    BY <1>3, <1>12
  <2>2. {"name", "dept"} \subseteq FieldsOf(rows)
    BY <1>6, <1>8, <1>12, <2>1
  <2>3. ASSUME NEW f \in FieldsOf(rows)
        PROVE  /\ FirstOf(rows, "name") <= FirstOf(rows, f)
               /\ FirstOf(rows, f) <= FirstOf(rows, "dept")
    <3>1. PICK i \in 1 .. m : order[i] = f
      BY <1>7, <1>8
    <3>2. FirstOf(rows, order[1]) <= FirstOf(rows, order[i])
      <4>1. CASE i = 1
        BY <1>11, <4>1, <2>1
      <4>2. CASE i # 1
        BY <1>10, <1>11, <2>1, <4>2
      <4> QED
        BY <4>1, <4>2
    <3>3. FirstOf(rows, order[i]) <= FirstOf(rows, order[m])
      <4>1. CASE i = m
        BY <1>11, <4>1, <2>1
      <4>2. CASE i # m
        BY <1>3, <1>10, <1>11, <2>1, <4>2
      <4> QED
        BY <4>1, <4>2
    <3> QED
      BY <1>12, <3>1, <3>2, <3>3
  <2> QED
    BY <2>2, <2>3 DEF DescribesService
<1>13. ASSUME DescribesService(rows) PROVE m # 0 /\ order[1] = "name" /\ order[m] = "dept"
  <2>1. /\ "name" \in FieldsOf(rows) /\ "dept" \in FieldsOf(rows)
        /\ \A f \in FieldsOf(rows) : /\ FirstOf(rows, "name") <= FirstOf(rows, f)
                                     /\ FirstOf(rows, f) <= FirstOf(rows, "dept")
    BY <1>13 DEF DescribesService
  <2>2. PICK i \in 1 .. m : order[i] = "name"
    BY <1>6, <1>8, <2>1
  <2>3. PICK j \in 1 .. m : order[j] = "dept"
    BY <1>6, <1>8, <2>1
  <2>4. 1 \in 1 .. m /\ m \in 1 .. m /\ m # 0
    BY <1>3, <2>2
  <2>5. order[1] \in FieldsOf(rows) /\ order[m] \in FieldsOf(rows)
    BY <1>3, <1>8, <2>4
  <2>6. i = 1
    <3> SUFFICES ASSUME i # 1 PROVE FALSE
      OBVIOUS
    <3>1. FirstOf(rows, order[1]) < FirstOf(rows, order[i])
      BY <1>10, <2>4
    <3>2. FirstOf(rows, order[i]) <= FirstOf(rows, order[1])
      BY <2>1, <2>2, <2>5
    <3> QED
      BY <1>11, <2>4, <3>1, <3>2
  <2>7. j = m
    <3> SUFFICES ASSUME j # m PROVE FALSE
      OBVIOUS
    <3>1. FirstOf(rows, order[j]) < FirstOf(rows, order[m])
      BY <1>3, <1>10, <2>4
    <3>2. FirstOf(rows, order[m]) <= FirstOf(rows, order[j])
      BY <2>1, <2>3, <2>5
    <3> QED
      BY <1>11, <2>4, <3>1, <3>2
  <2> QED
    BY <2>2, <2>3, <2>4, <2>6, <2>7
<1> QED
  BY <1>9, <1>12, <1>13

\* What is kept of a service.
LEMMA ServiceKeeps ==
  ASSUME NEW rows \in Seq(TableRow), NEW number \in Nat
  PROVE  Service(ReadRows(rows), number) =
           [table |-> number, contact |-> CellsOf(rows, "contact"),
            phone |-> "phone" \in CellsOf(rows, "dept"), list |-> 0]
<1>1. "contact" \in Fields /\ "dept" \in Fields
  BY DEF Fields
<1>2. \A f \in Fields : ReadRows(rows).values[f] = CellsOf(rows, f)
  BY ReadRowsAre, CellsAre DEF SaysUpTo
<1> QED
  BY <1>1, <1>2 DEF Service

LEMMA CellsAreCells ==
  ASSUME NEW rows \in Seq(TableRow), NEW f
  PROVE  CellsOf(rows, f) \in SUBSET Cells
<1>1. ASSUME NEW i \in DOMAIN rows PROVE rows[i].cell \in Cells
  <2>1. rows[i] \in TableRow
    BY ElementOfSeq, LenProperties
  <2> QED
    BY <2>1 DEF TableRow
<1> QED
  BY <1>1 DEF CellsOf

-------------------------------------------------------------------------------
\* The services of a file.

FileTable == [section : Nat, rows : Seq(TableRow)]
FileService == [table : Nat, contact : SUBSET Cells, phone : BOOLEAN, list : Nat]

ContactOf(file, k) == CellsOf(file[k].rows, "contact")

\* The lists of numbers after a table, in its section.
ListsAfter(file, number) ==
    {k \in number + 1 .. Len(file) :
        /\ file[k].section = file[number].section
        /\ HasPhones(file[k].rows) /\ ~DescribesService(file[k].rows)}

AnnexIn(file, number) ==
    IF "annex" \in ContactOf(file, number) /\ ListsAfter(file, number) # {}
    THEN Least(ListsAfter(file, number)) ELSE 0

\* A service says what its table says.
SaysIts(file, s) ==
    /\ s.table \in DOMAIN file /\ DescribesService(file[s.table].rows)
    /\ s.list = AnnexIn(file, s.table)
    /\ s.phone = ("phone" \in CellsOf(file[s.table].rows, "dept"))
    /\ s.contact = ContactOf(file, s.table) \ (IF s.list = 0 THEN {} ELSE {"annex"})

Rising(list) == \A i, j \in DOMAIN list : i < j => list[i].table < list[j].table

\* A service waits while its section is read and no list of numbers has come.
Waits(file, current, s) ==
    file[s.table].section = current /\ "annex" \in ContactOf(file, s.table) /\ s.list = 0

ParserTyped ==
    /\ read \in Seq(FileTable) /\ section \in Nat
    /\ services \in Seq(FileService)
    /\ broken \in BOOLEAN /\ dates \in Seq(Date)

ParserInv ==
    /\ ParserTyped
    /\ \A k \in DOMAIN read : read[k].section <= section
    /\ \A i \in DOMAIN services : SaysIts(read, services[i])
    /\ Rising(services)
    /\ ~broken => \A k \in DOMAIN read : DescribesService(read[k].rows) =>
                      \E i \in DOMAIN services : services[i].table = k
    /\ ~broken => pending = {i \in DOMAIN services : Waits(read, section, services[i])}

\* The lists of numbers in a file and in the file with one table more.
LEMMA ListsAre ==
  ASSUME NEW file \in Seq(FileTable), NEW n \in 1 .. Len(file)
  PROVE  /\ ListsAfter(file, n) \in SUBSET (n + 1 .. Len(file))
         /\ AnnexIn(file, n) \in Nat /\ AnnexIn(file, n) <= Len(file)
         /\ AnnexIn(file, n) # 0 <=> "annex" \in ContactOf(file, n) /\ ListsAfter(file, n) # {}
<1>1. Len(file) \in Nat
  BY LenProperties
<1>2. ListsAfter(file, n) \in SUBSET (n + 1 .. Len(file))
  BY DEF ListsAfter
<1> DEFINE L == ListsAfter(file, n)
<1> HIDE DEF L
<1>3. L \in SUBSET Nat /\ \A y \in L : y > n /\ y <= Len(file)
  BY <1>1, <1>2 DEF L
<1>4. L # {} => Least(L) \in L
  BY <1>3, LeastIs
<1>5. AnnexIn(file, n) = IF "annex" \in ContactOf(file, n) /\ L # {} THEN Least(L) ELSE 0
  BY DEF AnnexIn, L
<1> QED
  BY <1>1, <1>2, <1>3, <1>4, <1>5 DEF L

LEMMA ListsGrow ==
  ASSUME NEW file \in Seq(FileTable), NEW t \in FileTable, NEW n \in 1 .. Len(file)
  PROVE  /\ ContactOf(Append(file, t), n) = ContactOf(file, n)
         /\ Append(file, t)[n] = file[n]
         /\ ListsAfter(Append(file, t), n) =
              ListsAfter(file, n) \cup
                {k \in {Len(file) + 1} : /\ t.section = file[n].section
                                         /\ HasPhones(t.rows) /\ ~DescribesService(t.rows)}
<1> DEFINE more == Append(file, t)  l == Len(file)
           Listed(k, s, r) == s = file[n].section /\ HasPhones(r) /\ ~DescribesService(r)
<1>1. /\ l \in Nat /\ Len(more) = l + 1 /\ more[l + 1] = t
      /\ \A i \in 1 .. l : more[i] = file[i]
  BY LenProperties, AppendProperties
<1> HIDE DEF more, l
<1>2. n \in 1 .. l /\ more[n] = file[n]
  BY <1>1 DEF l
<1>3. ContactOf(more, n) = ContactOf(file, n)
  BY <1>2 DEF ContactOf
<1>4. ListsAfter(more, n) = {k \in n + 1 .. l + 1 : Listed(k, more[k].section, more[k].rows)}
  BY <1>1, <1>2 DEF ListsAfter
<1>5. ListsAfter(file, n) = {k \in n + 1 .. l : Listed(k, file[k].section, file[k].rows)}
  BY DEF ListsAfter, l
<1> HIDE DEF Listed
<1>6. ListsAfter(more, n) =
        ListsAfter(file, n) \cup {k \in {l + 1} : Listed(k, t.section, t.rows)}
  <2>1. \A k : k \in n + 1 .. l + 1 <=> k \in n + 1 .. l \/ k = l + 1
    BY <1>1, <1>2
  <2>2. \A k \in n + 1 .. l : more[k] = file[k]
    BY <1>1, <1>2
  <2> QED
    BY <1>1, <1>4, <1>5, <2>1, <2>2
<1> QED
  BY <1>2, <1>3, <1>6 DEF more, l, Listed

LEMMA AnnexAfter ==
  ASSUME NEW file \in Seq(FileTable), NEW t \in FileTable, NEW n \in 1 .. Len(file)
  PROVE  AnnexIn(Append(file, t), n) =
           IF /\ "annex" \in ContactOf(file, n) /\ AnnexIn(file, n) = 0
              /\ t.section = file[n].section
              /\ HasPhones(t.rows) /\ ~DescribesService(t.rows)
           THEN Len(file) + 1 ELSE AnnexIn(file, n)
<1> DEFINE more == Append(file, t)  l == Len(file)  L == ListsAfter(file, n)
           new == t.section = file[n].section /\ HasPhones(t.rows) /\ ~DescribesService(t.rows)
           refers == "annex" \in ContactOf(file, n)
           M == ListsAfter(more, n)
<1>1. M = L \cup (IF new THEN {l + 1} ELSE {}) /\ ContactOf(more, n) = ContactOf(file, n)
  BY ListsGrow
<1>2. l \in Nat /\ L \in SUBSET (n + 1 .. l) /\ (AnnexIn(file, n) # 0 <=> refers /\ L # {})
  BY ListsAre, LenProperties
<1>3. AnnexIn(file, n) = IF refers /\ L # {} THEN Least(L) ELSE 0
  BY DEF AnnexIn
<1>4. AnnexIn(more, n) = IF refers /\ M # {} THEN Least(M) ELSE 0
  BY <1>1 DEF AnnexIn
<1> HIDE DEF more, l, L, new, refers, M
<1>5. CASE L = {} /\ new
  <2>1. M = {l + 1} /\ l + 1 \in Nat
    BY <1>1, <1>2, <1>5
  <2>2. Least(M) = l + 1
    <3>1. Least(M) \in M
      BY <2>1, LeastIs
    <3> QED
      BY <2>1, <3>1
  <2>3. AnnexIn(more, n) = IF refers THEN l + 1 ELSE 0
    BY <1>4, <2>1, <2>2
  <2> QED
    BY <1>2, <1>3, <1>5, <2>3 DEF more, l, new, refers
<1>6. CASE ~ new
  <2>1. M = L
    BY <1>1, <1>6
  <2> QED
    BY <1>3, <1>4, <1>6, <2>1 DEF more, l, new, refers
<1>7. CASE L # {}
  <2>1. L \in SUBSET Nat /\ M \in SUBSET Nat /\ M # {} /\ \A y \in L : y <= l
    BY <1>1, <1>2, <1>7
  <2>2. Least(L) \in L /\ \A y \in L : Least(L) <= y
    BY <1>7, <2>1, LeastIs
  <2>3. Least(M) \in M /\ \A y \in M : Least(M) <= y
    BY <2>1, LeastIs
  <2>4. Least(L) \in M /\ Least(L) \in Nat /\ Least(L) <= l
    BY <1>1, <2>1, <2>2
  <2>5. Least(M) <= Least(L) /\ Least(M) \in Nat
    BY <2>1, <2>3, <2>4
  <2>6. Least(M) \in L
    <3>1. Least(M) # l + 1
      BY <1>2, <2>4, <2>5
    <3> QED
      BY <1>1, <2>3, <3>1
  <2>7. Least(M) = Least(L)
    BY <2>2, <2>4, <2>5, <2>6
  <2>8. AnnexIn(more, n) = AnnexIn(file, n)
    BY <1>3, <1>4, <1>7, <2>1, <2>7
  <2>9. ~ (refers /\ AnnexIn(file, n) = 0)
    BY <1>2, <1>7
  <2> QED
    BY <2>8, <2>9 DEF more, l, new, refers
<1> QED
  BY <1>5, <1>6, <1>7

LEMMA NoAnnexYet ==
  ASSUME NEW file \in Seq(FileTable), NEW t \in FileTable
  PROVE  AnnexIn(Append(file, t), Len(file) + 1) = 0
<1> DEFINE more == Append(file, t)  n == Len(more)
<1>1. Len(file) \in Nat /\ n = Len(file) + 1
  BY LenProperties, AppendProperties
<1> HIDE DEF more, n
<1>2. ListsAfter(more, n) = {}
  BY <1>1 DEF ListsAfter, n
<1>3. AnnexIn(more, n) = 0
  BY <1>2 DEF AnnexIn
<1> QED
  BY <1>1, <1>3 DEF more

\* A service that gets no list from the next table, and one that does.
Lists(file, s, t) ==
    /\ "annex" \in ContactOf(file, s.table) /\ s.list = 0
    /\ t.section = file[s.table].section
    /\ HasPhones(t.rows) /\ ~DescribesService(t.rows)

LEMMA ItsStays ==
  ASSUME NEW file \in Seq(FileTable), NEW t \in FileTable, NEW s \in FileService,
         SaysIts(file, s)
  PROVE  /\ ~Lists(file, s, t) => SaysIts(Append(file, t), s)
         /\ Lists(file, s, t) => SaysIts(Append(file, t), Attached(s, Len(file) + 1))
<1> DEFINE more == Append(file, t)  n == s.table  number == Len(file) + 1
<1>1. /\ n \in 1 .. Len(file) /\ Len(file) \in Nat
      /\ DOMAIN more = 1 .. number /\ n \in DOMAIN more
  BY LenProperties, AppendProperties DEF SaysIts
<1>2. more[n] = file[n] /\ ContactOf(more, n) = ContactOf(file, n)
  BY <1>1, ListsGrow
<1>3. /\ s.list = AnnexIn(file, n) /\ DescribesService(file[n].rows)
      /\ s.phone = ("phone" \in CellsOf(file[n].rows, "dept"))
      /\ s.contact = ContactOf(file, n) \ (IF s.list = 0 THEN {} ELSE {"annex"})
  BY DEF SaysIts
<1>4. AnnexIn(more, n) = IF Lists(file, s, t) THEN number ELSE AnnexIn(file, n)
  BY <1>1, <1>3, AnnexAfter DEF Lists
<1> HIDE DEF more, number
<1>5. ASSUME ~Lists(file, s, t) PROVE SaysIts(more, s)
  BY <1>1, <1>2, <1>3, <1>4, <1>5 DEF SaysIts
<1>6. ASSUME Lists(file, s, t) PROVE SaysIts(more, Attached(s, number))
  <2> DEFINE a == Attached(s, number)
  <2>1. /\ a.table = n /\ a.phone = s.phone /\ a.list = number
        /\ a.contact = s.contact \ {"annex"}
    BY DEF Attached, CleanContact, FileService
  <2> HIDE DEF a
  <2>2. s.contact = ContactOf(file, n) /\ number # 0
    BY <1>1, <1>3, <1>6 DEF Lists, number
  <2>3. SaysIts(more, a)
    BY <1>1, <1>2, <1>3, <1>4, <1>6, <2>1, <2>2 DEF SaysIts
  <2> QED
    BY <2>3 DEF a
<1> QED
  BY <1>5, <1>6 DEF more, number

LEMMA ReadTableKeeps ==
  ASSUME ParserInv, NEW rows \in Tables, ReadTable(rows)
  PROVE  ParserInv'
<1> DEFINE t == [section |-> section, rows |-> rows]  number == Len(read) + 1
           service == Service(ReadRows(rows), number)
           more == Append(read, t)
<1>1. rows \in Seq(TableRow)
  BY ParserAssumption DEF TableRow
<1>2. /\ read \in Seq(FileTable) /\ section \in Nat /\ services \in Seq(FileService)
      /\ ~broken /\ dates \in Seq(Date)
      /\ \A k \in DOMAIN read : read[k].section <= section
      /\ \A i \in DOMAIN services : SaysIts(read, services[i])
      /\ Rising(services)
      /\ \A k \in DOMAIN read : DescribesService(read[k].rows) =>
             \E i \in DOMAIN services : services[i].table = k
      /\ pending = {i \in DOMAIN services : Waits(read, section, services[i])}
  BY DEF ParserInv, ParserTyped, ReadTable
<1>3. t \in FileTable
  BY <1>1, <1>2 DEF FileTable
<1>4. /\ Len(read) \in Nat /\ DOMAIN read = 1 .. Len(read)
      /\ more \in Seq(FileTable) /\ DOMAIN more = 1 .. number /\ Len(more) = number
      /\ \A k \in 1 .. Len(read) : more[k] = read[k]
      /\ more[number] = t
  BY <1>2, <1>3, LenProperties, AppendProperties
<1>5. read' = more /\ section' = section /\ broken' = broken /\ dates' = dates
  BY DEF ReadTable
<1>6. IsService(ReadRows(rows)) <=> DescribesService(rows)
  BY <1>1, ServiceIs
<1>7. /\ Len(services) \in Nat /\ DOMAIN services = 1 .. Len(services)
      /\ \A i \in DOMAIN services : services[i] \in FileService
  BY <1>2, LenProperties, ElementOfSeq
<1>8. \A i \in DOMAIN services :
        /\ services[i].table \in 1 .. Len(read) /\ more[services[i].table] = read[services[i].table]
        /\ ContactOf(more, services[i].table) = ContactOf(read, services[i].table)
  <2> TAKE i \in DOMAIN services
  <2>1. services[i].table \in 1 .. Len(read)
    BY <1>2, <1>4 DEF SaysIts
  <2> QED
    BY <1>2, <1>3, <2>1, ListsGrow
<1>9. t.section = section /\ t.rows = rows
  OBVIOUS
<1>10. \A i \in DOMAIN services :
         Lists(read, services[i], t) <=>
           i \in pending /\ HasPhones(rows) /\ ~DescribesService(rows)
  BY <1>2, <1>9 DEF Lists, Waits
<1>11. \A i \in DOMAIN services :
         /\ ~Lists(read, services[i], t) => SaysIts(more, services[i])
         /\ Lists(read, services[i], t) => SaysIts(more, Attached(services[i], number))
  BY <1>2, <1>3, <1>7, ItsStays
<1>12. number \in Nat /\ number \notin 1 .. Len(read) /\ \A k \in 1 .. number : k \in 1 .. Len(read) \/ k = number
  BY <1>4
<1>13. service = [table |-> number, contact |-> CellsOf(rows, "contact"),
                  phone |-> "phone" \in CellsOf(rows, "dept"), list |-> 0]
  BY <1>1, <1>12, ServiceKeeps
<1>14. AnnexIn(more, number) = 0
  BY <1>2, <1>3, NoAnnexYet
<1>15. CellsOf(rows, "contact") \in SUBSET Cells
  BY <1>1, CellsAreCells
<1>16. /\ IsService(ReadRows(rows)) =>
             /\ services' = Append(services, service)
             /\ pending' = IF "annex" \in service.contact
                           THEN pending \cup {Len(services')} ELSE pending
       /\ ~IsService(ReadRows(rows)) /\ pending # {} /\ HasPhones(rows) =>
             /\ services' = [i \in DOMAIN services |->
                               IF i \in pending THEN Attached(services[i], number) ELSE services[i]]
             /\ pending' = {}
       /\ ~IsService(ReadRows(rows)) /\ ~(pending # {} /\ HasPhones(rows)) =>
             services' = services /\ pending' = pending
  BY DEF ReadTable, StillPending, RefersToAnnex
<1> HIDE DEF t, more, number, service
<1>17. \A k \in DOMAIN more : more[k].section <= section
  BY <1>2, <1>4, <1>9, <1>12
<1>18. CASE DescribesService(rows)
  <2> DEFINE l == Len(services)  after == Append(services, service)
  <2>1. service \in FileService
    BY <1>12, <1>13, <1>15 DEF FileService
  <2>2. /\ l \in Nat /\ after \in Seq(FileService) /\ DOMAIN after = 1 .. l + 1 /\ Len(after) = l + 1
        /\ \A i \in 1 .. l : after[i] = services[i]
        /\ after[l + 1] = service
        /\ \A i \in 1 .. l + 1 : i \in 1 .. l \/ i = l + 1
    <3>1. services \in Seq(FileService) /\ l \in Nat
      BY <1>2, <1>7
    <3> HIDE DEF l
    <3>2. \A i \in 1 .. l + 1 : i \in 1 .. l \/ i = l + 1
      BY <3>1
    <3> QED
      BY <2>1, <3>1, <3>2, AppendProperties DEF l
  <2>3. services' = after
    BY <1>6, <1>16, <1>18
  <2>4. pending' = IF "annex" \in service.contact THEN pending \cup {l + 1} ELSE pending
    BY <1>6, <1>16, <1>18, <2>2, <2>3
  <2>5. /\ service.table = number /\ service.contact = CellsOf(rows, "contact")
        /\ service.phone = ("phone" \in CellsOf(rows, "dept")) /\ service.list = 0
    BY <1>13
  <2>6. ContactOf(more, number) = CellsOf(rows, "contact")
    BY <1>4, <1>9 DEF ContactOf
  <2>7. SaysIts(more, service)
    <3>1. more[service.table] = t /\ service.table \in DOMAIN more
      BY <1>4, <1>12, <2>5 DEF number
    <3>2. DescribesService(more[service.table].rows) /\ service.list = AnnexIn(more, service.table)
      BY <1>9, <1>14, <1>18, <2>5, <3>1
    <3>3. service.phone = ("phone" \in CellsOf(more[service.table].rows, "dept"))
      BY <1>9, <2>5, <3>1
    <3>4. service.contact = ContactOf(more, service.table) \ (IF service.list = 0 THEN {} ELSE {"annex"})
      BY <2>5, <2>6
    <3> QED
      BY <3>1, <3>2, <3>3, <3>4 DEF SaysIts
  <2>8. \A i \in 1 .. l : SaysIts(more, services[i])
    BY <1>7, <1>10, <1>11, <1>18
  <2> HIDE DEF after
  <2>9. \A i \in DOMAIN after : SaysIts(more, after[i])
    BY <2>2, <2>7, <2>8
  <2>10. Rising(after)
    <3> SUFFICES ASSUME NEW i \in 1 .. l + 1, NEW j \in 1 .. l + 1, i < j
                 PROVE  after[i].table < after[j].table
      BY <2>2 DEF Rising
    <3>1. i \in 1 .. l
      BY <2>2
    <3>2. CASE j \in 1 .. l
      BY <1>2, <1>7, <2>2, <3>1, <3>2 DEF Rising
    <3>3. CASE j = l + 1
      <4>1. after[i].table \in 1 .. Len(read) /\ after[j].table = number
        BY <1>7, <1>8, <2>2, <2>5, <3>1, <3>3
      <4> QED
        BY <1>4, <4>1 DEF number
    <3> QED
      BY <2>2, <3>2, <3>3
  <2>11. ASSUME NEW k \in DOMAIN more, DescribesService(more[k].rows)
         PROVE  \E i \in DOMAIN after : after[i].table = k
    <3>1. CASE k = number
      BY <2>2, <2>5, <3>1
    <3>2. CASE k # number
      <4>1. k \in DOMAIN read /\ DescribesService(read[k].rows)
        BY <1>4, <1>12, <2>11, <3>2
      <4>2. PICK i \in DOMAIN services : services[i].table = k
        BY <1>2, <4>1
      <4> QED
        BY <1>7, <2>2, <4>2
    <3> QED
      BY <3>1, <3>2
  <2>12. ASSUME NEW i \in 1 .. l
         PROVE  Waits(more, section, after[i]) <=> Waits(read, section, services[i])
    BY <1>7, <1>8, <2>2 DEF Waits
  <2>13. Waits(more, section, after[l + 1]) <=> "annex" \in service.contact
    BY <1>4, <1>9, <2>2, <2>5, <2>6 DEF Waits
  <2>14. pending' = {i \in DOMAIN after : Waits(more, section, after[i])}
    <3>1. pending = {i \in 1 .. l : Waits(more, section, after[i])}
      BY <1>2, <1>7, <2>12
    <3>2. \A i : i \in DOMAIN after <=> i \in 1 .. l \/ i = l + 1
      BY <2>2
    <3> QED
      BY <2>4, <2>13, <3>1, <3>2
  <2>15. services' \in Seq(FileService)
    BY <2>2, <2>3
  <2> QED
    BY <1>2, <1>4, <1>5, <1>17, <2>3, <2>9, <2>10, <2>11, <2>14, <2>15 DEF ParserInv, ParserTyped
<1>19. ASSUME NEW after \in Seq(FileService), DOMAIN after = DOMAIN services,
              \A i \in DOMAIN services : after[i].table = services[i].table,
              ~DescribesService(rows)
       PROVE  /\ Rising(after)
              /\ \A k \in DOMAIN more : DescribesService(more[k].rows) =>
                    \E i \in DOMAIN after : after[i].table = k
  <2>1. Rising(after)
    BY <1>2, <1>19 DEF Rising
  <2>2. ASSUME NEW k \in DOMAIN more, DescribesService(more[k].rows)
        PROVE  \E i \in DOMAIN after : after[i].table = k
    <3>1. k \in DOMAIN read /\ DescribesService(read[k].rows)
      BY <1>4, <1>9, <1>12, <1>19, <2>2
    <3>2. PICK i \in DOMAIN services : services[i].table = k
      BY <1>2, <3>1
    <3> QED
      BY <1>19, <3>2
  <2> QED
    BY <2>1, <2>2
<1>20. CASE ~DescribesService(rows) /\ pending # {} /\ HasPhones(rows)
  <2> DEFINE after == [i \in DOMAIN services |->
                         IF i \in pending THEN Attached(services[i], number) ELSE services[i]]
  <2>1. services' = after /\ pending' = {}
    BY <1>6, <1>16, <1>20
  <2>2. ASSUME NEW i \in DOMAIN services
        PROVE  /\ Attached(services[i], number) \in FileService
               /\ Attached(services[i], number).table = services[i].table
               /\ Attached(services[i], number).list = number
    BY <1>7, <1>12 DEF Attached, CleanContact, FileService
  <2>3. /\ DOMAIN after = DOMAIN services
        /\ \A i \in DOMAIN services :
              after[i] = IF i \in pending THEN Attached(services[i], number) ELSE services[i]
    OBVIOUS
  <2>4. after \in Seq(FileService)
    <3>1. after \in [1 .. Len(services) -> FileService]
      BY <1>7, <2>2
    <3> QED
      BY <1>7, <3>1, IsASeq
  <2> HIDE DEF after
  <2>5. \A i \in DOMAIN services : after[i].table = services[i].table
    BY <2>2, <2>3
  <2>6. \A i \in DOMAIN after : SaysIts(more, after[i])
    BY <1>10, <1>11, <1>20, <2>3
  <2>7. \A i \in DOMAIN after : ~Waits(more, section, after[i])
    <3> SUFFICES ASSUME NEW i \in DOMAIN services PROVE ~Waits(more, section, after[i])
      BY <2>3
    <3>1. CASE i \in pending
      <4>1. after[i].list = number /\ number # 0
        BY <1>4, <2>2, <2>3, <3>1 DEF number
      <4> QED
        BY <4>1 DEF Waits
    <3>2. CASE i \notin pending
      <4>1. ~Waits(read, section, services[i]) /\ after[i] = services[i]
        BY <1>2, <2>3, <3>2
      <4> QED
        BY <1>8, <4>1 DEF Waits
    <3> QED
      BY <3>1, <3>2
  <2>8. /\ Rising(after)
        /\ \A k \in DOMAIN more : DescribesService(more[k].rows) =>
              \E i \in DOMAIN after : after[i].table = k
    BY <1>19, <1>20, <2>3, <2>4, <2>5
  <2>9. pending' = {i \in DOMAIN after : Waits(more, section, after[i])}
    BY <2>1, <2>7
  <2> QED
    BY <1>2, <1>4, <1>5, <1>17, <2>1, <2>4, <2>6, <2>8, <2>9 DEF ParserInv, ParserTyped
<1>21. CASE ~DescribesService(rows) /\ ~(pending # {} /\ HasPhones(rows))
  <2>1. services' = services /\ pending' = pending
    BY <1>6, <1>16, <1>21
  <2>2. \A i \in DOMAIN services : SaysIts(more, services[i])
    BY <1>10, <1>11, <1>21
  <2>3. \A i \in DOMAIN services :
          Waits(more, section, services[i]) <=> Waits(read, section, services[i])
    BY <1>8 DEF Waits
  <2>4. pending = {i \in DOMAIN services : Waits(more, section, services[i])}
    BY <1>2, <2>3
  <2>5. \A k \in DOMAIN more : DescribesService(more[k].rows) =>
            \E i \in DOMAIN services : services[i].table = k
    BY <1>2, <1>19, <1>21
  <2> QED
    BY <1>2, <1>4, <1>5, <1>17, <2>1, <2>2, <2>4, <2>5 DEF ParserInv, ParserTyped
<1> QED
  BY <1>18, <1>20, <1>21

LEMMA NextSectionKeeps ==
  ASSUME ParserInv, NextSection
  PROVE  ParserInv'
<1>1. /\ read' = read /\ section' = section + 1 /\ services' = services /\ pending' = {}
      /\ broken' = broken /\ dates' = dates /\ ~broken
  BY DEF NextSection
<1>2. /\ section \in Nat /\ section + 1 \in Nat
      /\ \A k \in DOMAIN read : read[k].section <= section
      /\ \A i \in DOMAIN services : SaysIts(read, services[i])
  BY DEF ParserInv, ParserTyped
<1>3. ASSUME NEW k \in DOMAIN read PROVE read[k].section \in Nat
  <2>1. read[k] \in FileTable
    BY ElementOfSeq, LenProperties DEF ParserInv, ParserTyped
  <2> QED
    BY <2>1 DEF FileTable
<1>4. \A k \in DOMAIN read : read[k].section <= section + 1 /\ read[k].section # section + 1
  BY <1>2, <1>3
<1>5. \A i \in DOMAIN services : ~Waits(read, section + 1, services[i])
  BY <1>2, <1>4 DEF Waits, SaysIts
<1>6. {} = {i \in DOMAIN services : Waits(read, section + 1, services[i])}
  BY <1>5
<1> QED
  BY <1>1, <1>2, <1>4, <1>6 DEF ParserInv, ParserTyped

LEMMA NameDateKeeps ==
  ASSUME ParserInv, NameDate
  PROVE  ParserInv'
<1>1. /\ read' = read /\ section' = section /\ services' = services /\ pending' = pending
      /\ broken' = broken
  BY DEF NameDate
<1>2. dates' \in Seq(Date)
  <2>1. PICK d \in Dates : dates' = Append(dates, d)
    BY DEF NameDate
  <2>2. d \in Date /\ dates \in Seq(Date)
    BY ParserAssumption DEF ParserInv, ParserTyped
  <2> QED
    BY <2>1, <2>2, AppendProperties
<1> QED
  BY <1>1, <1>2 DEF ParserInv, ParserTyped

\* What is left of the services are some of them, in their order.
SomeOf(kept, n) ==
    /\ kept \in Seq(FileService) /\ Rising(kept)
    /\ \A a \in DOMAIN kept : \E i \in 1 .. n : kept[a] = services[i]

LEMMA BreakOffLeaves ==
  ASSUME ParserInv, BreakOff
  PROVE  SomeOf(services', Len(services))
<1> DEFINE n == Len(services)  T == Seq(FileService)  start == << >>
           Left(kept, i) == IF read[services[i].table].section < section
                            THEN Append(kept, services[i]) ELSE kept
           move == [x \in (1 .. n) \X T |-> Left(x[2], x[1])]
           Body(r) == [i \in 0 .. n |-> IF i = 0 THEN start ELSE Left(r[i - 1], i)]
           after == CHOOSE r : r = Body(r)
<1>1. n \in Nat /\ start \in T
  BY LenProperties, EmptySeq DEF ParserInv, ParserTyped
<1>2. /\ \A i \in 1 .. n : services[i] \in FileService
      /\ \A i, j \in 1 .. n : i < j => services[i].table < services[j].table
  BY ElementOfSeq, LenProperties DEF ParserInv, ParserTyped, Rising
<1>3. services' = after[n]
  BY DEF BreakOff, Stepwise
<1>4. \A i \in 1 .. n : \A kept : Left(kept, i) \in {kept, Append(kept, services[i])}
  OBVIOUS
<1> HIDE DEF Left
<1>5. move \in [(1 .. n) \X T -> T]
  <2>1. \A i \in 1 .. n, kept \in T : Left(kept, i) \in T
    <3> TAKE i \in 1 .. n, kept \in T
    <3>1. Append(kept, services[i]) \in T
      BY <1>2, AppendProperties
    <3> HIDE DEF T
    <3> QED
      BY <1>4, <3>1
  <2> QED
    BY <2>1
<1>6. SomeOf(start, 0)
  BY <1>1, EmptySeq DEF SomeOf, Rising
<1>7. ASSUME NEW i \in 1 .. n, NEW kept, SomeOf(kept, i - 1) PROVE SomeOf(Left(kept, i), i)
  <2>1. /\ kept \in Seq(FileService) /\ Rising(kept)
        /\ \A a \in DOMAIN kept : \E h \in 1 .. i - 1 : kept[a] = services[h]
    BY <1>7 DEF SomeOf
  <2>2. \A h \in 1 .. i - 1 : h \in 1 .. i /\ h \in 1 .. n /\ h < i
    BY <1>1
  <2>3. i \in 1 .. i /\ services[i] \in FileService
    BY <1>1, <1>2
  <2>4. SomeOf(kept, i)
    BY <2>1, <2>2 DEF SomeOf
  <2>5. SomeOf(Append(kept, services[i]), i)
    <3> DEFINE s == services[i]  l == Len(kept)  more == Append(kept, s)
    <3>1. /\ l \in Nat /\ DOMAIN kept = 1 .. l /\ more \in Seq(FileService)
          /\ DOMAIN more = 1 .. l + 1 /\ more[l + 1] = s
          /\ \A a \in 1 .. l : more[a] = kept[a]
          /\ \A a \in 1 .. l + 1 : a \in 1 .. l \/ a = l + 1
      BY <2>1, <2>3, AppendProperties, LenProperties
    <3>2. \A a \in 1 .. l : kept[a].table < s.table
      BY <1>2, <2>1, <2>2, <3>1
    <3> HIDE DEF more, l
    <3>3. Rising(more)
      <4> SUFFICES ASSUME NEW a \in 1 .. l + 1, NEW b \in 1 .. l + 1, a < b
                   PROVE  more[a].table < more[b].table
        BY <3>1 DEF Rising
      <4>1. a \in 1 .. l
        BY <3>1
      <4>2. CASE b \in 1 .. l
        BY <2>1, <3>1, <4>1, <4>2 DEF Rising
      <4>3. CASE b = l + 1
        BY <3>1, <3>2, <4>1, <4>3
      <4> QED
        BY <3>1, <4>2, <4>3
    <3>4. \A a \in DOMAIN more : \E h \in 1 .. i : more[a] = services[h]
      <4> TAKE a \in DOMAIN more
      <4>1. CASE a \in 1 .. l
        BY <2>1, <2>2, <3>1, <4>1
      <4>2. CASE a = l + 1
        BY <2>3, <3>1, <4>2
      <4> QED
        BY <3>1, <4>1, <4>2
    <3> QED
      BY <3>1, <3>3, <3>4 DEF SomeOf, more
  <2> QED
    BY <1>4, <2>4, <2>5
<1> HIDE DEF T, n, start, move
<1>8. PICK f : StepsBy(f, n, T, start, move)
  BY <1>1, <1>5, StepsExist
<1>9. \A i \in 1 .. n : i - 1 \in 0 .. n /\ f[i] = Left(f[i - 1], i)
  <2> TAKE i \in 1 .. n
  <2>1. i - 1 \in 0 .. n
    BY <1>1
  <2>2. f[i] = move[<<i, f[i - 1]>>] /\ f[i - 1] \in T
    BY <1>8, <2>1 DEF StepsBy
  <2> QED
    BY <2>1, <2>2 DEF move
<1>10. f = Body(f)
  <2>1. f = [i \in 0 .. n |-> f[i]] /\ f[0] = start
    BY <1>8 DEF StepsBy
  <2>2. \A i \in 0 .. n : i # 0 => i \in 1 .. n
    BY <1>1
  <2>3. \A i \in 0 .. n : f[i] = IF i = 0 THEN start ELSE Left(f[i - 1], i)
    BY <1>9, <2>1, <2>2
  <2> QED
    BY <2>1, <2>3
<1>11. after = Body(after)
  <2> HIDE DEF Body
  <2> QED
    BY <1>10
<1> HIDE DEF after
<1> DEFINE P == {i \in 0 .. n : SomeOf(after[i], i)}
<1>12. 0 \in P
  <2>1. after[0] = start
    BY <1>1, <1>11
  <2> QED
    BY <1>1, <1>6, <2>1
<1>13. ASSUME NEW i \in 1 .. n, i - 1 \in P PROVE i \in P
  <2>1. after[i] = Left(after[i - 1], i) /\ SomeOf(after[i - 1], i - 1)
    BY <1>1, <1>11, <1>13
  <2>2. SomeOf(after[i], i)
    BY <1>7, <2>1
  <2> QED
    BY <1>1, <2>2
<1> HIDE DEF P
<1>14. \A i \in 0 .. n : i \in P
  BY <1>1, <1>12, <1>13, Upwards
<1>15. n \in P
  BY <1>1, <1>14
<1> QED
  BY <1>3, <1>15 DEF P, n

LEMMA BreakOffKeeps ==
  ASSUME ParserInv, BreakOff
  PROVE  ParserInv'
<1>1. SomeOf(services', Len(services))
  BY BreakOffLeaves
<1>2. /\ read' = read /\ section' = section /\ dates' = dates /\ broken' = TRUE
  BY DEF BreakOff
<1>3. DOMAIN services = 1 .. Len(services)
  BY LenProperties DEF ParserInv, ParserTyped
<1>4. services' \in Seq(FileService) /\ Rising(services')
  BY <1>1 DEF SomeOf
<1>5. \A a \in DOMAIN services' : SaysIts(read, services'[a])
  BY <1>1, <1>3 DEF SomeOf, ParserInv
<1> QED
  BY <1>2, <1>4, <1>5 DEF ParserInv, ParserTyped

LEMMA ParserInvHolds == ParserSpec => []ParserInv
<1>1. ParserInit => ParserInv
  <2> SUFFICES ASSUME ParserInit PROVE ParserInv
    OBVIOUS
  <2>1. /\ read = << >> /\ section = 1 /\ services = << >> /\ pending = {}
        /\ broken = FALSE /\ dates = << >>
    BY DEF ParserInit
  <2>2. \A S : << >> \in Seq(S) /\ DOMAIN << >> = {}
    BY EmptySeq
  <2> QED
    BY <2>1, <2>2 DEF ParserInv, ParserTyped, Rising
<1>2. ParserInv /\ [ParserNext]_parserVars => ParserInv'
  <2> SUFFICES ASSUME ParserInv, [ParserNext]_parserVars PROVE ParserInv'
    OBVIOUS
  <2>1. ASSUME NEW rows \in Tables, ReadTable(rows) PROVE ParserInv'
    BY <2>1, ReadTableKeeps
  <2>2. CASE UNCHANGED parserVars
    BY <2>2 DEF ParserInv, ParserTyped, parserVars
  <2> QED
    BY <2>1, <2>2, NextSectionKeeps, BreakOffKeeps, NameDateKeeps DEF ParserNext
<1> QED
  BY <1>1, <1>2, PTL DEF ParserSpec

LEMMA ServicesReadIs ==
  ASSUME ParserInv
  PROVE  ServicesRead
<1>1. /\ \A i \in DOMAIN services : SaysIts(read, services[i])
      /\ Rising(services)
      /\ ~broken => \A k \in DOMAIN read : DescribesService(read[k].rows) =>
                        \E i \in DOMAIN services : services[i].table = k
  BY DEF ParserInv
<1>2. ASSUME ~broken
      PROVE  {services[i].table : i \in DOMAIN services} =
               {k \in DOMAIN read : DescribesService(read[k].rows)}
  BY <1>1, <1>2 DEF SaysIts
<1>3. \A k : AnnexOf(k) = AnnexIn(read, k)
  BY DEF AnnexOf, AnnexIn, ListsAfter, ContactOf
<1> QED
  BY <1>1, <1>2, <1>3 DEF ServicesRead, Rising, SaysIts, ContactOf

\* A file becomes the services that its tables describe, each once and in order,
\* with the contact and the list of numbers that its table is owed (WelfareParser's
\* ReadTable, NextSection and BreakOff), and the periods of a text are one at least, no
\* two alike and none that ends before it starts (Periods): for files and texts of
\* every length.
THEOREM RowsStayAsWritten == ParserSpec => []RowsAsWritten
<1>1. ParserInv => RowsAsWritten
  <2> SUFFICES ASSUME ParserInv PROVE RowsAsWritten
    OBVIOUS
  <2>1. dates \in Seq(Date)
    BY DEF ParserInv, ParserTyped
  <2> QED
    BY <2>1, ServicesReadIs, PeriodsInOrderOf DEF RowsAsWritten
<1> QED
  BY <1>1, ParserInvHolds, PTL

-------------------------------------------------------------------------------
(* Whole turns beside uploads, whose summaries are stored without a lock.  *)

\* The uploads that are through: their summaries are stored, if anything is.
Summed == {u \in Ours : dstep[u] = "done"}

SummaryHeld(u) ==
    \E db : /\ Base(db, pc, Summed)
            /\ mem[u] = db \o <<UserMessage(u), AssistantMessage(u, text[u])>>

\* An upload holds a pair behind whole turns when it is about to store it.
SummariesInv ==
    /\ TurnsInv(Summed)
    /\ dstep \in [Uploads -> {"new", "uploaded", "written", "sent", "unsent", "stored",
                              "save", "done"}]
    /\ \A u \in Ours : pc[u] = "new" /\ (dstep[u] = "save" => SummaryHeld(u))

\* Steps of others leave an upload's messages, and no request unsaves.
LEMMA BesideKeeps ==
  ASSUME TypeOK, StepBeside(Ours)
  PROVE  /\ \A u \in Ours : UNCHANGED <<pc[u], mem[u], text[u]>>
         /\ \A r \in Requests : pc[r] \in Saved => pc'[r] \in Saved
<1> DEFINE Only(r) == /\ \A o \in Requests \ {r} : UNCHANGED <<pc[o], mem[o], text[o]>>
                      /\ pc[r] \in Saved => pc'[r] \in Saved
<1>1. \A u \in Ours : u \in Requests /\ u \in Asks /\ u \notin Turns
  BY HistoryAssumption DEF Ours, Requests
<1>2. DOMAIN pc = Requests /\ DOMAIN mem = Requests /\ DOMAIN text = Requests
  BY DEF TypeOK
<1>3. ASSUME NEW r \in Turns \ Ours, TurnNext(r) PROVE Only(r)
  <2>1. r \in Requests
    BY DEF Requests
  <2>2. ASSUME NEW sent \in Fronts, Start(r, sent) PROVE Only(r)
    BY <1>2, <2>1, <2>2 DEF Start, Saved
  <2>3. CASE Read(r)
    <3>1. PICK db \in {row, << >>} : mem' = [mem EXCEPT ![r] = Merge(db, front[r])]
      BY <2>3 DEF Read
    <3>2. pc[r] = "read" /\ pc' = [pc EXCEPT ![r] = "list"] /\ text' = text
      BY <2>3 DEF Read
    <3> QED
      BY <1>2, <2>1, <3>1, <3>2 DEF Saved
  <2>4. CASE List(r)
    BY <1>2, <2>1, <2>4 DEF List, Saved
  <2>5. CASE Refuse(r)
    BY <1>2, <2>1, <2>5 DEF Refuse, Saved
  <2>6. ASSUME NEW result \in Answers, Answer(r, result) PROVE Only(r)
    BY <1>2, <2>1, <2>6 DEF Answer, Saved
  <2>7. CASE SaveTurn(r)
    BY <1>2, <2>1, <2>7 DEF SaveTurn, Saved
  <2>8. CASE RelistTurn(r)
    BY <1>2, <2>1, <2>8 DEF RelistTurn, Saved
  <2> QED
    BY <1>3, <2>2, <2>3, <2>4, <2>5, <2>6, <2>7, <2>8 DEF TurnNext
<1>4. ASSUME NEW r \in Asks \ Ours, AskStep(r) PROVE Only(r)
  <2>1. r \in Requests
    BY DEF Requests
  <2>2. CASE AppendAnswer(r)
    <3>1. PICK db \in {row, << >>} :
            mem' = [mem EXCEPT ![r] = db \o <<UserMessage(r), AssistantMessage(r, "answer")>>]
      BY <2>2 DEF AppendAnswer
    <3>2. /\ pc[r] = "new" /\ pc' = [pc EXCEPT ![r] = "save"]
          /\ text' = [text EXCEPT ![r] = "answer"]
      BY <2>2 DEF AppendAnswer
    <3> QED
      BY <1>2, <2>1, <3>1, <3>2 DEF Saved
  <2>3. CASE SaveAsk(r)
    BY <1>2, <2>1, <2>3 DEF SaveAsk, Saved
  <2>4. CASE RelistAsk(r)
    BY <1>2, <2>1, <2>4 DEF RelistAsk, Saved
  <2> QED
    BY <1>4, <2>2, <2>3, <2>4 DEF AskStep
<1>5. CASE FeedbackNext \/ DeleteNext \/ UNCHANGED vars
  BY <1>1, <1>5 DEF FeedbackNext, ReadFeedback, WriteFeedback, DeleteNext, VerifyOwner,
       DeleteHistory, DeleteListing, requestVars, vars
<1>6. ASSUME NEW r \in (Turns \cup Asks) \ Ours, Only(r)
      PROVE  /\ \A u \in Ours : UNCHANGED <<pc[u], mem[u], text[u]>>
             /\ \A o \in Requests : pc[o] \in Saved => pc'[o] \in Saved
  BY <1>1, <1>6
<1> HIDE DEF Only
<1> QED
  BY <1>3, <1>4, <1>5, <1>6 DEF StepBeside

\* A step of a turn, a question, feedback or a delete.
LEMMA SummariesBeside ==
  ASSUME SummariesInv, SentNew, StartsNew, TypeOK', StepBeside(Ours), UNCHANGED dstep
  PROVE  SummariesInv' /\ SentNew'
<1>1. TypeOK /\ TurnsInv(Summed) /\ Summed \subseteq Ours
  BY DEF SummariesInv, TurnsInv, Summed
<1>2. StepBeside(Summed) /\ StepBeside({})
  BY <1>1 DEF StepBeside
<1>3. SentNew'
  BY <1>1, <1>2, SentNewStep
<1>4. Adds
  <2>1. Summed \cap Turns = {}
    BY <1>1, HistoryAssumption DEF Ours
  <2> QED
    BY <1>1, <2>1, AddsNew
<1>5. PICK D : D = Summed
  OBVIOUS
<1>6. TurnsInv(D)'
  BY <1>1, <1>2, <1>4, <1>5, TurnsStep
<1>7. Summed' = D
  BY <1>5 DEF Summed
<1>8. TurnsInv(Summed)'
  BY <1>6, <1>7 DEF TurnsInv, Prepared
<1>9. ASSUME NEW u \in Ours PROVE pc'[u] = "new" /\ (dstep'[u] = "save" => SummaryHeld(u)')
  <2>1. UNCHANGED <<pc[u], mem[u], text[u], dstep[u]>>
    BY <1>1, BesideKeeps
  <2>2. pc[u] = "new" /\ (dstep[u] = "save" => SummaryHeld(u))
    BY DEF SummariesInv
  <2>3. ASSUME SummaryHeld(u) PROVE SummaryHeld(u)'
    <3>1. PICK db : /\ Base(db, pc, D)
                    /\ mem[u] = db \o <<UserMessage(u), AssistantMessage(u, text[u])>>
      BY <1>5, <2>3 DEF SummaryHeld
    <3>2. Base(db, pc', D)
      BY <1>1, <3>1, BesideKeeps, BaseStays
    <3> QED
      BY <1>7, <2>1, <3>1, <3>2 DEF SummaryHeld
  <2> QED
    BY <2>1, <2>2, <2>3
<1> QED
  BY <1>3, <1>8, <1>9 DEF SummariesInv

\* A step of an upload that leaves the history alone.
LEMMA SummariesLater ==
  ASSUME SummariesInv, SentNew, UNCHANGED vars, NEW u \in Uploads, dstep[u] \notin {"save", "done"},
         NEW p \in {"uploaded", "written", "sent", "unsent", "stored", "done"},
         dstep' = [dstep EXCEPT ![u] = p]
  PROVE  SummariesInv' /\ SentNew'
<1>1. UNCHANGED <<row, pc, mem, text, loop, held, front>> /\ TypeOK /\ TurnsInv(Summed)
  BY DEF vars, requestVars, feedbackVars, SummariesInv, TurnsInv
<1>2. TypeOK' /\ SentNew'
  BY <1>1, TypeStep DEF SentNew
<1>3. PICK D, E : D = Summed /\ E = Summed'
  OBVIOUS
<1>4. D \subseteq E
  BY <1>3 DEF Summed, SummariesInv, Ours
<1>5. \A s : Base(s, pc, D) => Base(s, pc', E)
  BY <1>1, <1>4, BaseStays
<1>6. TurnsInv(Summed)'
  <2>1. Base(row', pc', E) /\ (loop' = "feedback" => Base(held', pc', E))
    BY <1>1, <1>3, <1>5 DEF TurnsInv
  <2>2. \A r \in Requests : Prepared(r, E)'
    BY <1>1, <1>3, <1>5 DEF TurnsInv, Prepared
  <2> QED
    BY <1>2, <1>3, <2>1, <2>2 DEF TurnsInv, Prepared
<1>7. ASSUME NEW w \in Ours PROVE pc'[w] = "new" /\ (dstep'[w] = "save" => SummaryHeld(w)')
  <2>1. dstep'[w] = "save" => dstep[w] = "save"
    BY DEF SummariesInv, Ours
  <2>2. SummaryHeld(w) => SummaryHeld(w)'
    BY <1>1, <1>3, <1>5 DEF SummaryHeld
  <2> QED
    BY <1>1, <2>1, <2>2 DEF SummariesInv
<1> QED
  BY <1>2, <1>6, <1>7 DEF SummariesInv

LEMMA ReadTypes ==
  ASSUME TypeOK, NEW db, Reads(db)
  PROVE  readErrors' \in 0 .. MaxReadErrors
<1>1. readErrors \in 0 .. MaxReadErrors /\ MaxReadErrors \in Nat
  BY HistoryAssumption DEF TypeOK
<1>2. readErrors' = readErrors \/ (readErrors < MaxReadErrors /\ readErrors' = readErrors + 1)
  BY DEF Reads, ReadFails
<1> QED
  BY <1>1, <1>2

LEMMA SummariesRead ==
  ASSUME SummariesInv, SentNew, NEW u \in Ours, ReadSummary(u)
  PROVE  SummariesInv' /\ SentNew'
<1>1. /\ TypeOK /\ TurnsInv(Summed) /\ pc[u] = "new"
      /\ u \in Requests /\ u \in Owners /\ u \in Uploads /\ u \in Asks /\ u \notin Turns
  BY HistoryAssumption DEF SummariesInv, TurnsInv, Ours, Requests, Owners
<1>2. PICK t \in {"answer", ""}, db \in {row, << >>} :
        /\ Reads(db)
        /\ mem' = [mem EXCEPT ![u] = db \o <<UserMessage(u), AssistantMessage(u, t)>>]
        /\ text' = [text EXCEPT ![u] = t]
  BY DEF ReadSummary
<1>3. /\ dstep[u] = "stored" /\ dstep' = [dstep EXCEPT ![u] = "save"] /\ loop' = "ask"
      /\ UNCHANGED <<row, listed, shown, pc, front, held, mark, acked, deleted, writeErrors>>
  BY DEF ReadSummary, Reach, feedbackVars
<1>4. TypeOK'
  <2>1. UserMessage(u) \in Message /\ AssistantMessage(u, t) \in Message
    BY <1>1, MessageTypes DEF Texts
  <2>2. db \o <<UserMessage(u), AssistantMessage(u, t)>> \in Seq(Message)
    <3>1. db \in Seq(Message)
      BY <1>1, EmptySeq DEF TypeOK
    <3> QED
      BY <2>1, <3>1, PairAppended
  <2>3. readErrors' \in 0 .. MaxReadErrors
    BY <1>1, <1>2, ReadTypes
  <2>4. text' \in [Requests -> Texts] /\ mem' \in [Requests -> Seq(Message)]
    BY <1>1, <1>2, <2>2 DEF TypeOK, Texts
  <2> QED
    BY <1>1, <1>3, <2>3, <2>4 DEF TypeOK
<1>5. PICK D : D = Summed
  OBVIOUS
<1>6. Summed' = D
  <2>1. \A w \in Ours : dstep'[w] = "done" <=> dstep[w] = "done"
    BY <1>1, <1>3 DEF SummariesInv, Ours
  <2> QED
    BY <1>5, <2>1 DEF Summed
<1>7. TurnsInv(Summed)'
  <2>1. Base(row', pc', D) /\ loop' # "feedback"
    BY <1>1, <1>3, <1>5 DEF TurnsInv
  <2>2. ASSUME NEW r \in Requests PROVE Prepared(r, D)'
    <3>1. CASE r = u
      BY <1>1, <1>3, <3>1 DEF Prepared
    <3>2. CASE r # u
      <4>1. Prepared(r, D) /\ UNCHANGED <<pc, mem[r], text[r]>>
        BY <1>1, <1>2, <1>3, <1>5, <3>2 DEF TurnsInv, TypeOK
      <4> QED
        BY <4>1 DEF Prepared
    <3> QED
      BY <3>1, <3>2
  <2> QED
    BY <1>4, <1>6, <2>1, <2>2 DEF TurnsInv, Prepared
<1>8. ASSUME NEW w \in Ours PROVE pc'[w] = "new" /\ (dstep'[w] = "save" => SummaryHeld(w)')
  <2>1. CASE w = u
    <3>1. Base(db, pc, D)
      BY <1>1, <1>5, BaseEmpty DEF TurnsInv
    <3>2. mem'[u] = db \o <<UserMessage(u), AssistantMessage(u, text'[u])>>
      BY <1>1, <1>2 DEF TypeOK
    <3> QED
      BY <1>1, <1>3, <1>6, <2>1, <3>1, <3>2 DEF SummaryHeld
  <2>2. CASE w # u
    <3>1. w \in Requests /\ pc[w] = "new" /\ (dstep[w] = "save" => SummaryHeld(w)) /\ dstep'[w] = dstep[w]
      BY <1>3, <2>2 DEF SummariesInv, Ours, Requests
    <3>2. UNCHANGED <<pc, mem[w], text[w]>>
      BY <1>1, <1>2, <1>3, <2>2, <3>1 DEF TypeOK
    <3>3. SummaryHeld(w) => SummaryHeld(w)'
      BY <1>5, <1>6, <3>2 DEF SummaryHeld
    <3> QED
      BY <3>1, <3>2, <3>3
  <2> QED
    BY <2>1, <2>2
<1>9. dstep' \in [Uploads -> {"new", "uploaded", "written", "sent", "unsent", "stored",
                              "save", "done"}]
  BY <1>3 DEF SummariesInv
<1> QED
  BY <1>3, <1>7, <1>8, <1>9 DEF SummariesInv, SentNew

LEMMA SummariesSave ==
  ASSUME SummariesInv, SentNew, NEW u \in Ours, SaveSummary(u)
  PROVE  SummariesInv' /\ SentNew'
<1>1. /\ TypeOK /\ TurnsInv(Summed) /\ pc[u] = "new"
      /\ u \in Requests /\ u \in Owners /\ u \in Uploads /\ u \in Asks /\ u \notin Turns
  BY HistoryAssumption DEF SummariesInv, TurnsInv, Ours, Requests, Owners
<1>2. /\ dstep[u] = "save" /\ dstep' = [dstep EXCEPT ![u] = "done"] /\ loop' = "idle"
      /\ Overwrite(mem[u])
      /\ shown' = IF deleted THEN shown
                  ELSE shown \o <<UserMessage(u), AssistantMessage(u, text[u])>>
      /\ UNCHANGED <<listed, pc, front, mem, text, held, mark, acked, deleted, readErrors>>
  BY DEF SaveSummary, Reach, feedbackVars, requestVars
<1>3. TypeOK'
  <2>1. mem[u] \in Seq(Message) /\ text[u] \in Texts /\ shown \in Seq(Message)
    BY <1>1 DEF TypeOK
  <2>2. UserMessage(u) \in Message /\ AssistantMessage(u, text[u]) \in Message
    BY <1>1, <2>1, MessageTypes
  <2>3. shown' \in Seq(Message)
    BY <1>2, <2>1, <2>2, PairAppended
  <2>4. row' \in Seq(Message) /\ writeErrors' \in 0 .. MaxWriteErrors
    BY <1>1, <1>2, <2>1, WriteTypes DEF Overwrite, TypeOK
  <2> QED
    BY <1>1, <1>2, <2>3, <2>4 DEF TypeOK
<1>4. PICK D, E : D = Summed /\ E = Summed'
  OBVIOUS
<1>5. D \subseteq E /\ u \in E /\ u \notin D
  BY <1>1, <1>2, <1>4 DEF Summed, SummariesInv, Ours
<1>6. \A s : Base(s, pc, D) => Base(s, pc', E)
  BY <1>2, <1>5, BaseStays
<1>7. Base(mem[u], pc', E)
  <2>1. PICK db : /\ Base(db, pc, D)
                  /\ mem[u] = db \o <<UserMessage(u), AssistantMessage(u, text[u])>>
    BY <1>2, <1>4 DEF SummariesInv, SummaryHeld
  <2>2. PICK t \in Texts : t = text[u]
    BY <1>1 DEF TypeOK
  <2>3. pc[u] \notin Saved /\ pc' = pc
    BY <1>1, <1>2 DEF Saved
  <2>4. Base(db \o <<UserMessage(u), AssistantMessage(u, t)>>, pc', E)
    BY <1>1, <1>5, <2>1, <2>3, BaseAppended
  <2> QED
    BY <2>1, <2>2, <2>4
<1>8. TurnsInv(Summed)'
  <2>1. Base(row', pc', E) /\ loop' # "feedback"
    BY <1>1, <1>2, <1>4, <1>6, <1>7 DEF TurnsInv, Overwrite
  <2>2. \A r \in Requests : Prepared(r, E)'
    BY <1>1, <1>2, <1>4, <1>6 DEF TurnsInv, Prepared
  <2> QED
    BY <1>3, <1>4, <2>1, <2>2 DEF TurnsInv, Prepared
<1>9. ASSUME NEW w \in Ours PROVE pc'[w] = "new" /\ (dstep'[w] = "save" => SummaryHeld(w)')
  <2>1. dstep'[w] = "save" => dstep[w] = "save"
    BY <1>1, <1>2 DEF SummariesInv, Ours
  <2>2. SummaryHeld(w) => SummaryHeld(w)'
    BY <1>2, <1>4, <1>6 DEF SummaryHeld
  <2> QED
    BY <1>2, <2>1, <2>2 DEF SummariesInv
<1>10. dstep' \in [Uploads -> {"new", "uploaded", "written", "sent", "unsent", "stored",
                               "save", "done"}]
  BY <1>2 DEF SummariesInv
<1> QED
  BY <1>2, <1>8, <1>9, <1>10 DEF SummariesInv, SentNew

LEMMA SummariesInit == DocumentsInit => SummariesInv /\ SentNew
<1> SUFFICES ASSUME DocumentsInit PROVE SummariesInv /\ SentNew
  OBVIOUS
<1>1. Init /\ dstep = [u \in Uploads |-> "new"]
  BY DEF DocumentsInit
<1>2. TurnsInv(Summed)
  BY <1>1, TurnsInit
<1>3. \A u \in Ours : pc[u] = "new" /\ dstep[u] = "new"
  BY <1>1 DEF Init, Ours, Requests
<1> QED
  BY <1>1, <1>2, <1>3 DEF Init, SummariesInv, SentNew, Requests

LEMMA SummariesStep ==
  ASSUME SummariesInv, SentNew, StartsNew, DocumentsNext \/ UNCHANGED documentVars
  PROVE  SummariesInv' /\ SentNew'
<1>1. TypeOK
  BY DEF SummariesInv, TurnsInv
<1>2. CASE OtherCalls
  <2>1. [Next]_vars /\ UNCHANGED dstep
    BY <1>2 DEF OtherCalls, Next, extractVars
  <2>2. StepBeside(Ours)
    BY <1>2, HistoryAssumption DEF OtherCalls, StepBeside, Ours
  <2> QED
    BY <1>1, <2>1, <2>2, TypeStep, SummariesBeside
<1>3. ASSUME NEW q \in Questions, AskStep(q), UNCHANGED dstep PROVE SummariesInv' /\ SentNew'
  <2>1. q \in Asks \ Ours
    BY DEF Questions, Ours
  <2>2. StepBeside(Ours)
    BY <1>3, <2>1 DEF StepBeside
  <2>3. TypeOK'
    BY <1>1, <1>3, <2>1, TypeAsk
  <2> QED
    BY <1>3, <2>2, <2>3, SummariesBeside
<1>4. ASSUME UNCHANGED vars, UNCHANGED dstep PROVE SummariesInv' /\ SentNew'
  <2>1. StepBeside(Ours) /\ TypeOK'
    BY <1>1, <1>4, TypeStep DEF StepBeside
  <2> QED
    BY <1>4, <2>1, SummariesBeside
<1>5. ASSUME NEW q \in Questions, QuestionNext(q) PROVE SummariesInv' /\ SentNew'
  BY <1>3, <1>4, <1>5 DEF QuestionNext, FindRecords, LoadText, AnswerQuestion, StoreQuestion,
       AskStep, extractVars
<1>6. ASSUME NEW u \in Uploads, Upload(u) \/ Extract(u) \/ Transfer(u) \/ Record(u)
      PROVE  SummariesInv' /\ SentNew'
  <2>1. UNCHANGED vars /\ dstep[u] \notin {"save", "done"}
    BY <1>6 DEF Upload, Extract, Transfer, Record
  <2>2. \E p \in {"uploaded", "written", "sent", "unsent", "stored", "done"} :
           dstep' = [dstep EXCEPT ![u] = p]
    BY <1>6 DEF Upload, Extract, Transfer, Record, Reach
  <2> QED
    BY <2>1, <2>2, SummariesLater
<1>7. CASE UNCHANGED documentVars
  BY <1>4, <1>7 DEF documentVars, extractVars
<1> QED
  BY <1>2, <1>5, <1>6, <1>7, SummariesRead, SummariesSave DEF DocumentsNext, ExtractNext, Ours

\* A summary does not tear turns apart either, nor is it torn, although ReadSummary
\* and SaveSummary (Documents) store it without the lock that the turns take: of
\* clients that send their new question, whatever overlaps and whatever fails.
THEOREM SummariesStayWhole ==
  ASSUME Fronts \subseteq {"new"}
  PROVE  DocumentsSpec => []WholeTurns
<1>1. SummariesInv => WholeTurns
  BY DEF SummariesInv, TurnsInv, Base, Whole, WholeTurns, Greets, AsksAt
<1>2. SummariesInv /\ SentNew /\ [DocumentsNext]_documentVars => SummariesInv' /\ SentNew'
  BY NewOnly, SummariesStep DEF SummariesInv, TurnsInv
<1> QED
  BY <1>1, <1>2, SummariesInit, PTL DEF DocumentsSpec

-------------------------------------------------------------------------------
(* The composition (MCDocuments), whatever the number of calls, clients,   *)
(* uploads and failures of each kind.                                      *)

mcVars == <<documentVars, publishingVars, parserVars, kind>>

\* Of calls that follow one another, clients that display what is stored and
\* deletes that may fail, with all that the sections above say of them.
AloneInv ==
    /\ ListedInv /\ LikesInv /\ ShownInv
    /\ readErrors = 0

\* Who sends one message sends the new question.
LEMMA SentAlone ==
  ASSUME TypeOK, NEW r \in Turns, NEW sent \in Fronts, Start(r, sent), Len(front'[r]) <= 1
  PROVE  front'[r] = <<UserMessage(r)>>
<1>1. /\ front'[r] = IF sent = "all" THEN shown' ELSE <<UserMessage(r)>>
      /\ shown' = Append(shown, UserMessage(r))
      /\ shown \in Seq(Message)
  BY DEF Start, TypeOK, Requests
<1>2. CASE front'[r] = shown'
  <2>1. shown \in Seq(Message) /\ Len(shown) + 1 <= 1 /\ Len(shown) \in Nat
    BY <1>1, <1>2
  <2>2. shown = << >>
    BY <2>1
  <2> QED
    BY <1>1, <1>2, <2>2
<1> QED
  BY <1>1, <1>2

LEMMA SequentialIsNext ==
  ASSUME Sequential, AloneInv
  PROVE  /\ Next /\ Alone' /\ readErrors' = readErrors /\ DeletesFail /\ AnswersOk
         /\ writeErrors > 0 => StartsNew
<1>1. Next
  BY DEF Sequential, Next, Questions
<1>2. TypeOK /\ TypeOK'
  BY <1>1, TypeStep DEF AloneInv, LikesInv, SoloInv
<1>3. AnswersOk
  <2>1. ASSUME NEW r \in Turns, shown' = Append(shown, AssistantMessage(r, "apology"))
        PROVE  FALSE
    <3> DEFINE a == AssistantMessage(r, "apology")
               n == Len(shown)
    <3>1. a \in Message /\ a.text = "apology" /\ shown' = Append(shown, a)
      BY <2>1, MessageTypes DEF Owners, Requests, Texts, AssistantMessage
    <3> HIDE DEF a
    <3>2. shown \in Seq(Message)
      BY <1>2 DEF TypeOK
    <3>3. n + 1 \in DOMAIN shown' /\ shown'[n + 1] = a
      BY <3>1, <3>2
    <3> QED
      BY <3>1, <3>3 DEF Sequential
  <2> QED
    BY <2>1, HistoryAssumption DEF AnswersOk, Refuse, Answer
<1>4. ASSUME writeErrors > 0, NEW r \in Turns, NEW sent \in Fronts, Start(r, sent)
      PROVE  front'[r] = <<UserMessage(r)>>
  <2>1. Len(front'[r]) <= 1
    BY <1>4 DEF Sequential, Start
  <2> QED
    BY <1>2, <1>4, <2>1, SentAlone
<1> QED
  BY <1>1, <1>3, <1>4 DEF Sequential, AloneInv, DeletesFail, StartsNew

LEMMA AloneStays ==
  ASSUME AloneInv, Sequential \/ UNCHANGED vars
  PROVE  AloneInv'
<1>1. CASE Sequential
  <2>1. /\ [Next]_vars /\ Alone' /\ readErrors' = readErrors /\ DeletesFail /\ AnswersOk
        /\ writeErrors > 0 => StartsNew
    BY <1>1, SequentialIsNext
  <2>2. LikesInv'
    BY <2>1, AddsShown, LikesStep DEF AloneInv, LikesInv
  <2>3. ASSUME NEW r \in Asks, AskNext(r) PROVE writeErrors' = writeErrors
    <3>1. writeErrors' = writeErrors \/ Running(r)
      BY <2>3 DEF AskNext, ReadAsk, AppendAnswer, SaveAsk, RelistAsk, Running
    <3>2. Running(r) => loop \notin {"history", "listing"}
      BY DEF AloneInv, LikesInv, SoloInv, Alone, Requests
    <3> QED
      BY <2>1, <3>1, <3>2 DEF DeletesFail
  <2>4. ListedInv'
    BY <2>1, <2>3, ListedStep DEF AloneInv
  <2>5. ShownInv'
    BY <2>1, <2>2, ShownStep DEF AloneInv
  <2> QED
    BY <2>1, <2>2, <2>4, <2>5 DEF AloneInv
<1>2. CASE UNCHANGED vars
  <2>1. [Next]_vars /\ readErrors' = readErrors /\ DeletesFail
    BY <1>2 DEF vars, DeletesFail
  <2>2. SoloInv /\ TypeOK /\ TypeOK'
    BY <2>1, TypeStep DEF AloneInv, LikesInv, SoloInv
  <2>3. Alone'
    BY <1>2, <2>2 DEF SoloInv, Alone, Running, vars, requestVars
  <2>4. LikesInv'
    BY <2>1, <2>3, AddsShown, LikesStep DEF AloneInv, LikesInv
  <2>5. ListedInv'
    BY <1>2, <2>1, <2>3, ListedStep DEF AloneInv, vars
  <2>6. UNCHANGED <<pc, text, row, shown, loop, front, writeErrors, deleted>>
    BY <1>2 DEF vars, requestVars
  <2>7. ShownInv'
    <3>1. Displayed => Displayed'
      BY <2>6 DEF Displayed, TurnShown, AskShown, Running
    <3> QED
      BY <2>6, <3>1 DEF AloneInv, ShownInv, FrontShows
  <2> QED
    BY <2>1, <2>4, <2>5, <2>7 DEF AloneInv
<1> QED
  BY <1>1, <1>2

LEMMA AloneInit == Init => AloneInv
<1> SUFFICES ASSUME Init PROVE AloneInv
  OBVIOUS
<1>1. ListedInv
  BY SoloInit DEF Init, ListedInv, DeletedInv, Requests
<1> QED
  BY <1>1, LikesInit, ShownInit DEF Init, AloneInv

\* A behaviour keeps its kind.
LEMMA KindOfStep ==
  ASSUME [MCNext]_mcVars, kind = "sequential"
  PROVE  kind' = "sequential" /\ (Sequential \/ UNCHANGED vars)
  BY DEF MCNext, mcVars, DocumentsAlone, documentVars

LEMMA KindStays == [MCNext]_mcVars => kind' = kind
  BY DEF MCNext, mcVars

\* A step of calls that overlap, and one of the tables that conversations do not share.
LEMMA OverlappingIs ==
  ASSUME [MCNext]_mcVars, kind # "sequential", SummariesInv
  PROVE  StartsNew /\ (DocumentsNext \/ UNCHANGED documentVars)
<1>1. TypeOK
  BY DEF SummariesInv, TurnsInv
<1>2. CASE (OtherCalls \/ DocumentsAlone) /\ SendsNew
  <2>1. DocumentsNext
    BY <1>2, TurnAssumption DEF DocumentsAlone, DocumentsNext, OtherCalls
  <2>2. StartsNew
    BY <1>1, <1>2, SentAlone DEF SendsNew, StartsNew
  <2> QED
    BY <2>1, <2>2
<1>3. CASE UNCHANGED documentVars
  <2>1. pc' = pc
    BY <1>3 DEF documentVars, vars, requestVars
  <2>2. ASSUME NEW r \in Turns, NEW sent \in Fronts, Start(r, sent) PROVE FALSE
    BY <1>1, <2>1, <2>2 DEF Start, TypeOK, Requests
  <2> QED
    BY <1>3, <2>2 DEF StartsNew
<1> QED
  BY <1>2, <1>3 DEF MCNext, mcVars

\* In the composition, too, the stored history is whole turns, each stored once.
THEOREM TurnsAsComposed == MCSpec => []WholeTurns
<1> DEFINE I == IF kind = "sequential" THEN AloneInv ELSE SummariesInv /\ SentNew
<1>1. MCInit => I
  BY AloneInit, SummariesInit DEF MCInit, DocumentsInit
<1>2. I /\ [MCNext]_mcVars => I'
  BY AloneStays, KindOfStep, KindStays, OverlappingIs, SummariesStep
<1>3. ASSUME NEW D, TurnsInv(D) PROVE WholeTurns
  BY <1>3 DEF TurnsInv, Base, Whole, WholeTurns, Greets, AsksAt
<1>4. I => WholeTurns
  BY <1>3 DEF AloneInv, LikesInv, SummariesInv
<1> HIDE DEF I
<1> QED
  BY <1>1, <1>2, <1>4, PTL DEF MCSpec, mcVars

\* Of calls that follow one another, of clients that send their new question or
\* all they display, deletes that fail included: reactions that were acknowledged
\* stay, a stored history is listed, and neither is left of what was deleted.
THEOREM AloneKeeps == MCSpec => []KeptAlone
<1> DEFINE I == kind = "sequential" => AloneInv
<1>1. MCInit => I
  BY AloneInit DEF MCInit, DocumentsInit
<1>2. I /\ [MCNext]_mcVars => I'
  BY AloneStays, KindOfStep, KindStays
<1>3. I => KeptAlone
  BY DEF AloneInv, ListedInv, DeletedInv, LikesInv, KeptAlone, LikeKept, Marked, NoOrphan,
         StaysDeleted, Running, Requests
<1> HIDE DEF I
<1> QED
  BY <1>1, <1>2, <1>3, PTL DEF MCSpec, mcVars

\* And no step but a delete removes a stored message.
THEOREM AloneLosesNothing == MCSpec => NothingLostAlone
<1> DEFINE I == kind = "sequential" => AloneInv
           Keep == kind = "sequential" /\ loop # "history" =>
                     \A i \in 1 .. Len(row) : \E j \in 1 .. Len(row') :
                         Key(row'[j]) = Key(row[i])
<1>1. MCInit => I
  BY AloneInit DEF MCInit, DocumentsInit
<1>2. I /\ [MCNext]_mcVars => I'
  BY AloneStays, KindOfStep, KindStays
<1>3. ASSUME I, [MCNext]_mcVars PROVE [Keep]_vars
  <2>1. SUFFICES ASSUME kind = "sequential", loop # "history", ~UNCHANGED vars
                 PROVE  Keys(row) \subseteq Keys(row')
    BY KeysCovered
  <2>2. Sequential /\ AloneInv
    BY <1>3, <2>1, KindOfStep
  <2>3. SoloInv /\ [Next]_vars
    BY <2>2, SequentialIsNext DEF AloneInv, LikesInv
  <2> QED
    BY <2>1, <2>3, NothingLostStep
<1>4. I /\ [MCNext]_mcVars => [Keep]_vars
  BY <1>3
<1> HIDE DEF I, Keep
<1>5. MCSpec => [][Keep]_vars
  BY <1>1, <1>2, <1>4, PTL DEF MCSpec, mcVars
<1> QED
  BY <1>5 DEF Keep, NothingLostAlone

\* What uploads and questions guarantee, in the composition: a recorded document can
\* be read, and a question is answered from those of its conversation.
THEOREM DocumentsAsComposed == MCSpec => [](RecordedTextExists /\ AnswersFromOwn)
<1>1. MCInit => SecondsInv
  BY DocumentsInitInv DEF MCInit
<1>2. ASSUME SecondsInv, [MCNext]_mcVars PROVE SecondsInv'
  <2>1. CASE Sequential \/ UNCHANGED documentVars
    BY <1>2, <2>1, OthersKeep DEF Sequential, documentVars, askVars
  <2>2. CASE DocumentsAlone \/ OtherCalls
    <3>1. DocumentsNext
      BY <2>2, TurnAssumption DEF DocumentsAlone, DocumentsNext, OtherCalls
    <3> QED
      BY <1>2, <3>1, DocumentsStep
  <2> QED
    BY <1>2, <2>1, <2>2 DEF MCNext, mcVars
<1>3. SecondsInv => RecordedTextExists /\ AnswersFromOwn
  BY DEF SecondsInv, TextsInv, AnswersFromOwn, SameSecond
<1> QED
  BY <1>1, <1>2, <1>3, PTL DEF MCSpec, mcVars

\* And what publishing and the parser guarantee: they know nothing of the rest.
THEOREM PublishingAsComposed == MCSpec => [](LiveWasStaged /\ RowsAsWritten) /\ UuidKept
<1>1. MCInit => PublishingInit
  BY DEF MCInit
<1>2. [MCNext]_mcVars => [PublishingNext]_publishingVars
  BY DEF MCNext, mcVars
<1>3. MCSpec => PublishingSpec
  BY <1>1, <1>2, PTL DEF MCSpec, mcVars, PublishingSpec
<1>4. MCInit => ParserInit
  BY DEF MCInit
<1>5. [MCNext]_mcVars => [ParserNext]_parserVars
  BY DEF MCNext, mcVars
<1>6. MCSpec => ParserSpec
  BY <1>4, <1>5, PTL DEF MCSpec, mcVars, ParserSpec
<1> QED
  BY <1>3, <1>6, NeverHalfPublished, LinksSurvive, RowsStayAsWritten, PTL
=============================================================================
