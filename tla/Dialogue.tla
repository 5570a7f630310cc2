------------------------------ MODULE Dialogue ------------------------------
(***************************************************************************)
(* How a chat turn is decided: search, answer directly, refuse, or ask the *)
(* user back for a clarification, a region or a topic.  The server keeps   *)
(* no dialogue state.  Whether a message answers a question, how often the *)
(* region was asked for and which round of topic questions is next are     *)
(* recounted in every turn from the stored messages, and each exit decides *)
(* for itself whether the turn is stored.                                  *)
(*                                                                         *)
(* The turns of one conversation follow one another, and the client sends  *)
(* its new question only.  The stored messages are kept as what the        *)
(* functions that read them tell apart (row), a text as what it names.     *)
(* Whatever a language model decides or writes is a choice.                *)
(***************************************************************************)
EXTENDS Naturals, FiniteSets

CONSTANTS Regions,    \* cities and counties of the province
          Inputs,     \* texts that a user types
          Outputs,    \* texts that a language model makes of a question
          Modes,      \* "chat" streaming, "plain" not streaming, "guide" and
                      \* "follow" the recommendation endpoints, "chip" a field
                      \* picked from a recommendation
          MaxAsks,    \* MAX_SIGUN_ASK_ATTEMPTS
          Rounds,     \* len(TOPIC_ASK_MESSAGES)
          MaxLost     \* bound: turns that should be stored and are not

\* What a text names: regions, the regions that have a place of the name it
\* mentions, a topic, a region outside of the province.
Texts == [regions : SUBSET Regions, place : SUBSET Regions,
          topic : BOOLEAN, outside : BOOLEAN]

NoRegion == "no region"

ASSUME DialogueAssumption ==
    /\ IsFiniteSet(Regions) /\ NoRegion \notin Regions
    /\ Inputs \subseteq Texts /\ Outputs \subseteq Texts
    /\ Modes \subseteq {"chat", "plain", "guide", "follow", "chip"}
    /\ MaxAsks \in Nat /\ Rounds \in Nat /\ MaxLost \in Nat

VARIABLES row,        \* the stored messages
          pc,         \* the next decision of the turn; "idle": no turn
          mode,       \* the endpoint of the turn, or "none"
          typed,      \* original_user_message
          query,      \* user_message: rewritten, or the label of the chip
          filters,    \* resolved_sigun_filters
          reply,      \* how the last turn ended
          lost,       \* turns whose save was lost
          asked,      \* region questions that turns of the chat mode ended with
          seen,       \* rounds of topic questions put, Rounds + 1 the dead end
          told,       \* a stored turn of the chat mode named a region
          streak      \* questions back in a row, in the chat mode, to a user
                      \* who names region and topic

turnVars == <<pc, mode, typed, query, filters>>
countVars == <<asked, seen, told, streak>>
vars == <<row, turnVars, reply, lost, countVars>>

\* An assistant message: what it is, whether it ends with a question mark, and
\* the region its text or its referenced documents name first.
Kinds == {"blank", "clarify", "region", "topic", "giveUp", "outside", "direct", "answer"}
Message(kinds) == [kind : kinds, question : BOOLEAN, region : Regions \cup {NoRegion}]

\* Stored, only an empty one and a topic question are told from the others.
StoredKinds == {"blank", "topic", "other"}

Rows == [length : 0 .. 4, asks : 0 .. MaxAsks, topics : 0 .. Rounds,
         named : SUBSET Regions, user : Texts, last : Message(StoredKinds)]

TypeOK ==
    /\ row \in Rows
    /\ pc \in {"idle", "limit", "chip", "precheck", "ask", "direct", "early", "topic",
               "rewrite", "outside", "late", "guide", "search"}
    /\ mode \in Modes \cup {"none"}
    /\ typed \in Texts /\ query \in Texts
    /\ filters \in SUBSET Regions
    /\ reply \in Kinds \cup {"refused", "error", "none"}
    /\ lost \in 0 .. MaxLost
    /\ asked \in Nat
    /\ seen \in SUBSET (1 .. Rounds + 1)
    /\ told \in BOOLEAN
    /\ streak \in Nat

-----------------------------------------------------------------------------
\* Operators named Faulty... are plausible bugs, never used by Spec: each run's
\* properties must reject the specification in which one replaces the
\* definition that follows it.

Nothing == [regions |-> {}, place |-> {}, topic |-> FALSE, outside |-> FALSE]
Fixed(kind) == [kind |-> kind, question |-> FALSE, region |-> NoRegion]

\* A new conversation, or one created with the greeting, which is empty.
Init ==
    /\ row \in [length : {0, 1}, asks : {0}, topics : {0}, named : {{}},
                user : {Nothing}, last : {Fixed("blank")}]
    /\ pc = "idle"
    /\ mode = "none"
    /\ typed = Nothing /\ query = Nothing
    /\ filters = {}
    /\ reply = "none"
    /\ lost = 0
    /\ asked = 0
    /\ seen = {}
    /\ told = FALSE
    /\ streak = 0

\* is_clarification_answer: the last stored answer ends with a question mark.
Clarifying == row.last.question

\* last_assistant_is_topic_ask.
TopicFollowup == row.last.kind = "topic"

\* get_second_last_user_message: there is an earlier question.
HasEarlier == row.length >= 2

\* is_low_info_query: no noun but generic ones.
LowInfo(t) == t = Nothing

-----------------------------------------------------------------------------
\* The end of a turn.

AtMost(n, bound) == IF n < bound THEN n ELSE bound

AsStored(answer) == [answer EXCEPT !.kind = IF @ \in StoredKinds THEN @ ELSE "other"]

FaultyStored(text, answer) ==
    [length |-> AtMost(row.length + 2, 4),
     asks   |-> row.asks,
     topics |-> AtMost(row.topics + (IF answer.kind = "topic" THEN 1 ELSE 0), Rounds),
     named  |-> row.named \cup text.regions, user |-> text, last |-> AsStored(answer)]

\* The stored messages with a turn more.  The code compares the length with 4
\* and the number of topic questions with Rounds only.
Stored(text, answer) ==
    [length |-> AtMost(row.length + 2, 4),
     asks   |-> row.asks + (IF answer.kind = "region" THEN 1 ELSE 0),
     topics |-> AtMost(row.topics + (IF answer.kind = "topic" THEN 1 ELSE 0), Rounds),
     named  |-> row.named \cup text.regions,
     user   |-> text,
     last   |-> AsStored(answer)]

FaultyStoredText == query

\* _save_chat_history puts the original question back, but the search without
\* streaming stores the rewritten one, and a chip its label.
StoredText ==
    IF mode = "chip" \/ (mode = "plain" /\ pc = "search") THEN query ELSE typed

FaultyRound == AtMost(row.topics + row.asks, Rounds) + 1

\* _select_topic_ask_message: the question after those already asked.
Round == AtMost(row.topics, Rounds) + 1

\* A question back that the next turn recognises as one.
NamesAll(t) == t.regions # {} /\ t.topic
AskedBack(answer) ==
    answer.kind \in {"region", "topic"} \/ (answer.kind = "clarify" /\ answer.question)

\* What the properties count.
Counted(answer) ==
    /\ seen' = IF answer.kind = "topic" THEN seen \cup {Round} ELSE seen
    /\ asked' = IF mode = "chat" /\ answer.kind = "region" THEN asked + 1 ELSE asked
    /\ streak' = IF mode = "chat" /\ NamesAll(typed) /\ AskedBack(answer)
                 THEN streak + 1 ELSE 0

\* What a turn worked out ends with it.
Forgotten ==
    /\ mode' = "none"
    /\ typed' = Nothing /\ query' = Nothing /\ filters' = {}

\* The turn ends with an answer that is stored, unless the reader goes away at
\* the wrong time or the database fails.
EndStored(answer) ==
    /\ pc' = "idle" /\ reply' = answer.kind
    /\ Counted(answer)
    /\ \/ /\ row' = Stored(StoredText, answer)
          /\ told' = (told \/ (mode = "chat" /\ typed.regions # {}))
          /\ UNCHANGED lost
       \/ /\ lost < MaxLost /\ lost' = lost + 1
          /\ UNCHANGED <<row, told>>
    /\ Forgotten

EndUnstored(answer) ==
    /\ pc' = "idle" /\ reply' = answer.kind
    /\ Counted(answer)
    /\ UNCHANGED <<row, lost, told>>
    /\ Forgotten

\* The reply says only that something went wrong or is overloaded.
EndWith(what) ==
    /\ pc' = "idle" /\ reply' = what
    /\ streak' = 0
    /\ UNCHANGED <<row, lost, asked, seen, told>>
    /\ Forgotten

Goto(step) ==
    /\ pc' = step
    /\ UNCHANGED <<row, mode, typed, query, filters, reply, lost, countVars>>

\* What a language model writes; never the phrases by which a stored message is
\* taken for a topic question.
Written(kind) == Message({kind})

-----------------------------------------------------------------------------
\* The region of a turn.

\* extract_sigun_from_history: what any user message named, this one included,
\* which a chip's label has not replaced.
History(t) == row.named \cup t.regions \cup (IF mode = "chip" THEN typed.regions ELSE {})

\* extract_sigun_from_last_assistant_context: at most one region.
FromAnswer == {row.last.region} \ {NoRegion}

\* check_sigun: the regions to search; none if the user must be asked.
CheckSigun(t) ==
    IF t.regions # {} THEN t.regions
    ELSE IF Cardinality(History(t)) > 1 /\ FromAnswer # {} THEN FromAnswer
    ELSE IF History(t) # {} THEN History(t)
    ELSE IF FromAnswer # {} THEN FromAnswer
    ELSE IF Cardinality(t.place) = 1 THEN t.place
    ELSE {}

\* The question lists the regions that have the place, if there are several.
RegionQuestion(t) ==
    [kind |-> "region", question |-> TRUE,
     region |-> IF t.place = {} THEN NoRegion ELSE CHOOSE r \in t.place : TRUE]

Enough == row.asks >= MaxAsks

\* A region that cannot be found is asked for, or given up after MaxAsks
\* stored questions.  Only the streaming flow stores either reply.
AskRegion(t) ==
    LET answer == IF Enough THEN Fixed("giveUp") ELSE RegionQuestion(t)
    IN  IF mode = "chat" THEN EndStored(answer) ELSE EndUnstored(answer)

Found(regions, step) ==
    /\ filters' = regions /\ pc' = step
    /\ UNCHANGED <<row, mode, typed, query, reply, lost, countVars>>

-----------------------------------------------------------------------------
\* The decisions of a turn, in their order.

Route(m) == CASE m = "chip" -> "chip"
              [] m \in {"guide", "follow"} -> "guide"
              [] OTHER -> "precheck"

\* Only new questions pass the limit of users.
Start ==
    /\ pc = "idle"
    /\ \E m \in Modes, t \in Inputs :
          /\ mode' = m /\ typed' = t /\ query' = t
          /\ pc' = IF Clarifying THEN Route(m) ELSE "limit"
    /\ reply' = "none"
    /\ UNCHANGED <<row, filters, lost, countVars>>

Admit ==
    /\ pc = "limit"
    /\ Goto(Route(mode))

Refuse ==
    /\ pc = "limit"
    /\ EndWith("refused")

\* A picked chip is searched for as it is: its label names a field, and the region
\* comes with it, if the answer that offered it had one.
Label == [Nothing EXCEPT !.topic = TRUE]

Chip ==
    /\ pc = "chip"
    /\ pc' = "guide"
    /\ query' = Label
    /\ \E region \in SUBSET Regions : Cardinality(region) <= 1 /\ filters' = region
    /\ UNCHANGED <<row, mode, typed, reply, lost, countVars>>

\* pre_check: whether to search, and a question back, which is dropped if there
\* is nothing to search.  A judgment that fails means: search, and do not ask.
Judgments == {[search |-> s, question |-> s /\ q] : s, q \in BOOLEAN}

FaultyPreCheck ==
    /\ pc = "precheck"
    /\ \E j \in Judgments :
          Goto(IF j.question THEN "ask" ELSE IF ~j.search THEN "direct"
               ELSE IF Clarifying THEN "early" ELSE "topic")

\* run_pre_check, skipped when a question back is being answered.
PreCheck ==
    /\ pc = "precheck"
    /\ IF Clarifying THEN Goto("early")
       ELSE \E j \in Judgments :
              Goto(IF j.question THEN "ask" ELSE IF j.search THEN "topic" ELSE "direct")

AskBack ==
    /\ pc = "ask"
    /\ \E answer \in Written("clarify") : EndStored(answer)

\* No search needed.  Only the streaming flow stores the answer, or an empty
\* one if the language model fails.
Direct ==
    /\ pc = "direct"
    /\ \/ \E answer \in Written("direct") :
             IF mode = "chat" THEN EndStored(answer) ELSE EndUnstored(answer)
       \/ IF mode = "chat" THEN EndStored(Fixed("blank")) ELSE EndWith("error")

FaultyEarlyRegion ==
    /\ pc = "early"
    /\ IF CheckSigun(typed) = {} THEN AskRegion(typed) ELSE Goto("topic")

\* run_early_sigun_check: before a language model rewrites the answer.
EarlyRegion ==
    /\ pc = "early"
    /\ IF CheckSigun(typed) = {} THEN AskRegion(typed)
       ELSE Found(CheckSigun(typed), "topic")

\* The text that must name a topic: the reply to a topic question, otherwise
\* the question before the one that was asked back.
TopicBase == IF TopicFollowup \/ ~HasEarlier THEN typed ELSE row.user

\* run_topic_clarify_check.
TopicCheck ==
    /\ pc = "topic"
    /\ IF (Clarifying \/ TopicFollowup) /\ LowInfo(TopicBase)
       THEN EndStored(Fixed("topic"))
       ELSE Goto("rewrite")

\* An answer and the question before, joined when the language model fails.
Combined ==
    [regions |-> typed.regions \cup row.user.regions,
     place |-> IF typed.place # {} THEN typed.place ELSE row.user.place,
     topic |-> typed.topic \/ row.user.topic,
     outside |-> typed.outside \/ row.user.outside]

\* _run_query_recreation of an answer or of a short question, if there is an
\* earlier question and an answer to it.
MayRewrite ==
    /\ Clarifying \/ row.length >= 4
    /\ HasEarlier /\ row.last.kind # "blank"

\* query_recreation, when it does not fail: whatever the language model makes of
\* the question and the dialogue.
Recreates(text) == MayRewrite /\ text \in Outputs

Rewrite ==
    /\ pc = "rewrite"
    /\ pc' = "outside"
    /\ \/ Recreates(query')
       \/ MayRewrite /\ Clarifying /\ query' = Combined
       \/ ~(MayRewrite /\ Clarifying) /\ query' = query
    /\ UNCHANGED <<row, mode, typed, filters, reply, lost, countVars>>

\* run_out_of_scope_check.
Outside ==
    /\ pc = "outside"
    /\ IF query.outside THEN EndStored(Fixed("outside")) ELSE Goto("late")

\* run_sigun_check, unless the early check has found the regions.
LateRegion ==
    /\ pc = "late"
    /\ IF filters # {} THEN Goto("search")
       ELSE IF CheckSigun(query) = {} THEN AskRegion(query)
       ELSE Found(CheckSigun(query), "search")

\* _handle_rag_mode of the recommendation endpoints, which go there directly,
\* and of a chip without a region.  A follow-up question is searched without a
\* region if there is none.
Guide ==
    /\ pc = "guide"
    /\ IF filters # {} THEN Goto("search")
       ELSE IF mode # "follow" /\ CheckSigun(query) = {} THEN AskRegion(query)
       ELSE Found(CheckSigun(query), "search")

\* The answer is stored with its cards; those of a chip are the field's.
Answered == \E answer \in Written("answer") : EndStored(answer)

\* After a failure the streaming flow stores an empty answer.
SearchFails == IF mode = "chat" THEN EndStored(Fixed("blank")) ELSE EndWith("error")

Search == pc = "search" /\ (Answered \/ SearchFails)

Next ==
    \/ Start \/ Admit \/ Refuse \/ Chip \/ PreCheck \/ AskBack \/ Direct \/ EarlyRegion
    \/ TopicCheck \/ Rewrite \/ Outside \/ LateRegion \/ Guide \/ Search

Spec == Init /\ [][Next]_vars

-----------------------------------------------------------------------------
\* Properties.

\* The region is asked for at most MaxAsks times in a conversation, however the
\* user answers and whatever other turns come in between, apart from questions
\* whose save was lost: every exit of the streaming flow that asks stores its
\* question, and count_sigun_ask_attempts finds it.
AskedAtMost == asked <= MaxAsks + lost

\* The dead end comes only after all topic questions, and these come in their
\* order, whatever was asked in between: no exit that asks for a topic forgets
\* to store its question (_select_topic_ask_message).
RoundsInOrder == \A n \in seen : 1 .. n \subseteq seen

\* A region that a user typed in a stored turn is not forgotten: no later turn
\* of any mode asks for a region, although stored texts may be rewritten ones.
Remembered == [][told /\ pc # "idle" /\ pc' = "idle" =>
                    reply' \notin {"region", "giveUp"}]_vars

\* The regions named in the answer to a question back are those searched, not
\* more and not less, although a language model rewrites the answer on the way.
AnswerDecides ==
    pc = "search" /\ mode \in {"chat", "plain"} /\ Clarifying /\ typed.regions # {} =>
        filters = typed.regions

\* A user of the chat mode who names region and topic in every message is asked
\* back at most twice in a row (lost saves apart): once because of the question
\* before, and once because a language model finds the message unclear or loses
\* its region.
StreakBound == streak <= 2 + lost
=============================================================================
