------------------------------ MODULE Preprocess ------------------------------
(***************************************************************************)
(* What the pipelines are told about a question. chat/preprocessing.py     *)
(* asks two models at once, one for the intent and for what is to be left  *)
(* out, one for the asker's situation, and puts their replies right. Where *)
(* the second fails, rules read what the user wrote.                       *)
(*                                                                         *)
(* A reply may hold anything: a word that is on none of the code's lists   *)
(* is "odd", a key that is absent or null is "missing", and a reply that   *)
(* never came or is no JSON, from the small model or the large one, is     *)
(* Failed.                                                                 *)
(***************************************************************************)
EXTENDS Retrieval

CONSTANTS
    ThisYear,   \* the current year
    Unsaid,     \* the user did not say
    Failed      \* no meant

Stages == {"infant", "child", "youth", "young adult", "middle aged", "elderly",
           "expecting"}

\* What the rules read in a text: an age (or a year of birth), an age by its
\* decade, a word for a stage of life, years, and a word for disability.
Texts == [age : Nat \cup {Unsaid}, decade : Nat \cup {Unsaid},
          stage : Stages \cup {Unsaid}, years : SUBSET Nat, disabled : BOOLEAN]

Intents == {"general", "comparison", "guide_recommend", "search"}
Targets == {"facility", "office", "both"}
Exclusions == {"NONE", "PURE_EXCLUSION", "ANCHOR_COMPARISON", "RESIDUAL_CATEGORY",
               "SUBSTITUTION"}

\* Replies of the two models, as far as a pipeline depends on them.
Replies == [intent : Intents \cup {"odd", "missing"}, target : Targets \cup {"odd", "missing"},
            exclusion : Exclusions \cup {"odd", "missing"}, mustNot : SUBSET Services]
Tags == [life : SUBSET (Stages \cup {"odd"}), fields : SUBSET (Topics \cup {"odd"})]

-----------------------------------------------------------------------------
(* The rules.                                                              *)

StageOfAge(age) ==
    CASE age <= 5  -> "infant"
      [] age > 5 /\ age <= 12 -> "child"
      [] age > 12 /\ age < 18 -> "youth"
      [] age >= 18 /\ age <= 39 -> "young adult"
      [] age > 39 /\ age <= 64 -> "middle aged"
      [] OTHER -> "elderly"

\* A word, or else "in one's sixties" and the like.
StageRead(text) ==
    CASE text.stage # Unsaid -> text.stage
      [] text.stage = Unsaid /\ text.decade = Unsaid -> Unsaid
      [] OTHER -> CASE text.decade >= 60 -> "elderly"
                    [] text.decade \in 40 .. 59 -> "middle aged"
                    [] text.decade \in 20 .. 39 -> "young adult"
                    [] text.decade \in 10 .. 19 -> "youth"
                    [] OTHER -> Unsaid

\* The newest of the user's messages that says anything.
StageOfHistory(texts) ==
    LET told == [i \in DOMAIN texts |-> IF texts[i].age # Unsaid THEN StageOfAge(texts[i].age)
                                         ELSE StageRead(texts[i])]
        said == {i \in DOMAIN texts : told[i] # Unsaid}
    IN  IF said = {} THEN Unsaid
        ELSE told[CHOOSE i \in said : \A k \in said : k <= i]

\* Message, history, rewritten question: the first that says anything.
StageByRules(message, texts, rewritten) ==
    CASE message.age # Unsaid -> StageOfAge(message.age)
      [] message.age = Unsaid /\ StageRead(message) # Unsaid -> StageRead(message)
      [] OTHER -> IF StageOfHistory(texts) # Unsaid THEN StageOfHistory(texts)
                  ELSE StageRead(rewritten)

\* No year named is the current one.
YearsOf(text) == IF text.years = {} THEN {ThisYear} ELSE text.years

-----------------------------------------------------------------------------
(* The replies put right.                                                  *)

IntentOf(meant) == IF meant.intent \in Intents THEN meant.intent ELSE "general"

TargetOf(meant) ==
    CASE IntentOf(meant) # "search" -> "none"
      [] OTHER -> IF meant.target \in Targets THEN meant.target ELSE "both"

ExclusionOf(meant) == IF meant.exclusion \in Exclusions THEN meant.exclusion ELSE "NONE"

\* A comparison with an anchor rules nothing out, whatever the model lists.
MustNotOf(meant) == IF ExclusionOf(meant) = "ANCHOR_COMPARISON" THEN {} ELSE meant.mustNot

Fallback == [intent |-> "general", target |-> "none", mustNot |-> {}]

\* unified_preprocess.
Unified(meant) ==
    IF meant = Failed THEN Fallback
    ELSE [intent |-> IntentOf(meant), target |-> TargetOf(meant), mustNot |-> MustNotOf(meant)]

LifeOf(tags)   == tags.life \cap Stages
FieldsOf(tags) == tags.fields \cap Topics

\* classify_query_tags: a failure leaves the stage of life unknown (None), but
\* the fields empty.
Classified(tags) ==
    IF tags = Failed THEN [life |-> Failed, fields |-> {}]
    ELSE [life |-> LifeOf(tags), fields |-> FieldsOf(tags)]

-----------------------------------------------------------------------------
(* The question a pipeline gets.                                           *)

\* Which pipeline answers an intent: recommendations come from the database,
\* or from Mariner when that is switched off.
Pipeline(intent, direct) ==
    IF intent = "guide_recommend" THEN (IF direct THEN "recommend" ELSE "guide") ELSE intent

\* Only the branch over Mariner falls back on the rules.
LifeKnown(intent, life, ruled) ==
    IF life = Failed THEN intent # "recommend" /\ ruled # Unsaid ELSE life # {}

\* The question of a turn t: the user's texts, the last one of which is put
\* now, its rewritten form, the regions settled before, and the replies.
Asked(t, texts, rewritten, regions, referred, direct, meant, tags) ==
    LET message == texts[Len(texts)]
        unified == Unified(meant)
        tagged  == Classified(tags)
        intent  == Pipeline(unified.intent, direct)
    IN  [intent |-> intent, target |-> unified.target, ruledOut |-> unified.mustNot,
         region |-> regions # {},
         thisYear |-> intent = "guide" \/ YearsOf(message) = {ThisYear},
         life |-> LifeKnown(intent, tagged.life, StageByRules(message, texts, rewritten)),
         disabled |-> \E i \in DOMAIN texts : texts[i].disabled,
         referred |-> referred,
         topic |-> IF tagged.fields = {} THEN NoTopic ELSE CHOOSE f \in tagged.fields : TRUE,
         from |-> t]

\* A recommended question that was picked is put without either model.
AskedPicked(t, text, regions, referred) ==
    [Asked(t, << text >>, text, regions, referred, TRUE, Failed, Failed)
        EXCEPT !.intent = "picked"]

\* Small talk: the check before (pre_check) found nothing to search for.
AskedTalk(t, text) ==
    [Asked(t, << text >>, text, {}, {}, TRUE, Failed, Failed) EXCEPT !.intent = "talk"]

\* A chip is picked; PickChip fills in the slots.
AskedChip(t, text) ==
    [Asked(t, << text >>, text, {}, {}, TRUE, Failed, Failed) EXCEPT !.intent = "pick"]
=============================================================================
