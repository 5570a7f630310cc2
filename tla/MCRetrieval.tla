----------------------------- MODULE MCRetrieval -----------------------------
(* Two turns over one thread pool. The first one asks any kind of question, *)
(* as preprocessing makes it of the models' replies; the second one talks,  *)
(* asks for local offices or picks a chip.                                  *)
EXTENDS RagTurns, Preprocess, TLC

CONSTANTS t1, t2, wanted, other, housing, jobs

Doc(home, weight, service, named, life, past, first, second) ==
    [home |-> home, weight |-> weight, service |-> service, named |-> named,
     life |-> life, disabled |-> home = "gov", past |-> past, fields |-> <<first, second>>,
     elsewhere |-> FALSE]
Elsewhere(d) == [d EXCEPT !.elsewhere = TRUE]

MCDocs == {
    Doc("okms", 9, wanted, FALSE, TRUE, FALSE, {}, {}),
    Doc("okms", 8, other,  TRUE,  TRUE, FALSE, {}, {}),
    Elsewhere(Doc("okms", 8, other, TRUE, TRUE, FALSE, {}, {})),
    Doc("gov",  7, other,  TRUE,  FALSE, FALSE, {}, {}),
    Doc("gsnd", 6, other,  TRUE,  TRUE, TRUE, {}, {}),
    Doc("center", 5, other, TRUE, TRUE, FALSE, {}, {}),
    Elsewhere(Doc("center", 5, other, TRUE, TRUE, FALSE, {}, {})),
    Doc("tel",  4, other,  TRUE,  TRUE, FALSE, {}, {}),
    Doc("local", 3, wanted, TRUE, FALSE, FALSE, {housing}, {jobs}),
    Doc("local", 2, other,  TRUE, TRUE,  FALSE, {housing}, {}),
    Doc("central", 1, other, TRUE, TRUE, FALSE, {}, {}),
    Doc("central", 0, wanted, TRUE, TRUE, FALSE, {jobs}, {}),
    Doc("central", 0, wanted, TRUE, TRUE, FALSE, {housing}, {})}

\* The text of jobs comes after that of housing, and an empty one before all.
MCPlace ==
    [s \in SUBSET Labels |->
        (IF jobs \in s THEN 0 ELSE 4) + (IF housing \in s THEN 0 ELSE 2)
        + (IF Other \in s THEN 0 ELSE 1)]

Silent  == [age |-> Unsaid, decade |-> Unsaid, stage |-> Unsaid, years |-> {}, disabled |-> FALSE]
Sixty   == [Silent EXCEPT !.decade = 60]
AnyYear == [Silent EXCEPT !.years = {ThisYear - 1, ThisYear}]
Born    == [Silent EXCEPT !.age = 60]

Meant(intent, target, exclusion, mustNot) ==
    [intent |-> intent, target |-> target, exclusion |-> exclusion, mustNot |-> mustNot]
Tagged(life, fields) == [life |-> life, fields |-> fields]

\* An answer to a message that follows an earlier one; one region is settled.
First(direct, message, said, tags) ==
    Asked(t1, <<Sixty, message>>, message, {"region"}, {other}, direct, said, tags)

Put(a, b) == t1 :> a @@ t2 :> b
Talking   == AskedTalk(t2, Silent)

\* Facilities, or the reply that cannot tell (or says so oddly).
Searches1 == {First(FALSE, AnyYear, Meant("search", w, "NONE", {}), Failed) :
                 w \in {"facility", "both", "odd", "missing"}}

\* Services, for every reason to leave something out.
Services1 ==
    {First(FALSE, AnyYear, Meant(i, "missing", x, {other}), Failed) :
        i \in {"general", "comparison", "guide_recommend", "odd"},
        x \in {"PURE_EXCLUSION", "ANCHOR_COMPARISON"}}
    \cup {First(FALSE, AnyYear, Failed, Tagged({"elderly"}, {}))}

Local2 ==
    Asked(t2, <<Silent>>, Silent, {"region"}, {}, FALSE, Meant("search", "office", "missing", {}),
          Failed)

\* Recommendations from the database: a stage of life or none, a field or none.
Recommended1 ==
    {First(TRUE, Born, Meant("guide_recommend", "missing", x, {other}), Tagged(life, fields)) :
        x \in {"SUBSTITUTION", "ANCHOR_COMPARISON"},
        life \in {{}, {"odd", "elderly"}}, fields \in {{}, {housing}, {"odd"}}}
    \cup {First(TRUE, Born, Meant("guide_recommend", "missing", "odd", {other}), Failed)}

MCAsks ==
    {Put(a, Talking) : a \in Searches1 \cup Services1}
    \cup {Put(a, Local2) : a \in {First(FALSE, AnyYear, Meant("comparison", "missing", "NONE", {}),
                                        Tagged({"elderly"}, {})),
                                  AskedPicked(t1, AnyYear, {"region"}, {other})}}
    \cup {Put(AskedPicked(t1, AnyYear, {"region"}, {}), Talking)}
    \cup {Put(a, AskedChip(t2, Silent)) : a \in Recommended1}
=============================================================================
