----------------------------- MODULE MCDialogue -----------------------------
(* TLC instance of Dialogue: two regions, so that a place is ambiguous and a *)
(* conversation can name several.                                           *)
EXTENDS Dialogue
CONSTANTS r1, r2
Text(regions, place, topic, outside) ==
    [regions |-> regions, place |-> place, topic |-> topic, outside |-> outside]
MCInputs == {Nothing,
             Text({}, {}, TRUE, FALSE),          \* a topic
             Text({r1}, {}, TRUE, FALSE),        \* both
             Text({r2}, {}, TRUE, FALSE),        \* both, another region
             Text({}, {r1, r2}, TRUE, FALSE),    \* a place in either region
             Text({}, {}, TRUE, TRUE)}           \* a region elsewhere
\* A rewriting keeps, changes or drops the region.
MCOutputs == {Text({}, {}, TRUE, FALSE), Text({r1}, {}, TRUE, FALSE), Text({r2}, {}, FALSE, FALSE),
              Text({r1, r2}, {}, TRUE, FALSE), Text({}, {r1}, TRUE, FALSE), Text({}, {}, TRUE, TRUE)}
=============================================================================
