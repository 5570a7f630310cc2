--------------------------- MODULE MCSharedState ---------------------------
(***************************************************************************)
(* TLC instance of what requests share besides locks and histories: the    *)
(* cached policy keywords and the response trace of a server process, and  *)
(* the tables administrators keep by hand.  They have nothing in common,   *)
(* so a behaviour uses one.  Of the keywords, two rows, so that one can be *)
(* switched off while the other keeps the version, the refresh thread and  *)
(* one search; of the trace, a streamed and a whole answer; of the tables, *)
(* more rows than a page and two administrators.                           *)
(***************************************************************************)
EXTENDS PolicyCache, ResponseTrace, AdminRecords

VARIABLE shared

MCInit ==
    /\ Init /\ TraceInit /\ AdminInit
    /\ shared \in {"keywords", "trace", "tables"}
    /\ shared # "tables" => book = "office" /\ query.keyword /\ Matching(records) = DOMAIN records

MCNext ==
    /\ \/ shared = "keywords" /\ Next /\ UNCHANGED <<traceVars, adminVars>>
       \/ shared = "trace" /\ TraceNext /\ UNCHANGED <<vars, adminVars>>
       \/ shared = "tables" /\ AdminNext /\ UNCHANGED <<vars, traceVars>>
    /\ UNCHANGED shared

\* PolicyCache's fairness, in the behaviours that use it.
MCSpec ==
    /\ MCInit /\ [][MCNext]_<<vars, traceVars, adminVars, shared>>
    /\ shared = "keywords" => Fairness
=============================================================================
