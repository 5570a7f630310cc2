---------------------------- MODULE MCDocuments ----------------------------
(***************************************************************************)
(* TLC instance of histories and of what is uploaded: behaviours of five   *)
(* kinds.                                                                  *)
(*   "sequential"  turns, a question, feedback and deletes one after the   *)
(*                 other, of clients that send their new question or all   *)
(*                 they show; only a delete may fail, and what is sent     *)
(*                 after that is new: what it left displayed would be      *)
(*                 stored anew, behind what followed it;                   *)
(*   "turns"       two turns, feedback and a delete at once, with a        *)
(*                 failing read and a failing write of the history;        *)
(*   "documents"   one turn, one question and two uploads, one of them of  *)
(*                 another conversation, with MaxFaults failures in all;   *)
(*   "publishing"  the staging and live tables, which share nothing with   *)
(*                 conversations;                                          *)
(*   "parsing"     a file of welfare services, or the application period   *)
(*                 of one; its rows are those of Publishing.               *)
(***************************************************************************)
EXTENDS Documents, Publishing, WelfareParser, TLC

CONSTANTS MaxFaults,  \* bound: failures in a behaviour of kind "documents"
          OneTurn     \* the turn of that kind

ASSUME TurnAssumption == OneTurn \in Turns

VARIABLE kind

\* Tables of a file: services whose contact is complete, refers to an annex, is
\* continued by one or given twice, with a department first or twice, and lists
\* and notes with and without phone numbers.
Cell(field, cell) == [field |-> field, cell |-> cell]
Named(rows) == <<Cell("name", "text")>> \o rows
ServiceOf(rows) == Named(Append(rows, Cell("dept", "text")))

Sheets ==
    {ServiceOf(<< >>),
     ServiceOf(<<Cell("contact", "phone")>>),
     ServiceOf(<<Cell("contact", "annex")>>),
     ServiceOf(<<Cell("contact", "phone"), Cell("more", "annex"), Cell("more", "phone")>>),
     ServiceOf(<<Cell("contact", "annex"), Cell("period", "text"), Cell("more", "text"),
                 Cell("contact", "phone")>>),
     Named(<<Cell("dept", "phone"), Cell("contact", "annex"), Cell("dept", "text")>>),
     Named(<<Cell("dept", "text"), Cell("more", "phone")>>),
     <<Cell("more", "phone"), Cell("contact", "annex")>>,
     <<Cell("more", "text"), Cell("more", "phone")>>,
     <<Cell("contact", "phone"), Cell("name", "text"), Cell("dept", "text")>>}

Dated(y, m, d) ==
    [year |-> y, month |-> m, day |-> d, middle |-> FALSE, upto |-> FALSE, nextYear |-> FALSE]
UpTo(d) == [d EXCEPT !.upto = TRUE]

\* Dates with and without year and day, two digits that are a month, no dates, and
\* ranges that end before they start.
NamedDates ==
    {Dated(0, 3, 0), Dated(0, 11, 5), Dated(2027, 2, 0), Dated(3, 40, 0), Dated(3, 30, 0),
     [Dated(26, 2, 0) EXCEPT !.middle = TRUE], Dated(0, 2, 29), Dated(0, 11, 2),
     Dated(0, 11, 3), UpTo(Dated(0, 11, 20)), UpTo(Dated(2027, 3, 30)),
     UpTo(Dated(0, 14, 0)), UpTo(Dated(0, 12, 0)),
     [UpTo(Dated(0, 11, 20)) EXCEPT !.nextYear = TRUE]}

MCInit ==
    /\ DocumentsInit /\ PublishingInit /\ ParserInit
    /\ kind \in {"sequential", "turns", "documents", "publishing", "parsing"}
    /\ kind # "publishing" => live = {}
    /\ kind \in {"publishing", "parsing"} => ~listed

\* One request at a time, and none while feedback or a delete is running.
Alone ==
    /\ \A r, o \in Requests : Running(r) /\ Running(o) => r = o
    /\ loop \in {"feedback", "history", "listing"} => \A r \in Requests : ~Running(r)

Sequential ==
    /\ \/ \E r \in Turns : TurnNext(r)
       \/ \E q \in Questions : AskNext(q)
       \/ FeedbackNext \/ DeleteNext
    /\ Alone'
    /\ readErrors' = 0
    /\ writeErrors' # writeErrors => loop \in {"history", "listing"}
    /\ writeErrors > 0 => \A r \in Turns : pc[r] = "new" => Len(front'[r]) <= 1
    /\ \A i \in DOMAIN shown' : shown'[i].text # "apology"
    /\ UNCHANGED <<fileVars, extractVars, askVars, docErrors>>

\* Clients of overlapping calls send their new question.
SendsNew == \A r \in Turns : Len(front'[r]) <= 1

DocumentsAlone ==
    /\ kind = "documents"
    /\ \/ \E u \in Uploads : Upload(u) \/ ExtractNext(u)
       \/ \E q \in Questions : QuestionNext(q)
       \/ \E r \in {OneTurn} : TurnNext(r) /\ UNCHANGED <<fileVars, extractVars, askVars, docErrors>>
    /\ docErrors' + readErrors' + writeErrors' <= MaxFaults

MCNext ==
    /\ \/ /\ \/ kind = "sequential" /\ Sequential
             \/ kind = "turns" /\ OtherCalls /\ SendsNew
             \/ DocumentsAlone /\ SendsNew
          /\ UNCHANGED <<publishingVars, parserVars>>
       \/ kind = "publishing" /\ PublishingNext /\ UNCHANGED <<documentVars, parserVars>>
       \/ /\ kind = "parsing" /\ ParserNext
          /\ dates' = << >> \/ (read' = << >> /\ ~broken')
          /\ UNCHANGED <<documentVars, publishingVars>>
    /\ UNCHANGED kind

MCSpec == MCInit /\ [][MCNext]_<<documentVars, publishingVars, parserVars, kind>>

-------------------------------------------------------------------------------
\* What calls that follow one another guarantee (ChatHistory); overlapping ones
\* do not, nor overwrites that fail, which are only logged.

\* Nothing that was stored is lost.
NothingLostAlone ==
    [][kind = "sequential" /\ loop # "history" =>
         \A i \in 1 .. Len(row) : \E j \in 1 .. Len(row') :
             Key(row'[j]) = Key(row[i])]_vars

\* A reaction that was acknowledged stays, through turns and questions that follow;
\* a stored history is listed, so its owner can see and delete it; and neither is
\* left of a deleted conversation.
KeptAlone == kind = "sequential" => LikeKept /\ NoOrphan /\ StaysDeleted

Sym == Permutations(Orgs) \cup Permutations(Years) \cup Permutations(Admins)
=============================================================================
