---------------------------- MODULE AdminRecords ----------------------------
(***************************************************************************)
(* The records administrators keep by hand: facilities (office/), contacts *)
(* (welfare_tel/), welfare centres (gsnd_office/) and the live services    *)
(* (wlf_srvc/).  Router, service and repository are alike in the four: one *)
(* connection per request, every statement committed by itself.  A         *)
(* behaviour uses one of the tables.                                       *)
(*                                                                         *)
(* A row is abstracted to the columns in which it agrees with what a       *)
(* reader lists: the value of an exact filter, or the keyword somewhere in *)
(* a searched column.  The reader walks the pages of one query until a     *)
(* page is not full, while administrators create, change and delete.  The  *)
(* total that goes with a page, counted by a statement before it, is left  *)
(* out.                                                                    *)
(***************************************************************************)
EXTENDS Naturals, FiniteSets, FiniteSetsExt

CONSTANTS Editors,      \* administrators
          PageSize,
          FirstRows,    \* bound: rows at first
          MaxEdits      \* bound: statements that change the table

ASSUME AdminAssumption == PageSize \in Nat \ {0} /\ FirstRows \in Nat /\ MaxEdits \in Nat

VARIABLES book,         \* which of the tables
          records,      \* records[id]: the columns in which the row agrees
          lastId,       \* the greatest id given so far
          edits,        \* statements so far that changed the table
          doing,        \* doing[e]: the next statement of administrator e
          query, page,  \* the listing that is walked, its next page; 0: over
          seen,         \* rows that the reader was shown
          stayed,       \* rows that have matched since the walk began
          departed      \* how many rows have left the listing since

adminVars == <<book, records, lastId, edits, doing, query, page, seen, stayed, departed>>

-------------------------------------------------------------------------------
\* The columns a listing may filter by, exactly or by keyword, and how an id
\* comes about: the database's next one, the creator's, or no creation at all.
OfficeColumns ==
    [exact |-> {"sigun", "facility_type", "facility_category", "category_large"},
     like |-> {"facility_name", "location", "refined_road_address", "tel"}, id |-> "auto"]
WelfareTelColumns ==
    [exact |-> {"region", "year"},
     like |-> {"project_name", "duties", "contact_dept"}, id |-> "auto"]
GsndOfficeColumns ==
    [exact |-> {"sigungu", "eupmyeondong"},
     like |-> {"center_nm", "address", "tel_no"}, id |-> "given"]
WlfSrvcColumns ==
    [exact |-> {"wlf_yr", "sigun_cd", "use_yn"},
     like |-> {"wlf_srvc_nm", "org_nm", "tkcg_dept"}, id |-> "none"]

Books == [office |-> OfficeColumns, welfare_tel |-> WelfareTelColumns,
          gsnd_office |-> GsndOfficeColumns, wlf_srvc |-> WlfSrvcColumns]

\* Rows agree in all columns or not in a searched one; listings are of all rows
\* or use every filter.
One(columns) == CHOOSE c \in columns : TRUE
Rows(b) == {Books[b].exact, Books[b].exact \cup {One(Books[b].like)}}
Queries(b) == {[exact |-> {}, keyword |-> FALSE], [exact |-> Books[b].exact, keyword |-> TRUE]}

AdminInit ==
    /\ book \in DOMAIN Books
    /\ records \in [1 .. FirstRows -> Rows(book)]
    /\ lastId = FirstRows
    /\ edits = 0
    /\ doing = [e \in Editors |-> [step |-> "idle", id |-> 0]]
    /\ query \in Queries(book)
    /\ page = 1
    /\ seen = {}
    /\ stayed = {i \in 1 .. FirstRows : /\ query.exact \subseteq records[i]
                                        /\ query.keyword => records[i] \cap Books[book].like # {}}
    /\ departed = 0

\* The WHERE clause: every exact filter, and the keyword in any searched column.
Matches(row) ==
    /\ query.exact \subseteq row
    /\ query.keyword => row \cap Books[book].like # {}

Matching(rows) == {i \in DOMAIN rows : Matches(rows[i])}

-------------------------------------------------------------------------------
FaultyOffset == page * PageSize
Offset == (page - 1) * PageSize

\* ORDER BY id DESC LIMIT page_size OFFSET offset.
ListPage ==
    /\ page > 0
    /\ LET Above(i) == Cardinality({j \in Matching(records) : j > i})
           items == {i \in Matching(records) :
                        Offset <= Above(i) /\ Above(i) < Offset + PageSize}
       IN  /\ seen' = seen \cup items
           /\ page' = IF Cardinality(items) = PageSize THEN page + 1 ELSE 0
    /\ UNCHANGED <<book, records, lastId, edits, doing, query, stayed, departed>>

-------------------------------------------------------------------------------
Then(e, next, id) == doing' = [doing EXCEPT ![e] = [step |-> next, id |-> id]]
At(e, next) == doing[e].step = next

\* A statement leaves the table as rows.
Change(rows) ==
    /\ edits < MaxEdits /\ edits' = edits + 1
    /\ records' = rows
    /\ stayed' = stayed \cap Matching(rows)
    /\ departed' = departed + Cardinality(Matching(records) \ Matching(rows))
    /\ UNCHANGED <<book, query, page, seen>>

Same == UNCHANGED <<book, records, lastId, edits, query, page, seen, stayed, departed>>

\* The row that was created or changed is read for the reply; 404 if it is gone.
Reread(e) == At(e, "reread") /\ Then(e, "idle", 0) /\ Same

Insert(e, id, row) ==
    /\ At(e, "idle")
    /\ id \notin DOMAIN records
    /\ Change([i \in DOMAIN records \cup {id} |-> IF i = id THEN row ELSE records[i]])
    /\ lastId' = Max({lastId, id})
    /\ Then(e, "reread", id)

\* create_record, where the database gives the id ...
Create(e) == Books[book].id # "none" /\ \E row \in Rows(book) : Insert(e, lastId + 1, row)
\* ... or the creator, any that is free.
CreateGiven(e) ==
    /\ Books[book].id = "given"
    /\ \E id \in 1 .. lastId + 2, row \in Rows(book) : Insert(e, id, row)

\* update_record and delete_record read the row first: 404 without it.  A change
\* without a field ends with 422.
Ask(e, id) ==
    /\ At(e, "idle")
    /\ id \in DOMAIN records
    /\ \E next \in {"update", "delete"} : Then(e, next, id)
    /\ Same

\* UPDATE of the fields sent, here one of them; no row, no change, no error.
Update(e, id) ==
    /\ At(e, "update") /\ doing[e].id = id
    /\ IF id \in DOMAIN records
         THEN \E c \in {One(Books[book].exact), One(Books[book].like)} :
              \E row \in {records[id] \cup {c}, records[id] \ {c}} :
                  Change([records EXCEPT ![id] = row])
         ELSE UNCHANGED <<book, records, edits, query, page, seen, stayed, departed>>
    /\ Then(e, "reread", id)
    /\ UNCHANGED lastId

Delete(e, id) ==
    /\ At(e, "delete") /\ doing[e].id = id
    /\ IF id \in DOMAIN records
         THEN Change([i \in DOMAIN records \ {id} |-> records[i]])
         ELSE UNCHANGED <<book, records, edits, query, page, seen, stayed, departed>>
    /\ Then(e, "idle", 0)
    /\ UNCHANGED lastId

AdminNext ==
    \/ ListPage
    \/ \E e \in Editors :
        \/ Create(e) \/ CreateGiven(e) \/ Reread(e)
        \/ \E id \in 1 .. lastId : Ask(e, id) \/ Update(e, id) \/ Delete(e, id)

AdminSpec == AdminInit /\ [][AdminNext]_adminVars

-------------------------------------------------------------------------------
\* Who walks the pages of a listing until one is not full has seen every row that
\* matched all the time, but for one per row that has left the listing on the
\* way: rows that are added meanwhile, at any place, only make it show some twice.
PagesCover == page = 0 => Cardinality(stayed \ seen) <= departed
=============================================================================
