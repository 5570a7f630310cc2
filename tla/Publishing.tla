----------------------------- MODULE Publishing -----------------------------
(***************************************************************************)
(* The welfare services of parsing/: an upload parses files and puts their *)
(* services in a staging table, operators correct or delete rows there,    *)
(* and publishing copies whole organisations to the table that searches    *)
(* and downloads use.                                                      *)
(*                                                                         *)
(* Each request is one transaction on a connection of its own.  A handler  *)
(* never waits once it has read the request, so the requests of a process  *)
(* follow one another; those of several processes (Admins) interleave      *)
(* between statements.  InnoDB is modelled by what these statements need   *)
(* of it: plain reads see what is committed; a DELETE by organisation      *)
(* scans the table, which has no index for it, and locks it to the end of  *)
(* the transaction; INSERT ... SELECT reads the latest committed rows and  *)
(* waits for a lock on them.  A wait may end with an error instead.  What  *)
(* a transaction writes after it holds its locks is written at its commit. *)
(*                                                                         *)
(* A row stands for the services that one file has for one year.  Which    *)
(* file they come from is the number of the upload, and so is the file id  *)
(* (UUID_NM) a row links to.  HWPX_DELETE_EXISTING keeps its default.      *)
(***************************************************************************)
EXTENDS Integers, FiniteSets

CONSTANTS Orgs,          \* ORG_NM: the name of an uploaded file
          Years,         \* WLF_YR
          Admins,        \* processes that serve a request each
          MaxUploads,    \* bound: uploads
          MaxPublished,  \* bound: requests to publish
          MaxCorrected,  \* bound: corrections and deletions of rows
          MaxDbErrors    \* bound: failing statements

ASSUME PublishingAssumption ==
    {MaxUploads, MaxPublished, MaxCorrected, MaxDbErrors} \subseteq Nat

VARIABLES temp,       \* HWPX_TARGET_TABLE: the staging table
          live,       \* HWPX_SOURCE_UUID_TABLE: the table in use
          lock,       \* lock[t]: the transaction that locked table t
          step,       \* step[a]: the next statement of a's transaction
          job,        \* job[a]: what a's request works on
          uploads, published, corrected, dbErrors,
          staged,     \* staged[o]: all that temp has ever held for o
          byHand,     \* organisations whose live rows were changed directly
          raced       \* organisations with two uploads at a time

boundVars == <<uploads, published, corrected, dbErrors>>
traceVars == <<staged, byHand, raced>>
publishingVars == <<temp, live, lock, step, job, boundVars, traceVars>>

Free == "free"
All == "all"
Row == [org : Orgs, year : Years, file : 0 .. MaxUploads, uuid : 0 .. MaxUploads]
NoJob == [rows |-> {}, orgs |-> {}, year |-> All]

OrgsOf(table) == {r.org : r \in table}
RowsOf(table, o) == {r \in table : r.org = o}
Outside(table, orgs) == {r \in table : r.org \notin orgs}
Uuids(table, o) == {r.uuid : r \in RowsOf(table, o)}

PublishingTypeOK ==
    /\ temp \subseteq Row /\ live \subseteq Row
    /\ lock \in [{"temp", "live"} -> Admins \cup {Free}]
    /\ step \in [Admins -> {"idle", "uuids", "delete", "insert", "deleteLive", "copy"}]
    /\ job \in [Admins -> [rows : SUBSET Row, orgs : SUBSET Orgs, year : Years \cup {All}]]

-------------------------------------------------------------------------------
\* The table in use may hold services from before, with file id 0.
PublishingInit ==
    /\ temp = {}
    /\ live \in {{}} \cup {{[org |-> o, year |-> y, file |-> 0, uuid |-> 0]} :
                              o \in Orgs, y \in Years}
    /\ lock = [t \in {"temp", "live"} |-> Free]
    /\ step = [a \in Admins |-> "idle"]
    /\ job = [a \in Admins |-> NoJob]
    /\ uploads = 0 /\ published = 0 /\ corrected = 0 /\ dbErrors = 0
    /\ staged = [o \in Orgs |-> {{}, RowsOf(live, o)}]
    /\ byHand = {}
    /\ raced = {}

Goto(a, s) == step' = [step EXCEPT ![a] = s]

\* COMMIT or ROLLBACK, and the connection is closed.
EndJob(a) ==
    /\ Goto(a, "idle")
    /\ job' = [job EXCEPT ![a] = NoJob]
    /\ lock' = [t \in DOMAIN lock |-> IF lock[t] = a THEN Free ELSE lock[t]]

\* What temp holds after a commit has been staged.
Staged == staged' = [o \in Orgs |-> staged[o] \cup {RowsOf(temp', o)}]

\* A statement fails, or its wait for a lock times out or is a deadlock.
Rollback(a) ==
    /\ step[a] # "idle"
    /\ dbErrors < MaxDbErrors /\ dbErrors' = dbErrors + 1
    /\ EndJob(a)
    /\ UNCHANGED <<temp, live, uploads, published, corrected, traceVars>>

-------------------------------------------------------------------------------
\* An upload.

\* Files that cannot be parsed add an error and no rows; without rows the
\* request ends before the database.
Parse(a, parsed, year) ==
    /\ step[a] = "idle" /\ uploads < MaxUploads
    /\ uploads' = uploads + 1
    /\ job' = [job EXCEPT ![a] =
           [rows |-> {[org |-> o, year |-> year, file |-> uploads', uuid |-> uploads'] :
                         o \in parsed},
            orgs |-> parsed, year |-> year]]
    /\ Goto(a, IF parsed = {} THEN "idle" ELSE "uuids")
    /\ UNCHANGED <<temp, live, lock, published, corrected, dbErrors, traceVars>>

Smallest(S) == CHOOSE x \in S : \A y \in S : x <= y

FaultyFileId(o, own) ==
    IF Uuids(temp, o) # {} THEN Smallest(Uuids(temp, o)) ELSE own

\* get_existing_uuid_map: the id an organisation has in the table in use, or
\* else in the staging table; a new one keeps the id of its own file.
FileId(o, own) ==
    IF Uuids(live, o) # {} THEN Smallest(Uuids(live, o))
    ELSE IF Uuids(temp, o) # {} THEN Smallest(Uuids(temp, o))
    ELSE own

Uploading(a) == IF step[a] \in {"delete", "insert"} THEN job[a].orgs ELSE {}

ReuseUuids(a) ==
    /\ step[a] = "uuids"
    /\ job' = [job EXCEPT ![a].rows =
                  {[r EXCEPT !.uuid = FileId(r.org, @)] : r \in job[a].rows}]
    /\ raced' = raced \cup (job[a].orgs \cap UNION {Uploading(b) : b \in Admins})
    /\ Goto(a, "delete")
    /\ UNCHANGED <<temp, live, lock, boundVars, staged, byHand>>

DeleteExisting(a) ==
    /\ step[a] = "delete"
    /\ lock["temp"] = Free
    /\ lock' = [lock EXCEPT !["temp"] = a]
    /\ Goto(a, "insert")
    /\ UNCHANGED <<temp, live, job, boundVars, traceVars>>

InsertRows(a) ==
    /\ step[a] = "insert"
    /\ temp' = Outside(temp, job[a].orgs) \cup job[a].rows
    /\ Staged
    /\ EndJob(a)
    /\ UNCHANGED <<live, boundVars, byHand, raced>>

-------------------------------------------------------------------------------
\* Publishing.

\* The organisations with a staged row of the year, of those asked for.
SelectOrgs(a, year, asked) ==
    LET orgs == {r.org : r \in {q \in temp : year \in {All, q.year}}} \cap asked
    IN  /\ step[a] = "idle" /\ published < MaxPublished
        /\ published' = published + 1
        /\ job' = [job EXCEPT ![a] = [rows |-> {}, orgs |-> orgs, year |-> year]]
        /\ Goto(a, IF orgs = {} THEN "idle" ELSE "deleteLive")
        /\ UNCHANGED <<temp, live, lock, uploads, corrected, dbErrors, traceVars>>

DeleteLive(a) ==
    /\ step[a] = "deleteLive"
    /\ lock["live"] = Free
    /\ lock' = [lock EXCEPT !["live"] = a]
    /\ Goto(a, "copy")
    /\ UNCHANGED <<temp, live, job, boundVars, traceVars>>

FaultyCopied(table, from, orgs, year) ==
    {r \in table : r.org \notin orgs \/ year \notin {All, r.year}}
        \cup {r \in from : r.org \in orgs}

\* What the live table holds once organisations were deleted and copied: all
\* their years, whichever year selected them.
Copied(table, from, orgs, year) ==
    Outside(table, orgs) \cup {r \in from : r.org \in orgs}

CopyRows(a) ==
    /\ step[a] = "copy"
    /\ lock["temp"] = Free
    /\ live' = Copied(live, temp, job[a].orgs, job[a].year)
    /\ byHand' = byHand \ job[a].orgs
    /\ EndJob(a)
    /\ UNCHANGED <<temp, boundVars, staged, raced>>

-------------------------------------------------------------------------------
\* Corrections: one statement and its commit, on either table.

Correct(t, table) ==
    /\ lock[t] = Free
    /\ corrected < MaxCorrected /\ corrected' = corrected + 1
    /\ \/ t = "temp" /\ temp' = table /\ Staged /\ UNCHANGED <<live, byHand>>
       \/ /\ t = "live" /\ live' = table
          /\ byHand' = byHand \cup {o \in Orgs : RowsOf(live, o) # RowsOf(table, o)}
          /\ UNCHANGED <<temp, staged>>
    /\ UNCHANGED <<lock, step, job, uploads, published, dbErrors, raced>>

Table(t) == IF t = "temp" THEN temp ELSE live

UpdateRow(t, r, year) ==
    /\ r \in Table(t)
    /\ Correct(t, (Table(t) \ {r}) \cup {[r EXCEPT !.year = year]})

DeleteRow(t, r) == r \in Table(t) /\ Correct(t, Table(t) \ {r})

DeleteRows(t, year) ==
    Correct(t, {r \in Table(t) : year \notin {All, r.year}})

PublishingNext ==
    \/ \E a \in Admins :
        \/ \E parsed \in SUBSET Orgs, year \in Years : Parse(a, parsed, year)
        \/ ReuseUuids(a) \/ DeleteExisting(a) \/ InsertRows(a)
        \/ \E year \in Years \cup {All}, asked \in SUBSET Orgs : SelectOrgs(a, year, asked)
        \/ DeleteLive(a) \/ CopyRows(a)
        \/ Rollback(a)
    \/ \E t \in DOMAIN lock :
        \/ \E r \in Table(t), year \in Years : UpdateRow(t, r, year)
        \/ \E r \in Table(t) : DeleteRow(t, r)
        \/ \E year \in Years \cup {All} : DeleteRows(t, year)

PublishingSpec == PublishingInit /\ [][PublishingNext]_publishingVars

-------------------------------------------------------------------------------
\* Searches never see an organisation half published: unless somebody changed
\* its live rows directly, they are all that the staging table held for it at
\* one moment, also when rows are uploaded, corrected or deleted between the
\* statements of publish_rows.
LiveWasStaged ==
    \A o \in Orgs \ byHand : RowsOf(live, o) \in staged[o]

\* The id of an organisation's file, which download links are built from,
\* survives new uploads, deletions in the staging table and publishing; only
\* two uploads that overlapped, each ignorant of the other's id, may change it.
UuidKept ==
    [][\A o \in Orgs \ raced :
         (Uuids(live, o) # {} /\ Uuids(live', o) # {}) =>
            Uuids(live', o) = Uuids(live, o)]_publishingVars

\* "year 지정 시 해당 연도만 반영합니다" (parsing/router.py:212): publishing a
\* year leaves the live rows of other years as they are.
OnlyThatYear ==
    [][\A a \in Admins :
         (step[a] = "copy" /\ step'[a] = "idle" /\ job[a].year # All) =>
            {r \in live' : r.year # job[a].year} = {r \in live : r.year # job[a].year}
      ]_publishingVars
=============================================================================
