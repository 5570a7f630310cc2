---------------------------- MODULE WelfareParser ----------------------------
(***************************************************************************)
(* How the services of an uploaded file become rows                        *)
(* (parsing/_hwpx_parser_lib.py).  A file has sections of tables.  A table *)
(* that starts with the name of a service and ends with its department is  *)
(* a service; its rows are fields and what continues them.  A service      *)
(* whose contact refers to an annex gets the first table with phone        *)
(* numbers that follows in its section.  A service has one row for every   *)
(* application period that its text names.                                 *)
(*                                                                         *)
(* A cell is what the parser tells apart: "phone", "annex" (it refers to   *)
(* an annex, or its number is made of zeros) or "text".  Of the fields,    *)
(* those are kept that are treated in a way of their own.                  *)
(***************************************************************************)
EXTENDS Integers, Sequences, Stepwise

CONSTANTS Tables,      \* tables of a file: sequences of rows
          Dates,       \* dates that a text may name
          FileYear,    \* the year of the upload
          MaxTables,   \* bound: tables of a file
          MaxDates,    \* bound: dates of a text
          MaxPeriods   \* 24: periods that a service keeps apart

VARIABLES read,       \* the tables read, each with the number of its section
          section,    \* the section being read
          services,   \* parsed_items
          pending,    \* pending_byul: services that wait for an annex
          broken,     \* an exception ended the file
          dates       \* the dates of one text, in their order

Fields == {"name", "contact", "period", "dept"}
NoField == "more"
Cells == {"text", "phone", "annex"}

Date ==
    [year : Nat, month : Nat, day : Nat, middle : BOOLEAN, upto : BOOLEAN, nextYear : BOOLEAN]

ASSUME ParserAssumption ==
    /\ Tables \subseteq Seq([field : Fields \cup {NoField}, cell : Cells])
    /\ Dates \subseteq Date
    /\ FileYear \in Nat /\ MaxPeriods \in Nat

parserVars == <<read, section, services, pending, broken, dates>>

-------------------------------------------------------------------------------
\* Rows of a table.

\* What the rows of a table say so far: the cells of each field, the fields in the
\* order of their first rows, and the field of the last row.
Blank == [values |-> [f \in Fields |-> {}], order |-> << >>, last |-> NoField]

\* The row continues the field before it, unless that has its text already.
Continued(table, cell) ==
    IF table.last = NoField \/ cell \in table.values[table.last] THEN table
    ELSE [table EXCEPT !.values[table.last] = @ \cup {cell}]

\* A field that comes again replaces what it was, but keeps its place.
NewField(table, field, cell) ==
    [values |-> [table.values EXCEPT ![field] = {cell}],
     order  |-> IF \E i \in DOMAIN table.order : table.order[i] = field THEN table.order
                ELSE Append(table.order, field),
     last   |-> field]

AddRow(table, r) ==
    IF r.field = NoField THEN Continued(table, r.cell) ELSE NewField(table, r.field, r.cell)

ReadRows(rows) ==
    LET Add(table, i) == AddRow(table, rows[i])
    IN  Stepwise(Add, Blank, Len(rows))

IsService(table) ==
    /\ table.order # << >>
    /\ table.order[1] = "name" /\ table.order[Len(table.order)] = "dept"

\* _has_byul_table
HasPhones(rows) == \E i \in DOMAIN rows : rows[i].cell = "phone"

\* _is_byul_ref, _has_zero_phone
RefersToAnnex(contact) == "annex" \in contact

\* _clean_inqpl: references and numbers of zeros are taken out.
CleanContact(contact) == contact \ {"annex"}

\* What is kept of a service; list: the table of its annex, 0 while it has none.
Service(table, number) ==
    [table   |-> number,
     contact |-> table.values["contact"],
     phone   |-> "phone" \in table.values["dept"],
     list    |-> 0]

FaultyStillPending(p) == p

\* The annex was attached to all that waited for one.
StillPending(p) == {}

Attached(service, number) ==
    [service EXCEPT !.list = number, !.contact = CleanContact(@)]

-------------------------------------------------------------------------------
\* A file.

ParserInit ==
    /\ read = << >> /\ section = 1 /\ services = << >> /\ pending = {}
    /\ broken = FALSE /\ dates = << >>

ReadTable(rows) ==
    LET table == ReadRows(rows)
        number == Len(read) + 1
        service == Service(table, number)
    IN  /\ ~broken /\ Len(read) < MaxTables
        /\ read' = Append(read, [section |-> section, rows |-> rows])
        /\ IF IsService(table)
           THEN /\ services' = Append(services, service)
                /\ pending' = IF RefersToAnnex(service.contact)
                              THEN pending \cup {Len(services')} ELSE pending
           ELSE IF pending # {} /\ HasPhones(rows)
           THEN /\ services' = [i \in DOMAIN services |->
                                  IF i \in pending THEN Attached(services[i], number)
                                  ELSE services[i]]
                /\ pending' = StillPending(pending)
           ELSE UNCHANGED <<services, pending>>
        /\ UNCHANGED <<section, broken, dates>>

\* Each section is parsed on its own; what waits is forgotten.
NextSection ==
    /\ ~broken /\ read # << >> /\ read[Len(read)].section = section
    /\ section' = section + 1
    /\ pending' = {}
    /\ UNCHANGED <<read, services, broken, dates>>

\* An exception is logged, and the services of the sections before are used.
BreakOff ==
    /\ ~broken
    /\ broken' = TRUE
    /\ LET Keep(kept, i) ==
             IF read[services[i].table].section < section THEN Append(kept, services[i])
             ELSE kept
       IN  services' = Stepwise(Keep, << >>, Len(services))
    /\ pending' = {}
    /\ UNCHANGED <<read, section, dates>>

-------------------------------------------------------------------------------
\* Application periods.  A date of the text has a month, and a year (two or four
\* digits) and a day or not (0), or is "in the course of" a month; upto: a "~"
\* stands between it and the next one, nextYear: with "of the next year".

Unknown == 0

\* Two digits before a month without a day are themselves a month.
Regrouped(d) ==
    IF d.year \in 1 .. 12 /\ d.day = 0
    THEN [d EXCEPT !.year = 0, !.month = d.year, !.day = d.month, !.middle = FALSE]
    ELSE d

\* The year a text speaks of stays until it names another.
YearAfter(year, d) ==
    LET y == Regrouped(d).year
    IN  IF y = 0 THEN year ELSE IF y < 100 THEN 2000 + y ELSE y

IsDate(d) == d.month \in 1 .. 12 /\ d.day \in 0 .. 31

\* What is no date is left out, with what stands before and after it between
\* the dates around it; but its year stays.
Skip(found, d) ==
    IF found = << >> THEN found
    ELSE [found EXCEPT ![Len(found)].upto = @ \/ d.upto,
                       ![Len(found)].nextYear = @ \/ d.nextYear]

ReadDate(done, d) ==
    LET y == YearAfter(done.year, d)
    IN  [year  |-> y,
         found |-> IF IsDate(Regrouped(d))
                   THEN Append(done.found, [Regrouped(d) EXCEPT !.year = y])
                   ELSE Skip(done.found, d)]

ReadDates(text, year) ==
    LET Read(done, i) == ReadDate(done, text[i])
    IN  Stepwise(Read, [year |-> year, found |-> << >>], Len(text)).found

Number(year, month, day) == year * 10000 + month * 100 + day

LastDay(year, month) ==
    CASE month \in {4, 6, 9, 11} -> 30
      [] month = 2 -> IF year % 4 = 0 THEN 29 ELSE 28
      [] OTHER -> 31

\* A month without a day starts on its first and ends on its last day.
StartOf(d) == Number(d.year, d.month, IF d.day = 0 THEN 1 ELSE d.day)

EndOf(d, year) ==
    Number(year, d.month, IF d.day = 0 THEN LastDay(year, d.month) ELSE d.day)

\* An end before its start is of the next year if the text says so; one day digit
\* too few is supplied; otherwise there is no end.
Mended(d1, d2) ==
    IF d1.nextYear THEN EndOf(d2, d1.year + 1)
    ELSE IF /\ d1.year = d2.year /\ d1.month = d2.month
            /\ d1.day # 0 /\ d2.day # 0
            /\ d2.day < d1.day /\ d2.day <= 9
            /\ d2.day * 10 \in d1.day .. 31
    THEN Number(d2.year, d2.month, d2.day * 10)
    ELSE EndOf(d2, d2.year)

EndAfter(d1, d2) ==
    LET end == IF EndOf(d2, d2.year) >= StartOf(d1) THEN EndOf(d2, d2.year)
               ELSE Mended(d1, d2)
    IN  IF end < StartOf(d1) THEN Unknown ELSE end

\* Whether the dates i and i + 1 are the two ends of a period.
Joined(found, i) ==
    /\ i < Len(found)
    /\ ~found[i].middle /\ found[i].upto /\ ~found[i + 1].middle

\* The period of the next date, and the date that is next after it.
NextPeriod(found, done) ==
    LET i == done.next
        one == IF found[i].day = 0 /\ ~found[i].middle
               THEN EndOf(found[i], found[i].year) ELSE Unknown
    IN  IF i > Len(found) THEN done
        ELSE IF Joined(found, i)
        THEN [next  |-> i + 2,
              pairs |-> Append(done.pairs, <<StartOf(found[i]),
                                             EndAfter(found[i], found[i + 1])>>)]
        ELSE [next  |-> i + 1,
              pairs |-> Append(done.pairs, <<StartOf(found[i]), one>>)]

\* The periods; a date belongs to one.
Pairs(found) ==
    LET Pair(done, k) == NextPeriod(found, done)
    IN  Stepwise(Pair, [next |-> 1, pairs |-> << >>], Len(found)).pairs

Distinct(pairs) ==
    LET Add(done, i) ==
          IF \E k \in DOMAIN done : done[k] = pairs[i] THEN done ELSE Append(done, pairs[i])
    IN  Stepwise(Add, << >>, Len(pairs))

Least(S) == CHOOSE x \in S : \A y \in S : x <= y
Greatest(S) == CHOOSE x \in S : \A y \in S : x >= y

\* Too many periods are one, from the first start to the last end.
Merged(pairs) ==
    LET starts == {pairs[i][1] : i \in DOMAIN pairs}
        ends == {pairs[i][2] : i \in DOMAIN pairs}
    IN  IF Len(pairs) > MaxPeriods THEN <<<<Least(starts), Greatest(ends)>>>> ELSE pairs

\* _extract_dates: a text without dates, or that names half a year, has one unknown
\* period.  "2025~2026" is the range from a first to a last day.
Periods(text, year) ==
    LET found == ReadDates(text, year)
    IN  IF found = << >> THEN <<<<Unknown, Unknown>>>> ELSE Merged(Distinct(Pairs(found)))

\* build_db_rows: a row for every period; from the second on the name is numbered.
RowsOfService(text, year) ==
    LET periods == Periods(text, year)
    IN  [i \in DOMAIN periods |->
           [name |-> i, start |-> periods[i][1], end |-> periods[i][2]]]

\* A text may name any dates.
NameDate ==
    /\ Len(dates) < MaxDates
    /\ \E d \in Dates : dates' = Append(dates, d)
    /\ UNCHANGED <<read, section, services, pending, broken>>

ParserNext ==
    \/ \E rows \in Tables : ReadTable(rows)
    \/ NextSection \/ BreakOff \/ NameDate

ParserSpec == ParserInit /\ [][ParserNext]_parserVars

-------------------------------------------------------------------------------
\* What the parser promises.

Owner(rows, k) ==
    LET before == {i \in 1 .. k : rows[i].field # NoField}
    IN  IF before = {} THEN NoField ELSE rows[Greatest(before)].field

FirstOf(rows, field) == Least({i \in DOMAIN rows : rows[i].field = field})
LastOf(rows, field) == Greatest({i \in DOMAIN rows : rows[i].field = field})
FieldsOf(rows) == {rows[i].field : i \in DOMAIN rows} \ {NoField}

DescribesService(rows) ==
    /\ {"name", "dept"} \subseteq FieldsOf(rows)
    /\ \A f \in FieldsOf(rows) :
          FirstOf(rows, "name") <= FirstOf(rows, f) /\ FirstOf(rows, f) <= FirstOf(rows, "dept")

\* The cells of a field: those of its last row and of what continues it.
CellsOf(rows, field) ==
    {rows[k].cell : k \in {i \in DOMAIN rows :
        field \in FieldsOf(rows) /\ i >= LastOf(rows, field) /\ Owner(rows, i) = field}}

AnnexOf(number) ==
    LET rows(k) == read[k].rows
        lists == {k \in number + 1 .. Len(read) :
                    /\ read[k].section = read[number].section
                    /\ HasPhones(rows(k)) /\ ~DescribesService(rows(k))}
    IN  IF "annex" \in CellsOf(rows(number), "contact") /\ lists # {}
        THEN Least(lists) ELSE 0

\* Each table that describes a service is one service, in the order of the file,
\* with the contact of its own rows, and with the first list of numbers after it
\* in its section if it refers to one, although several services wait for it and
\* others come in between.
ServicesRead ==
    /\ ~broken => {services[i].table : i \in DOMAIN services} =
                      {k \in DOMAIN read : DescribesService(read[k].rows)}
    /\ \A i, j \in DOMAIN services : i < j => services[i].table < services[j].table
    /\ \A i \in DOMAIN services :
          LET s == services[i] IN
          LET own == CellsOf(read[s.table].rows, "contact") IN
          /\ s.list = AnnexOf(s.table)
          /\ s.phone = ("phone" \in CellsOf(read[s.table].rows, "dept"))
          /\ s.contact = own \ (IF s.list = 0 THEN {} ELSE {"annex"})

\* Every service has a row, no two have the same period, and none ends before it
\* starts, although texts leave out years, days or digits and a range may end in
\* the next year.
PeriodsInOrder ==
    LET rows == RowsOfService(dates, FileYear)
    IN  /\ rows # << >>
        /\ \A i \in DOMAIN rows : rows[i].end # Unknown => rows[i].start <= rows[i].end
        /\ \A i, j \in DOMAIN rows : i # j =>
              <<rows[i].start, rows[i].end>> # <<rows[j].start, rows[j].end>>

\* The services of a file become rows as the file has them, whatever stands
\* between a service and its annex and however its periods are written.
RowsAsWritten == ServicesRead /\ PeriodsInOrder
=============================================================================
