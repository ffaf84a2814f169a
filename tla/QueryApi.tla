------------------------------ MODULE QueryApi ------------------------------
(***************************************************************************)
(* read-service: the queries, while the projection goes on to record       *)
(* events.                                                                 *)
(*                                                                         *)
(*   list_anomalies/http_gin.go       the parameters, as int32             *)
(*   list_anomalies/repo_sqlc.go      the limits of limit and offset       *)
(*   list_anomalies.sql(.go)          WHERE, ORDER BY ts DESC, LIMIT,      *)
(*                                    OFFSET                               *)
(*   list_series/..                   GET /v1/series, newest state first   *)
(*   get_series_state/..              GET /v1/series/state/:key            *)
(*                                                                         *)
(* A reader pages through GET /v1/anomalies or lists the series.  The      *)
(* anomalies are ordered by ts alone: rows of equal ts come in any order,  *)
(* and in another one with the next query.                                 *)
(***************************************************************************)
EXTENDS Integers, FiniteSets, Functions, Sequences

CONSTANTS
    Series,        \* source, metric name, env and region of a row
    Barred,        \* those with a "|" in one of the four
    Slashed,       \* those with a "/" in one of the four
    Timestamp,     \* ts of a row
    Null,          \* a parameter that is not given
    Filter,        \* the filters that readers use
    RawLimit,      \* what parseInt makes of limit, the default included
    HalfWord,      \* an int32 is in -HalfWord .. HalfWord - 1: 2^31
    DefaultLimit,  \* 100
    MaxLimit,      \* 1000
    SeriesLimit,   \* 200, the default of GET /v1/series
    MaxRows        \* bound: rows of anomaly_events

Row == [id : 1 .. MaxRows, series : Series, ts : Timestamp]

\* The table is smaller than the offsets that a reader can ask for.
ASSUME QueryAssumption ==
    /\ Barred \subseteq Series
    /\ Slashed \subseteq Series
    /\ Timestamp \subseteq Int
    /\ Filter \subseteq [from : Timestamp \cup {Null}, to : Timestamp \cup {Null},
                         series : Series \cup {Null}]
    /\ RawLimit \subseteq Int
    /\ HalfWord \in Nat \ {0}
    /\ MaxLimit \in Nat \ {0}
    /\ DefaultLimit \in 1 .. MaxLimit
    /\ SeriesLimit \in Nat \ {0}
    /\ MaxRows \in Nat
    /\ MaxRows < HalfWord
    /\ Null \notin Row

VARIABLES
    rows,     \* the table anomaly_events
    state,    \* the table series_state: the event that a series had last
    reading,  \* the reader is between two pages
    filter,   \* the reader's parameters
    limit,
    result,   \* the rows of its pages so far
    listed,   \* the states of its last listing of the series
    atStart,  \* history: the matching rows when it began
    grown     \* history: a matching row was inserted since

vars == <<rows, state, reading, filter, limit, result, listed, atStart, grown>>

TypeOK ==
    /\ rows \subseteq Row
    /\ state \in [Series -> rows \cup {Null}]
    /\ reading \in BOOLEAN
    /\ filter \in Filter
    /\ limit \in RawLimit
    /\ result \in Seq(rows)
    /\ Len(result) <= MaxRows
    /\ listed \in Seq(rows)
    /\ atStart \subseteq rows
    /\ grown \in BOOLEAN

Init ==
    /\ rows = {}
    /\ state = [s \in Series |-> Null]
    /\ reading = FALSE
    /\ filter \in Filter
    /\ limit \in RawLimit
    /\ result = <<>>
    /\ listed = <<>>
    /\ atStart = {}
    /\ grown = FALSE

-----------------------------------------------------------------------------
(* The query *)

\* The conversion int32(..) keeps the low bits.
Int32(i) == ((i + HalfWord) % (2 * HalfWord)) - HalfWord

\* Mutant: the database gets whatever the conversion left.
LimitUnguarded(raw) == IF Int32(raw) > MaxLimit THEN MaxLimit ELSE Int32(raw)

Limit(raw) ==
    IF Int32(raw) <= 0 THEN DefaultLimit
    ELSE IF Int32(raw) > MaxLimit THEN MaxLimit
    ELSE Int32(raw)

\* Mutant: the maximum of the limit is put on the offset, too.
OffsetClamped(raw) ==
    IF Int32(raw) < 0 \/ Int32(raw) > MaxLimit THEN 0 ELSE Int32(raw)

Offset(raw) == IF Int32(raw) < 0 THEN 0 ELSE Int32(raw)

Matches(row, f) ==
    /\ f.from = Null \/ row.ts >= f.from
    /\ f.to = Null \/ row.ts <= f.to
    /\ f.series = Null \/ row.series = f.series

Matching(table, f) == {row \in table : Matches(row, f)}

\* Mutant: no ORDER BY.
OrderedNot(table) ==
    {order \in [1 .. Cardinality(table) -> table] :
        \A i, j \in DOMAIN order : i < j => order[i] # order[j]}

\* The orders in which the database may return the rows of a table.
Ordered(table) ==
    {order \in [1 .. Cardinality(table) -> table] :
        \A i, j \in DOMAIN order :
            i < j => order[i] # order[j] /\ order[i].ts >= order[j].ts}

Page(order, offset, size) ==
    SubSeq(order, offset + 1,
           IF offset + size < Len(order) THEN offset + size ELSE Len(order))

-----------------------------------------------------------------------------
(* The table and the reader *)

NextRow(s, t) == [id |-> Cardinality(rows) + 1, series |-> s, ts |-> t]

\* updated_at = now(): the projection is the only writer, so the order of the
\* updates is that of the ids.
Upsert(row) == state' = [state EXCEPT ![row.series] = row]

\* The projection commits an event, of any time, and the state of its series.
InsertAnomalyEvent(s, t) ==
    LET row == NextRow(s, t)
    IN  /\ Cardinality(rows) < MaxRows
        /\ rows' = rows \cup {row}
        /\ Upsert(row)
        /\ grown' = (grown \/ (reading /\ Matches(row, filter)))
        /\ UNCHANGED <<reading, filter, limit, result, listed, atStart>>

\* A reader begins with the first page.
Begin(f, raw) ==
    /\ ~reading
    /\ reading' = TRUE
    /\ filter' = f
    /\ limit' = raw
    /\ result' = <<>>
    /\ listed' = <<>>
    /\ atStart' = Matching(rows, f)
    /\ grown' = FALSE
    /\ UNCHANGED <<rows, state>>

\* The next page, of an offset behind the rows received, until one is empty.
ListAnomalies ==
    /\ reading
    /\ \E order \in Ordered(Matching(rows, filter)) :
           LET page == Page(order, Offset(Len(result)), Limit(limit))
           IN  /\ result' = result \o page
               /\ reading' = (page # <<>>)
    /\ UNCHANGED <<rows, state, filter, limit, listed, atStart, grown>>

\* Mutant: the database gets whatever the conversion left.
ListingSizeUnguarded(raw) == Int32(raw)

\* GET /v1/series: no maximum, and the default for what int32 leaves at 0 or
\* below.
ListingSize(raw) == IF Int32(raw) <= 0 THEN SeriesLimit ELSE Int32(raw)

\* ORDER BY updated_at DESC.
UpdatedOrder(table) ==
    CHOOSE order \in [1 .. Cardinality(table) -> table] :
        \A i, j \in DOMAIN order : i < j => order[i].id > order[j].id

ListSeries(f, raw) ==
    LET chosen == {row \in Range(state) \ {Null} : f.series = Null \/ row.series = f.series}
    IN  /\ ~reading
        /\ listed' = Page(UpdatedOrder(chosen), 0, ListingSize(raw))
        /\ UNCHANGED <<rows, state, reading, filter, limit, result, atStart, grown>>

\* The state of a series, or none (404).
StateOf(s) == {state[s]} \ {Null}

\* A bar in a part makes a fifth of it (400).  The route's :key is one segment
\* of the path: with a slash in it, escaped or not, it does not match (404).
HasKey(s) == s \notin Barred \cup Slashed

\* GET /v1/series/state/:key.
GetSeriesState(s) == IF HasKey(s) THEN StateOf(s) ELSE {}

Next ==
    \/ \E s \in Series, t \in Timestamp : InsertAnomalyEvent(s, t)
    \/ \E f \in Filter, raw \in RawLimit : Begin(f, raw)
    \/ ListAnomalies
    \/ \E f \in Filter, raw \in RawLimit : ListSeries(f, raw)

Spec == Init /\ [][Next]_vars

-----------------------------------------------------------------------------
(* Properties *)

\* No two of the rows that the reader asks for have the same time.
TimesDiffer ==
    \A r, q \in Matching(rows, filter) : r.ts = q.ts => r = q

Received == {result[i] : i \in 1 .. Len(result)}

\* However many events are inserted between the pages, before or behind the
\* reader's place and of any time, and whatever limit it asks for, the reader
\* gets every row that was there when it began: rows move backwards only.
PagingMissesNothing == ~reading /\ TimesDiffer => atStart \subseteq Received

\* Without insertions the pages are the listing: each matching row once, the
\* newest first, wherever the limit cuts it.
QuietPagingIsExact ==
    ~reading /\ ~grown /\ TimesDiffer =>
        /\ Len(result) = Cardinality(atStart)
        /\ \A i, j \in 1 .. Len(result) : i < j => result[i].ts > result[j].ts

\* A listing leaves out only series that changed before all of those it has,
\* and is empty only if there is nothing to list, whatever limit is asked for and
\* whatever int32 makes of it.
ListingIsNewest ==
    [][\A f \in Filter, raw \in RawLimit, s \in Series :
          ListSeries(f, raw) /\ state[s] # Null /\ (f.series = Null \/ f.series = s) =>
              \/ state[s] \in Range(listed')
              \/ /\ listed' # <<>>
                 /\ \A row \in Range(listed') : row.id > state[s].id]_vars

\* What the code does not do: give the state of a series "by its key"
\* (get_series_state/http_gin.go:24) for each one that it lists.
ListedCanBeAsked ==
    \A row \in Range(listed) : GetSeriesState(row.series) # {}
=============================================================================
