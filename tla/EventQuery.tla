----------------------------- MODULE EventQuery -----------------------------
(***************************************************************************)
(* The query string and the reports computed from it.  queryparser::parse  *)
(* turns the string into elements, one token at a time; each datastore     *)
(* translates the elements on its own (EventQueryBuilder and the inbox's   *)
(* WHERE on SQLite, apply_query_string on Elasticsearch) and every report  *)
(* (search, inbox, count, histogram, top values) applies the translation   *)
(* in its own way.  The second half follows the counters that sensors      *)
(* report in stats events and the differences the server draws from them.  *)
(*                                                                         *)
(* An event is its time, its flags, its fields and the four arrays that a  *)
(* DNS event may have; a field that the event does not have is None.  Its  *)
(* text is what its fields say.  map_field's renames (.keyword, ECS) only  *)
(* say where Elasticsearch keeps a field, so they appear where two fields  *)
(* become one (dns.rrname).                                                *)
(***************************************************************************)
EXTENDS Integers, SequencesExt

CONSTANTS
    Catalogue,   \* the stored events
    None,        \* an absent field
    Words,       \* the words and values a query may contain
    Embeds,      \* <<w, v>>: the text v contains w without being w
    Keys,        \* the keys a query may name
    ArrayOf,     \* [keys such as dns.answers.rdata -> the DNS array they lead into]
    Numeric,     \* those of them that hold numbers
    Times,       \* the times a query may name
    Now,         \* the server's clock when a report is made
    Intervals,   \* histogram intervals a client may ask for; None leaves it open
    RareDocs,    \* max_doc_count of an ascending top list on Elasticsearch
    MaxTokens,   \* bound on the tokens of a query string
    Sensors,     \* the sensors that report stats
    MaxSamples,  \* bound on stats events
    MaxGrowth    \* bound on what a counter grows between two stats events

\* The keys and values the translations treat on their own.
SpecialKeys == {"@ip", "@mac", "@sid", "host", "dns.type", "dns.rrname", "alert.signature_id"}
NoName == "(no-name)"

\* The arrays a DNS event may have, those the SQLite search joins, and the keys
\* that lead into an array of As.
Joined == {"queries", "answers"}
DnsArrays == Joined \union {"authorities", "additionals"}
Into(As) == {k \in DOMAIN ArrayOf : ArrayOf[k] \in As}

\* The name asked for, before Suricata 8 and since.
RrnameKeys == {"dns.rrname", "dns.queries.rrname"}

\* A stored event; the elements of its arrays are functions on their keys.  A DNS
\* event has its name in dns.rrname or its names in dns.queries.
IsEvent(e) ==
    /\ e.ts \in Nat /\ e.arch \in BOOLEAN /\ e.esc \in BOOLEAN
    /\ \A a \in DnsArrays : e.dns[a] \in Seq(ToSet(e.dns[a]))
    /\ {"event_type", "host"} \subseteq DOMAIN e.f /\ DOMAIN e.f \intersect DOMAIN ArrayOf = {}
    /\ e.dns["queries"] # <<>> /\ "dns.rrname" \in DOMAIN e.f => e.f["dns.rrname"] = None

\* Times are after the epoch and nobody asks for an interval of zero seconds, by
\* which the code would divide.
ASSUME QueryAssumption ==
    /\ IsFiniteSet(Catalogue)
    /\ \A e \in Catalogue : IsEvent(e)
    /\ Times \subseteq Nat /\ Now \in Nat /\ Intervals \subseteq (Nat \ {0}) \union {None}
    /\ None \notin SpecialKeys \union DOMAIN ArrayOf \union Words \union {NoName, "-"} \union Nat
    /\ Into(DnsArrays) = DOMAIN ArrayOf /\ SpecialKeys \intersect DOMAIN ArrayOf = {}
    /\ "dns.queries.rrname" \in Into({"queries"}) \ Numeric
    /\ RareDocs \in Nat /\ MaxGrowth \in Nat

VARIABLES
    fts,         \* does SQLite have its full text index?
    elements,    \* the elements parsed so far
    negated,     \* an operator has been read and not used yet
    status,      \* "parsing", or "bad" once the request is refused
    samples,     \* the stats events stored, oldest first
    sensorTime,  \* the sensors' time
    counter,     \* [Sensors -> what the sensor has counted since it started]
    grown        \* history: [Sensors -> growth since the sensor's first sample]

queryVars == <<fts, elements, negated, status>>
statsVars == <<samples, sensorTime, counter, grown>>
reportVars == <<queryVars, statsVars>>

TimeKinds == {"From", "To", "After", "Before"}
FlagKinds == {"Archived", "Escalated"}

QueryElement == [neg : BOOLEAN, kind : {"String", "KeyValue"} \union TimeKinds \union FlagKinds,
                 key : Keys \union {None}, val : Words \union Times \union {None, NoName, "-"}]

Element(neg, kind, key, val) == [neg |-> neg, kind |-> kind, key |-> key, val |-> val]

----------------------------------------------------------------------------
(* queryparser::parse, one round of its loop per action. *)

Typing == status = "parsing" /\ samples = <<>> /\ Len(elements) < MaxTokens

Pushed(e) ==
    /\ elements' = Append(elements, e)
    /\ negated' = FALSE
    /\ UNCHANGED <<fts, status, statsVars>>

\* "-" or "!" before a token.
ParseOperator ==
    /\ Typing /\ ~negated
    /\ negated' = TRUE
    /\ UNCHANGED <<fts, elements, status, statsVars>>

\* @from, @to, @after and @before: the operator before them is dropped.
ParseTime == Typing /\ \E k \in TimeKinds, t \in Times : Pushed(Element(FALSE, k, None, t))

\* A time that datetime::parse does not accept refuses the query.
ParseBadTime ==
    /\ Typing
    /\ status' = "bad"
    /\ UNCHANGED <<fts, elements, negated, statsVars>>

\* key:value, the event states included.
ParseKeyValue ==
    /\ Typing
    /\ \/ \E f \in FlagKinds : Pushed(Element(negated, f, None, None))
       \/ \E k \in Keys, v \in Words : Pushed(Element(negated, "KeyValue", k, v))
       \/ "host" \in Keys /\ Pushed(Element(negated, "KeyValue", "host", NoName))

\* parse_value takes an operator for the value, and what follows it becomes a
\* word of its own: "key:-word".
ParseKeyOperator ==
    /\ Typing /\ Len(elements) + 1 < MaxTokens
    /\ \E k \in Keys, w \in Words :
          elements' = elements \o <<Element(negated, "KeyValue", k, "-"), Element(FALSE, "String", None, w)>>
    /\ negated' = FALSE
    /\ UNCHANGED <<fts, status, statsVars>>

\* A bare or quoted word; an empty one only drops the operator before it.
ParseWord ==
    /\ Typing
    /\ \/ \E w \in Words : Pushed(Element(negated, "String", None, w))
       \/ negated /\ negated' = FALSE /\ UNCHANGED <<fts, elements, status, statsVars>>

----------------------------------------------------------------------------
(* What both datastores know of an event. *)

Elements(e, As) == UNION {ToSet(e.dns[a]) : a \in As}
Texts(e) == (Range(e.f) \ {None}) \union UNION {Range(x) : x \in Elements(e, DnsArrays)}
HasToken(e, w) == w \in Texts(e)                                        \* fts match, query_string
Like(e, w) == \E t \in Texts(e) : t = w \/ <<w, t>> \in Embeds           \* source LIKE '%w%'
FieldLike(v, w) == v # None /\ (v = w \/ <<w, v>> \in Embeds)
Says(x, k, v) == k \in DOMAIN x /\ x[k] = v

\* "@sid" and "@sig" stand for fields, in both datastores.
Shorthand(k) == IF k = "@sid" THEN "alert.signature_id" ELSE k

\* The two spellings of a DNS message type, before and after Suricata 8.
Aliases(v) == CASE v \in {"query", "request"} -> {"query", "request"}
                [] v \in {"answer", "response"} -> {"answer", "response"}
                [] OTHER -> {v}

\* timestamp_gte and its three siblings; the same ranges in Elasticsearch.
InTime(el, e) ==
    CASE el.kind = "From" -> e.ts >= el.val
      [] el.kind = "To" -> e.ts <= el.val
      [] el.kind = "After" -> e.ts > el.val
      [] el.kind = "Before" -> e.ts < el.val

Flag(el, e) == IF el.kind = "Archived" THEN e.arch ELSE e.esc

----------------------------------------------------------------------------
(* SQLite.  A comparison with an absent field is NULL, so never true. *)

SqlEq(e, k, v) == Says(e.f, k, v)
SqlNe(e, k, v) == k \in DOMAIN e.f /\ e.f[k] \notin {None, v}

\* Whole-source matches: only a positive one can use the index.
TextWhere(neg, w, e) == IF neg THEN ~Like(e, w) ELSE IF fts THEN HasToken(e, w) ELSE Like(e, w)

\* What a joined row says; j has the position in each joined array, 0 for none.
RowSays(e, a, j, k, v) == j[a] # 0 /\ Says(e.dns[a][j[a]], k, v)

\* GLOB '*v*' on the text of an array.
Glob(e, a, v) == \E x \in Elements(e, {a}) : \E t \in Range(x) : t = v \/ <<v, t>> \in Embeds

\* A positive clause on a key.  The fields of joined rows are compared with the
\* value as a text, which no number equals.
EqWhere(e, j, k, v) ==
    CASE k = "dns.type" -> \E w \in Aliases(v) : SqlEq(e, k, w)
      [] k \in RrnameKeys -> SqlEq(e, "dns.rrname", v) \/ RowSays(e, "queries", j, "dns.queries.rrname", v)
      [] k \in Into(Joined) \ RrnameKeys -> k \notin Numeric /\ RowSays(e, ArrayOf[k], j, k, v)
      [] k \in Into({"authorities", "additionals"}) -> Glob(e, ArrayOf[k], v)
      [] OTHER -> SqlEq(e, k, v)

\* apply_query_string for a key.
KeyWhere(el, e, j) ==
    LET k == Shorthand(el.key) IN
    IF k \in {"@ip", "@mac"} THEN TextWhere(el.neg, el.val, e)
    ELSE IF el.neg THEN SqlNe(e, k, el.val) ELSE EqWhere(e, j, k, el.val)

SqliteWhere(el, e, j) ==
    CASE el.kind = "String" -> TextWhere(el.neg, el.val, e)
      [] el.kind = "KeyValue" -> KeyWhere(el, e, j)
      [] el.kind \in TimeKinds -> InTime(el, e)
      [] OTHER -> Flag(el, e) # el.neg

\* left_join_from_query_string: the arrays a key asks for, negated or not.
Joins(el, a) ==
    el.kind = "KeyValue" /\ (el.key \in Into({a}) \/ (el.key = "dns.rrname" /\ a = "queries"))

\* The LEFT JOINs: a row per element of the array, or one without.
ArrayRows(q, e, a) ==
    IF (\E i \in DOMAIN q : Joins(q[i], a)) /\ e.dns[a] # <<>> THEN DOMAIN e.dns[a] ELSE {0}

JoinRows(q, e) == [queries : ArrayRows(q, e, "queries"), answers : ArrayRows(q, e, "answers")]
NoJoin == [queries |-> 0, answers |-> 0]

\* Variant: the clauses joined with "or".
SqliteRowAny(q, e, j) == q = <<>> \/ \E i \in DOMAIN q : SqliteWhere(q[i], e, j)

\* build: the clauses joined with "and", on each joined row.
SqliteRow(q, e, j) == \A i \in DOMAIN q : SqliteWhere(q[i], e, j)

\* events(): DISTINCT rows.
SqliteSearch(q) == {e \in Catalogue : \E j \in JoinRows(q, e) : SqliteRow(q, e, j)}

\* The other reports use the same clauses without the joins, so a clause that
\* names a joined table is an SQL error.
SqliteFails(q) == \E i \in DOMAIN q, a \in Joined : Joins(q[i], a) /\ ~q[i].neg
SqliteRows(q) == {e \in Catalogue : SqliteRow(q, e, NoJoin)}

\* The inbox has a WHERE of its own, and one for each way of listing: words never
\* use the index, a key with a textual value is a LIKE on the field and a key that
\* leads into an array finds nothing.
FieldWhere(el, e) ==
    LET k == Shorthand(el.key) IN
    IF k = "alert.signature_id"
    THEN IF el.neg THEN SqlNe(e, k, el.val) ELSE SqlEq(e, k, el.val)
    ELSE k \in DOMAIN e.f /\ e.f[k] # None /\ FieldLike(e.f[k], el.val) # el.neg

\* alerts_with_timeout, which goes through EventQueryBuilder ...
TimedWhere(el, e) ==
    CASE el.kind = "String" -> Like(e, el.val) # el.neg
      [] el.kind = "KeyValue" ->
            IF el.key \in {"@ip", "@mac"} THEN TextWhere(el.neg, el.val, e) ELSE FieldWhere(el, e)
      [] el.kind \in TimeKinds -> InTime(el, e)
      [] OTHER -> Flag(el, e) # el.neg

\* ... and alerts_group_by, which puts its SQL together itself.
GroupedWhere(el, e) ==
    CASE el.kind = "String" -> IF el.neg THEN ~Like(e, el.val) ELSE Like(e, el.val)
      [] el.kind = "KeyValue" ->
            IF el.key \notin {"@ip", "@mac"} THEN FieldWhere(el, e)
            ELSE IF el.neg THEN ~Like(e, el.val) ELSE IF fts THEN HasToken(e, el.val) ELSE Like(e, el.val)
      [] el.kind \in TimeKinds -> InTime(el, e)
      [] el.kind = "Archived" -> e.arch = ~el.neg
      [] el.kind = "Escalated" -> e.esc = ~el.neg

\* A query that does not parse is logged and left out.
Alert(e) == e.f["event_type"] = "alert"
Inbox(q) == {e \in Catalogue : Alert(e) /\ (status = "bad" \/ \A i \in DOMAIN q : TimedWhere(q[i], e))}
GroupedInbox(q) == {e \in Catalogue : Alert(e) /\ (status = "bad" \/ \A i \in DOMAIN q : GroupedWhere(q[i], e))}

----------------------------------------------------------------------------
(* Elasticsearch: each element becomes a filter, a should or a must_not. *)

IpFields == {"src_ip", "dest_ip", "dhcp.assigned_ip"}

\* A negated "@mac" is a filter like any other, "@ip" is an alternative of the
\* whole query, and "host:(no-name)" carries its own negation.
Clause(el) ==
    IF el.kind = "KeyValue" /\ el.key = "@mac" THEN "filter"
    ELSE IF el.kind = "KeyValue" /\ el.key = "@ip" THEN IF el.neg THEN "must_not" ELSE "should"
    ELSE IF el.kind = "KeyValue" /\ el.val = NoName THEN "filter"
    ELSE IF el.neg THEN "must_not" ELSE "filter"

Term(e, k, v) == Says(e.f, k, v)

\* A field of the objects in an array is one field with many values.
ArrayTerm(e, k, v) == \E x \in Elements(e, {ArrayOf[k]}) : Says(x, k, v)

\* Variant: only the field of Suricata 8 is looked at.
RrnameTermNew(e, v) == ArrayTerm(e, "dns.queries.rrname", v)

\* map_field sends dns.rrname to dns.queries.rrname, so the query asks for both.
RrnameTerm(e, v) == Term(e, "dns.rrname", v) \/ ArrayTerm(e, "dns.queries.rrname", v)

Expression(el, e) ==
    CASE el.kind = "String" -> HasToken(e, el.val)
      [] el.kind \in TimeKinds -> InTime(el, e)
      [] el.kind \in FlagKinds -> Flag(el, e)
      [] el.key = "@mac" -> HasToken(e, el.val)
      [] el.key = "@ip" -> \E k \in IpFields : Term(e, k, el.val)
      [] el.key = "host" /\ el.val = NoName -> (e.f["host"] = None) # el.neg
      [] el.key = "dns.type" -> \E v \in Aliases(el.val) : Term(e, el.key, v)
      [] el.key \in RrnameKeys -> RrnameTerm(e, el.val)
      [] el.key \in DOMAIN ArrayOf \ RrnameKeys -> ArrayTerm(e, el.key, el.val)
      [] OTHER -> Term(e, Shorthand(el.key), el.val)

Must(q, e) == \A i \in DOMAIN q : CASE Clause(q[i]) = "filter" -> Expression(q[i], e)
                                    [] Clause(q[i]) = "must_not" -> ~Expression(q[i], e)
                                    [] OTHER -> TRUE

Shoulds(q) == {i \in DOMAIN q : Clause(q[i]) = "should"}

\* minimum_should_match, set by events, agg and the inbox when there is a should.
Should(q, e) == Shoulds(q) = {} \/ \E i \in Shoulds(q) : Expression(q[i], e)

ElasticSearch(q) == {e \in Catalogue : Must(q, e) /\ Should(q, e)}

\* build_inbox_query: the same translation, for alerts.
ElasticInbox(q) == {e \in Catalogue : Alert(e) /\ (status = "bad" \/ (Must(q, e) /\ Should(q, e)))}

\* elastic_count and histogram_time leave the should clauses out.
ElasticDocs(q) == {e \in Catalogue : Must(q, e)}

----------------------------------------------------------------------------
(* Reports. *)

\* util::histogram_interval.
HistogramInterval(range) ==
    CASE range <= 60 -> 1
      [] range > 60 /\ range <= 3600 -> 60
      [] range > 3600 /\ range <= 3600 * 3 -> 120
      [] range > 3600 * 3 /\ range <= 3600 * 6 -> 180
      [] range > 3600 * 6 /\ range <= 3600 * 12 -> 300
      [] range > 3600 * 12 /\ range <= 3600 * 24 -> 900
      [] range > 3600 * 24 /\ range <= 3600 * 72 -> 3600
      [] range > 3600 * 72 /\ range <= 3600 * 168 -> 3600 * 3
      [] range > 3600 * 168 /\ range <= 3600 * 336 -> 3600 * 12
      [] OTHER -> 3600 * 24

Floor(t, iv) == (t \div iv) * iv

Least(S) == CHOOSE x \in S : \A y \in S : x <= y
Greatest(S) == CHOOSE x \in S : \A y \in S : x >= y

\* first_from, or the oldest event stored.
Earliest(q) ==
    LET froms == {i \in DOMAIN q : q[i].kind = "From"}
    IN  IF froms # {} THEN q[Least(froms)].val ELSE Least({e.ts : e \in Catalogue})

\* Neither that nor an event: there is no range, and both histograms are empty.
NoRange(q) == Catalogue = {} /\ \A i \in DOMAIN q : q[i].kind # "From"

IntervalOf(q, asked) == IF asked = None THEN HistogramInterval(Now - Earliest(q)) ELSE asked

Zeros(from, to, iv) ==      \* while next_time < to
    IF to <= from THEN <<>>
    ELSE [n \in 1 .. (to - from + iv - 1) \div iv |-> [time |-> from + (n - 1) * iv, count |-> 0]]

\* Variant: the row's bucket is not counted as filled.
FillNoStep(acc, row, iv) ==
    LET gap == Zeros(acc.next, row.time, iv)
    IN  [out |-> acc.out \o gap \o <<row>>, next |-> acc.next + Len(gap) * iv]

\* The loop over the rows of the GROUP BY: empty buckets up to the row, the row.
Fill(acc, row, iv) ==
    LET gap == Zeros(acc.next, row.time, iv)
    IN  [out |-> acc.out \o gap \o <<row>>, next |-> acc.next + Len(gap) * iv + iv]

\* The numbers of a set in ascending order.
Ascending(S) == [i \in 1 .. Cardinality(S) |-> CHOOSE x \in S : Cardinality({y \in S : y < x}) = i - 1]

\* GROUP BY the start of the bucket, in ascending order.
Grouped(rows, iv) ==
    LET times == Ascending({Floor(e.ts, iv) : e \in rows})
    IN  [i \in DOMAIN times |-> [time |-> times[i], count |-> Cardinality({e \in rows : Floor(e.ts, iv) = times[i]})]]

\* histogram_time on SQLite, with the empty buckets up to now at the end.
SqliteHistogram(q, asked) ==
    LET iv == IntervalOf(q, asked)
        groups == Grouped(SqliteRows(q), iv)
        loop[n \in 0 .. Len(groups)] == IF n = 0 THEN [out |-> <<>>, next |-> Floor(Earliest(q), iv)]
                                        ELSE Fill(loop[n - 1], groups[n], iv)
        body == loop[Len(groups)]
    IN  IF NoRange(q) THEN <<>> ELSE body.out \o Zeros(body.next, Floor(Now, iv) + 1, iv)

\* date_histogram with min_doc_count 0 and extended_bounds; bounds in the wrong
\* order are an error, and an answer without buckets is an empty histogram.
ElasticHistogram(q, asked) ==
    LET iv == IntervalOf(q, asked)
        docs == ElasticDocs(q)
        ts == {e.ts : e \in docs} \union {Earliest(q), Now}
        first == Floor(Least(ts), iv)
    IN  IF NoRange(q) \/ Earliest(q) > Now THEN <<>> ELSE
        [n \in 1 .. (Floor(Greatest(ts), iv) - first) \div iv + 1 |->
            LET t == first + (n - 1) * iv
            IN  [time |-> t, count |-> Cardinality({e \in docs : Floor(e.ts, iv) = t})]]

SumOf(s) ==
    LET sum[n \in 0 .. Len(s)] == IF n = 0 THEN 0 ELSE sum[n - 1] + s[n]
    IN  sum[Len(s)]

Total(h) == SumOf([i \in DOMAIN h |-> h[i].count])
Tiles(h, iv) == \A i \in 1 .. Len(h) - 1 : h[i + 1].time = h[i].time + iv

Before(order, x, y) == IF order = "asc" THEN x < y ELSE x > y

\* The counts of the values in the order asked for, at most size of them.
Top(by, size, order) ==
    LET n == Cardinality(DOMAIN by)
    IN  [i \in 1 .. (IF n < size THEN n ELSE size) |->
            CHOOSE c \in Range(by) : /\ Cardinality({v \in DOMAIN by : Before(order, by[v], c)}) < i
                                     /\ i <= Cardinality({v \in DOMAIN by : ~Before(order, c, by[v])})]

CountOf(rows, k) == [v \in {e.f[k] : e \in rows} |-> IF v = None THEN 0 ELSE Cardinality({e \in rows : e.f[k] = v})]
Present(by) == [v \in DOMAIN by \ {None} |-> by[v]]

\* agg: GROUP BY, ORDER BY count, LIMIT; the group of the events without the field
\* has the count 0 and is dropped after the LIMIT.
SqliteTop(rows, k, size, order) ==
    LET top == Top(CountOf(rows, k), size, order)
        kept == Ascending({i \in DOMAIN top : top[i] > 0})
    IN  [n \in DOMAIN kept |-> top[kept[n]]]

\* agg_stream: the rows counted in the process, "agg IS NOT NULL".
StreamTop(rows, k, size, order) == Top(Present(CountOf(rows, k)), size, order)

\* The terms aggregation, over the documents of the search; ascending it is
\* rare_terms, which leaves out what occurs too often and is cut to the size here.
Rare(by) == [v \in {v \in DOMAIN by : by[v] <= RareDocs} |-> by[v]]
ElasticTop(docs, k, size, order) ==
    LET by == Present(CountOf(docs, k))
    IN  Top(IF order = "asc" THEN Rare(by) ELSE by, size, order)

----------------------------------------------------------------------------
(* Stats counters. *)

Reporting == elements = <<>> /\ ~negated /\ status = "parsing"

\* A sensor logs a stats event and the server stores it.
Report ==
    /\ Reporting /\ Len(samples) < MaxSamples
    /\ \E h \in Sensors, n \in 0 .. MaxGrowth :
          /\ counter' = [counter EXCEPT ![h] = @ + n]
          /\ samples' = Append(samples, [ts |-> sensorTime, host |-> h, val |-> counter[h] + n])
          /\ grown' = [grown EXCEPT ![h] = IF \E i \in DOMAIN samples : samples[i].host = h THEN @ + n ELSE 0]
    /\ UNCHANGED <<queryVars, sensorTime>>

\* Suricata restarts: its counters start again.
SensorRestart ==
    /\ Reporting
    /\ \E h \in Sensors : counter[h] > 0 /\ counter' = [counter EXCEPT ![h] = 0]
    /\ UNCHANGED <<queryVars, samples, sensorTime, grown>>

TimePasses ==
    /\ Reporting /\ samples # <<>> /\ sensorTime < MaxSamples
    /\ sensorTime' = sensorTime + 1
    /\ UNCHANGED <<queryVars, samples, counter, grown>>

\* StatsAggQuery: the samples from the start of the range on, of some sensors.
InRange(hosts, start) == {i \in DOMAIN samples : samples[i].host \in hosts /\ samples[i].ts >= start}

Peak(I, t, iv) == Greatest({samples[i].val : i \in {i \in I : Floor(samples[i].ts, iv) = t}})

\* get_stats: the largest value of each bucket that has one.
StatsRows(hosts, iv, start) ==
    LET mine == InRange(hosts, start)
        times == Ascending({Floor(samples[i].ts, iv) : i \in mine})
    IN  [n \in DOMAIN times |-> [time |-> times[n], val |-> Peak(mine, times[n], iv)]]

\* stats_agg_by_sensor: GROUP BY sensor and bucket, collected per sensor.
BySensorRows(iv, start) ==
    [h \in {samples[i].host : i \in InRange(Sensors, start)} |-> StatsRows({h}, iv, start)]

\* Variant: the first bucket has no predecessor and is counted in full.
SqliteDiffsFirst(rows) ==
    [i \in 1 .. Len(rows) |-> IF i > 1 /\ rows[i - 1].val <= rows[i].val
                              THEN rows[i].val - rows[i - 1].val ELSE rows[i].val]

\* stats_agg_diff: the first bucket is skipped; a value below the one before is
\* a counter that started again.
SqliteDiffs(rows) ==
    [i \in 1 .. Len(rows) - 1 |-> IF rows[i].val <= rows[i + 1].val
                                  THEN rows[i + 1].val - rows[i].val ELSE rows[i + 1].val]

\* The loop of stats_agg_diff_by_sensor keeps the previous value per sensor.
BySensorDiffs(h, iv, start) ==
    LET rows == StatsRows({h}, iv, start)
        loop[n \in 0 .. Len(rows)] ==
            IF n = 0 THEN [prev |-> None, out |-> <<>>]
            ELSE [prev |-> rows[n].val,
                  out |-> IF loop[n - 1].prev = None THEN loop[n - 1].out
                          ELSE Append(loop[n - 1].out, IF loop[n - 1].prev <= rows[n].val
                                                       THEN rows[n].val - loop[n - 1].prev ELSE rows[n].val)]
    IN  loop[Len(rows)].out

\* The date_histogram of Elasticsearch has the empty buckets in between too.
ElasticRows(hosts, iv, start) ==
    LET mine == InRange(hosts, start)
        times == {Floor(samples[i].ts, iv) : i \in mine}
    IN  IF mine = {} THEN <<>>
        ELSE [n \in 1 .. (Greatest(times) - Least(times)) \div iv + 1 |->
                 LET t == Least(times) + (n - 1) * iv
                 IN  [time |-> t, val |-> IF t \in times THEN Peak(mine, t, iv) ELSE None]]

\* Its derivative is absent (0) for the first bucket and next to an empty one;
\* "as u64" turns a negative one into 0.
ElasticDiffs(rows) ==
    [i \in 1 .. Len(rows) |->
        IF i = 1 \/ rows[i].val = None \/ rows[i - 1].val = None \/ rows[i - 1].val > rows[i].val THEN 0
        ELSE rows[i].val - rows[i - 1].val]

\* The histograms and the derivatives inside a terms aggregation on the host.
ElasticBySensor(iv, start) ==
    [h \in {samples[i].host : i \in InRange(Sensors, start)} |-> ElasticRows({h}, iv, start)]
ElasticBySensorDiffs(iv, start) ==
    [h \in DOMAIN ElasticBySensor(iv, start) |-> ElasticDiffs(ElasticBySensor(iv, start)[h])]

----------------------------------------------------------------------------
QueryInit ==
    /\ fts \in BOOLEAN
    /\ elements = <<>> /\ negated = FALSE /\ status = "parsing"
    /\ samples = <<>> /\ sensorTime = 0
    /\ counter = [h \in Sensors |-> 0] /\ grown = [h \in Sensors |-> 0]

QueryNext ==
    \/ ParseOperator \/ ParseTime \/ ParseBadTime \/ ParseKeyValue \/ ParseKeyOperator \/ ParseWord
    \/ Report \/ SensorRestart \/ TimePasses

QuerySpec == QueryInit /\ [][QueryNext]_reportVars

----------------------------------------------------------------------------
(* Properties. *)

\* An element that both datastores translate to the same condition.  SQLite takes
\* a key of the last two arrays for a text anywhere in the array.
Same(el) ==
    \/ el.kind \in TimeKinds \union FlagKinds
    \/ el.kind = "String" /\ ~el.neg /\ fts
    \/ /\ el.kind = "KeyValue" /\ ~el.neg /\ el.val # NoName
       /\ el.key \notin {"@ip", "@mac"} \union Numeric \union Into({"authorities", "additionals"})

\* One whose negation SQLite applies only to the events that have the field, or
\* one that finds nothing there, the number in a joined row.
Narrower(el) ==
    \/ Same(el)
    \/ el.neg /\ el.kind = "String"
    \/ el.neg /\ el.kind = "KeyValue" /\ el.key \notin {"@mac", "dns.type"} /\ el.val # NoName
    \/ ~el.neg /\ el.kind = "KeyValue" /\ el.key \in Numeric \intersect Into(Joined)

\* Two values are looked for in one element of the array on SQLite, in any of its
\* elements on Elasticsearch.
OneJoin(q) == \A a \in Joined : Cardinality({i \in DOMAIN q : Joins(q[i], a)}) <= 1

\* The search finds the same events whichever datastore the server runs on, as
\* long as the query has no element the two are known to read differently; with
\* negated fields SQLite, for which a comparison with an absent field is never
\* true, finds some of what Elasticsearch finds and nothing else.  The two ways
\* SQLite lists the inbox agree, and both list what Elasticsearch lists (and, by
\* LIKE, more), DNS fields aside.
SearchAgrees ==
    /\ (OneJoin(elements) /\ \A i \in DOMAIN elements : Same(elements[i])) =>
          SqliteSearch(elements) = ElasticSearch(elements)
    /\ (\A i \in DOMAIN elements : Narrower(elements[i])) =>
          SqliteSearch(elements) \subseteq ElasticSearch(elements)
    /\ Inbox(elements) = GroupedInbox(elements)
    /\ (\A i \in DOMAIN elements :
           Same(elements[i]) /\ elements[i].key \notin {"dns.type", "dns.rrname"} \union DOMAIN ArrayOf) =>
          ElasticInbox(elements) \subseteq Inbox(elements)

\* Every element narrows the search: typing on never brings an event back, in
\* either datastore, unless the element is a second "@ip" on Elasticsearch,
\* where it is an alternative to the first.
ElementNarrows ==
    [][/\ SqliteSearch(elements') \subseteq SqliteSearch(elements)
       /\ (Cardinality(Shoulds(elements')) <= 1 \/ Shoulds(elements') = Shoulds(elements))
            => ElasticSearch(elements') \subseteq ElasticSearch(elements)
       /\ status' = "parsing" => Inbox(elements') \subseteq Inbox(elements)]_<<elements, status>>

\* What the histograms count is what the search lists: the sum of the buckets is
\* the number of events listed, and the buckets follow one another without a gap
\* or a repetition, wherever the first one is and however sparse the events are.
\* Elasticsearch ignores "@ip" here and shows nothing of a range that begins after
\* the clock.
HistogramsAgree(asked) ==
    LET iv == IntervalOf(elements, asked)
        sq == SqliteHistogram(elements, asked)
        el == ElasticHistogram(elements, asked)
        begun == NoRange(elements) \/ Earliest(elements) <= Now
    IN  /\ ~SqliteFails(elements) => Total(sq) = Cardinality(SqliteSearch(elements)) /\ Tiles(sq, iv)
        /\ Shoulds(elements) = {} /\ begun =>
              Total(el) = Cardinality(ElasticSearch(elements)) /\ Tiles(el, iv)
        /\ (~SqliteFails(elements) /\ begun /\ \A i \in DOMAIN elements : Same(elements[i])) => sq = el

\* The top values (of the field host) are the same whoever counts them.  The
\* rarest first, agg lists one row less than agg_stream once an event lacks the
\* field, and Elasticsearch ends the same list where the frequent values begin.
TopsAgree ==
    LET rows == SqliteRows(elements)
        docs == ElasticSearch(elements)
        lacking == \E e \in SqliteSearch(elements) : e.f["host"] = None
    IN  /\ ~SqliteFails(elements) => \A n \in 1 .. 3 :
              /\ SqliteTop(rows, "host", n, "desc") = StreamTop(rows, "host", n, "desc")
              /\ SqliteTop(rows, "host", n, "asc")
                   = StreamTop(rows, "host", IF lacking THEN n - 1 ELSE n, "asc")
        /\ (~SqliteFails(elements) /\ \A i \in DOMAIN elements : Same(elements[i])) => \A n \in 1 .. 3 :
              /\ SqliteTop(rows, "host", n, "desc") = ElasticTop(docs, "host", n, "desc")
              /\ IsPrefix(ElasticTop(docs, "host", n, "asc"), StreamTop(rows, "host", n, "asc"))

\* What the reports count is what the search lists, the reports that SQLite
\* refuses aside: the count, the histogram and the top values agree with the
\* listing and, of a query both datastores read alike, with one another.
ReportsAgree ==
    status = "parsing" =>
    /\ ~SqliteFails(elements) => SqliteRows(elements) = SqliteSearch(elements)
    /\ \A asked \in Intervals : HistogramsAgree(asked)
    /\ TopsAgree

\* What the report of a sensor's traffic adds up to never exceeds what the sensor
\* really counted since its first stats event, wherever the range starts and the
\* buckets fall and however often Suricata restarted; Elasticsearch never shows
\* more than SQLite; and the report of one sensor is that sensor's line in the
\* report of all, although each computes its differences in its own loop.
DiffWithinGrowth ==
    \A iv \in 1 .. 3, start \in 0 .. 1 :
        \A h \in DOMAIN BySensorRows(iv, start) :
            LET rows == BySensorRows(iv, start)[h]
            IN  /\ SumOf(SqliteDiffs(rows)) <= grown[h]
                /\ SumOf(ElasticBySensorDiffs(iv, start)[h]) <= SumOf(SqliteDiffs(rows))
                /\ ElasticBySensorDiffs(iv, start)[h] = ElasticDiffs(ElasticRows({h}, iv, start))
                /\ BySensorDiffs(h, iv, start) = SqliteDiffs(rows)
=============================================================================
