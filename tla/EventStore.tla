----------------------------- MODULE EventStore -----------------------------
(***************************************************************************)
(* The event datastore of an EveBox server.  EventRepo dispatches every    *)
(* operation to SQLite or to Elasticsearch, and which one is fixed when    *)
(* the server starts (variable store).  Modelled together because they     *)
(* share the rows: the sink that commits batches, the user's listing and   *)
(* group or single-event operations, the retention task that deletes and   *)
(* auto-archives, and full text search being switched on and off.          *)
(*                                                                         *)
(* SQLite: the server's writers share one connection behind a mutex, so an *)
(* in-process operation is atomic and waits while the sink's transaction   *)
(* is open.  Commands of the evebox tool write through a connection of     *)
(* their own; a write of theirs after the sink took its snapshot makes the *)
(* sink's first write fail with "database is locked".                      *)
(* Elasticsearch: an operation is an update-by-query, which searches and   *)
(* later updates each hit unless the hit changed since (conflicts=proceed);*)
(* a third writer there is the processor of auto-archive filters, which a  *)
(* listing of the inbox sets to work.                                      *)
(* Time is counted in days, the unit of retention and of the indices.      *)
(***************************************************************************)
EXTENDS Integers, Sequences, FiniteSets

CONSTANTS
    Events,       \* the events the sensors produce
    Attr,         \* what the store reads of an event, see EventAttr
    None,         \* an absent field (SQL NULL, a missing JSON field)
    Sensors,      \* what the user may restrict the inbox to: hosts, or None
    Names,        \* the DNS names and TLS server names that events hold
    Opened,       \* the events whose page the user may open
    Stores,       \* the backends to check, a subset of {"sqlite", "elastic"}
    RetainDays,   \* database.retention.days / config.retention
    ArchiveDays,  \* config.autoarchive
    SizeLimit,    \* database.retention.size, in rows
    Limit,        \* rows deleted by one retention statement
    MaxDay,       \* bound on the clock
    MaxTries,     \* commit attempts on a locked database (35 in the code)
    MaxOps,       \* bound on user and administrator operations
    MaxFaults     \* bound on failing commits

\* ip stands for both addresses, host for the sensor; names are the names of the
\* DNS queries and the TLS server name; tags is whether the filters of the ingest,
\* which change over time, archive the event on arrival.
EventAttr == [day : Nat, alert : BOOLEAN, sid : Nat, ip : Nat \union {None},
              host : Nat \union {None}, names : SUBSET Names, tags : SUBSET BOOLEAN]

ASSUME StoreAssumption ==
    /\ IsFiniteSet(Events)
    /\ Attr \in [Events -> EventAttr]
    /\ Opened \subseteq Events
    /\ Stores \subseteq {"sqlite", "elastic"}
    /\ {RetainDays, ArchiveDays, SizeLimit, Limit, MaxTries} \subseteq Nat \ {0}
    /\ {MaxDay, MaxOps, MaxFaults} \subseteq Nat

VARIABLES
    store,   \* the datastore this server runs on
    now,     \* today
    doc,     \* [Events -> the row or document of the event]
    queue,   \* events submitted to the sink and not committed
    acked,   \* events whose commit was reported as done
    tx,      \* the sink's open SQLite transaction, or None
    tries,   \* attempts of the commit in progress
    fts,     \* does the fts table exist?
    idx,     \* the events the fts table indexes
    ret,     \* where the retention task is
    shown,   \* the alert group the user has on the screen, or None; its field
             \* rows is history: the events the line stood for
    upd,     \* [Actors -> the update-by-query in flight, or None]
    filterq, \* does a filter wait in the auto-archive processor's channel?
    ops, faults   \* used so far of MaxOps and MaxFaults

storeVars == <<store, now, doc, queue, acked, tx, tries, fts, idx, ret, shown, upd, filterq, ops, faults>>

Actors == {"user", "retention", "filter"}
Entries == {"archived", "auto-archived", "escalated", "de-escalated", "comment"}

\* What an update-by-query holds between its search and its writes; None is none.
Updates == [docs : SUBSET Events, entry : Entries]

ASSUME NoneAssumption == None \notin Updates

Stored == {e \in Events : doc[e].st = "stored"}
Day(e) == Attr[e].day

\* The rows a statement may change: all writers of the server share one
\* connection, so none runs while the sink's transaction holds the mutex.
WriterFree == store = "sqlite" => tx = None

\* An event as submitted: a filter may have archived it already.
Fresh(st, tag) == [st |-> st, arch |-> tag, esc |-> FALSE, tag |-> tag, copies |-> 0,
                   hist |-> IF tag THEN <<"auto-archived">> ELSE <<>>]

StoreInit ==
    /\ store \in Stores
    /\ now = 0
    /\ doc = [e \in Events |-> Fresh("new", FALSE)]
    /\ queue = {} /\ acked = {}
    /\ tx = None /\ tries = 0
    /\ fts = (store = "sqlite")    \* init_event_db creates fts on a fresh install
    /\ idx = {}
    /\ ret = "sleep"
    /\ shown = None
    /\ upd = [a \in Actors |-> None]
    /\ filterq = FALSE
    /\ ops = 0 /\ faults = 0

----------------------------------------------------------------------------
(* The sinks. *)

\* An event reaches the sink's queue through the filter chain.  Only events with a
\* timestamp do: another is refused (SQLite) or ends the task (Elasticsearch) and
\* changes nothing.
Enqueue(e) ==
    /\ doc[e].st = "new" /\ Day(e) <= now
    /\ queue' = queue \union {e}
    /\ \E tag \in Attr[e].tags : doc' = [doc EXCEPT ![e] = Fresh("queued", tag)]
    /\ UNCHANGED <<store, now, acked, tx, tries, fts, idx, ret, shown, upd, ops, filterq, faults>>

\* By the task that also commits, so never during a commit.
SqliteSubmit(e) == store = "sqlite" /\ tx = None /\ tries = 0 /\ Enqueue(e)
\* With an id of its own for the document.
ElasticSubmit(e) == store = "elastic" /\ Enqueue(e)

\* Storing a set of queued events, once more each.
Put(S) == [e \in Events |-> IF e \in S
                            THEN [doc[e] EXCEPT !.st = "stored", !.copies = @ + 1]
                            ELSE doc[e]]

\* commit_with_sqlx up to has_table: the read fixes the transaction's snapshot.
SinkBegin ==
    /\ store = "sqlite" /\ tx = None /\ queue # {}
    /\ tx' = [fts |-> fts, stale |-> FALSE]
    /\ UNCHANGED <<store, now, doc, queue, acked, tries, fts, idx, ret, shown, upd, ops, filterq, faults>>

\* Variant: the fts table is looked up before the transaction begins.
SinkCommitStale ==
    /\ tx # None
    /\ doc' = Put(queue)
    /\ idx' = IF tx.fts THEN idx \union queue ELSE idx
    /\ acked' = acked \union queue
    /\ queue' = {}
    /\ tx' = None /\ tries' = 0
    /\ UNCHANGED <<store, now, fts, ret, shown, upd, ops, filterq, faults>>

\* The inserts and the commit: all rows or none.
SinkCommit ==
    /\ tx # None /\ ~tx.stale
    /\ doc' = Put(queue)
    /\ idx' = IF tx.fts THEN idx \union queue ELSE idx
    /\ acked' = acked \union queue
    /\ queue' = {}
    /\ tx' = None /\ tries' = 0
    /\ UNCHANGED <<store, now, fts, ret, shown, upd, ops, filterq, faults>>

\* Variant: the transaction is not rolled back.
SinkLockedHeld ==
    /\ tx # None /\ tx.stale
    /\ tries' = IF tries + 1 < MaxTries THEN tries + 1 ELSE 0
    /\ UNCHANGED <<store, now, doc, queue, acked, tx, fts, idx, ret, shown, upd, ops, filterq, faults>>

\* A locked database rolls the transaction back; commit tries again, up to 35
\* times, and then hands the error to its caller, which keeps the queue.
SinkLocked ==
    /\ tx # None
    /\ \/ tx.stale /\ UNCHANGED faults
       \/ ~tx.stale /\ faults < MaxFaults /\ faults' = faults + 1
    /\ tx' = None
    /\ tries' = IF tries + 1 < MaxTries THEN tries + 1 ELSE 0
    /\ UNCHANGED <<store, now, doc, queue, acked, fts, idx, ret, shown, upd, ops, filterq>>

\* Variant: the documents are sent without an id of their own.
BulkOkNoId ==
    /\ store = "elastic" /\ queue # {}
    /\ doc' = Put(queue)
    /\ acked' = acked \union queue
    /\ queue' = {}
    /\ UNCHANGED <<store, now, tx, tries, fts, idx, ret, shown, upd, ops, filterq, faults>>

\* ElasticEventSink::commit: one bulk request of "create" items, each with the
\* id made at submit.  Every item created: the queue is cleared.
BulkOk ==
    /\ store = "elastic" /\ queue # {} /\ queue \cap Stored = {}
    /\ doc' = Put(queue)
    /\ acked' = acked \union queue
    /\ queue' = {}
    /\ UNCHANGED <<store, now, tx, tries, fts, idx, ret, shown, upd, ops, filterq, faults>>

\* Some item failed, or the response was lost after the documents were created:
\* commit returns an error and keeps the whole queue.  An item whose id exists
\* is refused, so it is stored no second time and fails every later attempt.
BulkFails(S) ==
    /\ store = "elastic" /\ S \subseteq queue \ Stored
    /\ IF queue \cap Stored = {}
       THEN faults < MaxFaults /\ faults' = faults + 1
       ELSE S = queue \ Stored /\ S # {} /\ UNCHANGED faults
    /\ doc' = Put(S)
    /\ UNCHANGED <<store, now, queue, acked, tx, tries, fts, idx, ret, shown, upd, ops, filterq>>

----------------------------------------------------------------------------
(* Changing rows. *)

\* Variant: auto-archive leaves no trace in the history.
MarkedSilently(d, entry) ==
    [d EXCEPT !.hist = IF entry = "auto-archived" THEN @ ELSE Append(@, entry),
              !.arch = @ \/ entry \in {"archived", "auto-archived"},
              !.esc = (@ \/ entry = "escalated") /\ entry # "de-escalated"]

\* What an operation does to a row: the flag and the history entry together,
\* in one UPDATE or one run of the update script.
Untagged(d, entry) == [d EXCEPT !.hist = Append(@, entry), !.esc = FALSE]
Marked(d, entry) ==
    IF entry = "de-escalated" THEN Untagged(d, entry)
    ELSE [d EXCEPT !.hist = Append(@, entry),
                   !.arch = @ \/ entry \in {"archived", "auto-archived"},
                   !.esc = @ \/ entry = "escalated"]

Apply(S, entry) == [e \in Events |-> IF e \in S THEN Marked(doc[e], entry) ELSE doc[e]]

\* An update-by-query is over when it has no hits left.
Pending(S, entry) == IF S = {} THEN None ELSE [docs |-> S, entry |-> entry]

\* A write by one actor is a version conflict for the others' pending hits.
Conflict(S, a) == [b \in Actors |-> IF b = a \/ upd[b] = None THEN upd[b]
                                    ELSE Pending(upd[b].docs \ S, upd[b].entry)]

\* One statement on SQLite; on Elasticsearch the search half of the update.
Update(a, S, entry) ==
    IF store = "sqlite"
    THEN WriterFree /\ doc' = Apply(S, entry) /\ UNCHANGED upd
    ELSE /\ upd[a] = None
         /\ upd' = [upd EXCEPT ![a] = Pending(S, entry)]
         /\ UNCHANGED doc

\* The update half: every hit that neither changed nor vanished since the search.
UpdateHits(a) ==
    /\ upd[a] # None
    /\ LET hits == upd[a].docs \cap Stored
       IN  /\ doc' = Apply(hits, upd[a].entry)
           /\ upd' = [Conflict(hits, a) EXCEPT ![a] = None]
    /\ UNCHANGED <<store, now, queue, acked, tx, tries, fts, idx, ret, shown, ops, filterq, faults>>

----------------------------------------------------------------------------
(* The user. *)

SameGroup(e, g) == Attr[e].alert /\ Attr[e].sid = g.sid /\ Attr[e].ip = g.ip
InWindow(e, g) == g.min <= Day(e) /\ Day(e) <= g.max
OnSensor(e, h) == h = None \/ Attr[e].host = h
Named(e, g) == g.names \subseteq Attr[e].names

\* The WHERE of the inbox queries: alerts not archived, of one sensor if the user
\* chose one.
SqliteInbox(h) == {e \in Stored : Attr[e].alert /\ ~doc[e].arch /\ OnSensor(e, h)}
GroupedInbox(h) == {e \in Stored : Attr[e].alert /\ ~doc[e].arch /\ OnSensor(e, h)}
ElasticInbox(h) == {e \in Stored : Attr[e].alert /\ ~doc[e].arch /\ OnSensor(e, h)}

Group(rows, e) == {f \in rows : SameGroup(f, Attr[e])}

\* Variant: the time of the oldest is not lowered by the rows that follow.
LineOfNewest(rows, e, h) ==
    LET group == Group(rows, e)
        days == {Day(f) : f \in group}
        newest == CHOOSE d \in days : \A x \in days : d >= x
    IN  [sid |-> Attr[e].sid, ip |-> Attr[e].ip, host |-> h, names |-> {}, rows |-> group,
         min |-> newest, max |-> newest]

\* A line of the inbox: the alerts of a signature and a pair of addresses, with
\* the times of the oldest and the newest of them.
Line(rows, e, h) ==
    LET group == Group(rows, e)
        days == {Day(f) : f \in group}
    IN  [sid |-> Attr[e].sid, ip |-> Attr[e].ip, host |-> h, names |-> {}, rows |-> group,
         min |-> CHOOSE d \in days : \A x \in days : d <= x,
         max |-> CHOOSE d \in days : \A x \in days : d >= x]

\* alerts_with_timeout reads the newest rows first and stops when time is up.
TimedLines(h) ==
    UNION {LET rows == {f \in SqliteInbox(h) : Day(f) >= Day(cut)}
           IN  {Line(rows, e, h) : e \in rows} : cut \in SqliteInbox(h)}

\* alerts_group_by aggregates all rows in SQL.
GroupedLines(h) == {Line(GroupedInbox(h), e, h) : e \in GroupedInbox(h)}

\* The nested buckets of the Elasticsearch response, one per group.
BucketLines(h) == {Line(ElasticInbox(h), e, h) : e \in ElasticInbox(h)}

\* Does an auto-archive filter select the event?  The one of Attr.
Filtered(e) == Attr[e].alert /\ TRUE \in Attr[e].tags

\* The listing counts what each filter in force would archive of it, and sends
\* those that match to the processor: filters made after the events came in, or
\* events another program stored.  (The filter may have been deleted meanwhile.)
QueueFilters(h) ==
    IF store = "elastic" /\ \E e \in ElasticInbox(h) : Filtered(e) THEN filterq' \in {filterq, TRUE} ELSE UNCHANGED filterq

\* The user looks at one line; archiving it takes it off the screen.
ListAlerts ==
    /\ shown = None /\ ops < MaxOps
    /\ \E h \in Sensors :
          /\ shown' \in IF store = "sqlite" THEN TimedLines(h) \union GroupedLines(h) ELSE BucketLines(h)
          /\ QueueFilters(h)
    /\ UNCHANGED <<store, now, doc, queue, acked, tx, tries, fts, idx, ret, upd, ops, faults>>

\* The request: the line as a signature, addresses and times, perhaps narrowed to
\* names.  The web interface leaves the sensor out; another client need not.
AlertGroupSpec(N, h) == [shown EXCEPT !.names = N, !.host = h]

\* The WHERE of archive_by_alert_group: absent and empty addresses match a group
\* without addresses; the sensor of the request is not looked at.
SqliteArchiveSel(g) ==
    {e \in Stored : SameGroup(e, g) /\ Named(e, g) /\ InWindow(e, g) /\ ~doc[e].arch}

\* The WHERE of set_escalation_by_alert_group: "src_ip = ?" is never true of a
\* row without addresses; neither the names nor the sensor are looked at.
SqliteEscalateSel(g, to) ==
    {e \in Stored : SameGroup(e, g) /\ Attr[e].ip # None /\ InWindow(e, g) /\ doc[e].esc # to}

\* build_alert_group_filter, which restricts every operation to the names and to
\* the sensor.
ElasticGroupSel(g) ==
    {e \in Stored : SameGroup(e, g) /\ Named(e, g) /\ InWindow(e, g) /\ OnSensor(e, g.host)}

\* add_tags_by_alert_group skips the events that have the tag ...
ElasticTagSel(g, entry) ==
    {e \in ElasticGroupSel(g) : IF entry = "archived" THEN ~doc[e].arch ELSE ~doc[e].esc}
\* ... and remove_tags_by_alert_group those that do not.
ElasticUntagSel(g) == {e \in ElasticGroupSel(g) : doc[e].esc}
ElasticOpSel(g, entry) == IF entry = "de-escalated" THEN ElasticUntagSel(g) ELSE ElasticTagSel(g, entry)

UserOp(S, entry) ==
    /\ ops < MaxOps
    /\ Update("user", S, entry)
    /\ ops' = ops + 1
    /\ UNCHANGED <<store, now, queue, acked, tx, tries, fts, idx, ret, filterq, faults>>

\* The names are read off the events of the line: "Auto-archive SID with DNS
\* query" adds a filter and archives that part of the line.
ArchiveGroup(N) ==
    /\ shown # None /\ shown' = None
    /\ \A n \in N : \E e \in shown.rows : n \in Attr[e].names
    /\ \E h \in {None, shown.host} :
         UserOp(IF store = "sqlite" THEN SqliteArchiveSel(AlertGroupSpec(N, h))
                ELSE ElasticOpSel(AlertGroupSpec(N, h), "archived"), "archived")
StarGroup(up) ==
    /\ shown # None /\ UNCHANGED shown
    /\ LET entry == IF up THEN "escalated" ELSE "de-escalated" IN
       \E h \in {None, shown.host} :
         UserOp(IF store = "sqlite" THEN SqliteEscalateSel(AlertGroupSpec({}, h), up)
                ELSE ElasticOpSel(AlertGroupSpec({}, h), entry), entry)
EscalateGroup == StarGroup(TRUE)
DeescalateGroup == StarGroup(FALSE)

\* Operations on one event of a page opened earlier.  An event that has been
\* removed meanwhile is reported missing (SQLite) or matches nothing.
SqliteArchiveId(e) == {e} \cap Stored
SqliteEscalateId(e) == {e} \cap Stored
SqliteCommentId(e) == {e} \cap Stored
ElasticId(e) == {e} \cap Stored      \* a query for one _id

ArchiveEvent(e) ==
    UserOp(IF store = "sqlite" THEN SqliteArchiveId(e) ELSE ElasticId(e), "archived") /\ UNCHANGED shown
EscalateEvent(e) ==
    UserOp(IF store = "sqlite" THEN SqliteEscalateId(e) ELSE ElasticId(e), "escalated") /\ UNCHANGED shown
DeescalateEvent(e) ==
    UserOp(IF store = "sqlite" THEN SqliteEscalateId(e) ELSE ElasticId(e), "de-escalated") /\ UNCHANGED shown
CommentEvent(e) ==
    UserOp(IF store = "sqlite" THEN SqliteCommentId(e) ELSE ElasticId(e), "comment") /\ UNCHANGED shown

\* What a filter selects anywhere in the store, not only in what was listed.
FilterSel == {e \in Stored : Filtered(e) /\ ~doc[e].arch}

\* AutoArchiveProcessor::run takes one filter at a time from its channel and
\* awaits the update-by-query; the filter is not looked up again.
FilterArchive ==
    /\ filterq /\ filterq' = FALSE
    /\ Update("filter", FilterSel, "auto-archived")
    /\ UNCHANGED <<store, now, queue, acked, tx, tries, fts, idx, ret, shown, ops, faults>>

----------------------------------------------------------------------------
(* Retention and auto-archive. *)

\* The oldest n rows of a set: ORDER BY timestamp ASC LIMIT n.
Oldest(C, n) ==
    {D \in SUBSET C : /\ Cardinality(D) = IF Cardinality(C) < n THEN Cardinality(C) ELSE n
                      /\ \A d \in D, c \in C \ D : Day(d) <= Day(c)}

Delete(S) ==
    /\ doc' = [e \in Events |-> IF e \in S THEN Fresh("gone", e \in queue /\ doc[e].tag) ELSE doc[e]]
    /\ idx' = idx \ S            \* events_ad_trigger

\* Each round of the task reads its settings again: a size or a number of days that
\* is absent or disabled (or, for the size, a file without auto-vacuum) skips the
\* stage.  The stages that may come next:
GetDays == {"days", "archive"}
GetSize == {"size"} \union GetDays

\* Variant: only archived events are given up for space.
SizeRoundArchived ==
    /\ store = "sqlite" /\ ret = "size"
    /\ IF Cardinality(Stored) < SizeLimit
       THEN ret' \in GetDays /\ UNCHANGED <<doc, idx>>
       ELSE /\ WriterFree
            /\ \E D \in Oldest({e \in Stored : ~doc[e].esc /\ doc[e].arch}, Limit) : Delete(D)
            /\ UNCHANGED ret
    /\ UNCHANGED <<store, now, queue, acked, tx, tries, fts, shown, upd, ops, filterq, faults>>

\* delete_to_size: delete the oldest rows that are not escalated until the file
\* is small enough, however many of the rows left may be deleted.
SizeRound ==
    /\ store = "sqlite" /\ ret = "size"
    /\ IF Cardinality(Stored) < SizeLimit
       THEN ret' \in GetDays /\ UNCHANGED <<doc, idx>>
       ELSE /\ WriterFree
            /\ \E D \in Oldest({e \in Stored : ~doc[e].esc}, Limit) : Delete(D)
            /\ UNCHANGED ret
    /\ UNCHANGED <<store, now, queue, acked, tx, tries, fts, shown, upd, ops, filterq, faults>>

\* Variant: the age of an event is all that counts.
DaysRoundAll ==
    /\ store = "sqlite" /\ ret = "days" /\ WriterFree
    /\ \E D \in Oldest({e \in Stored : Day(e) < now - RetainDays}, Limit) : Delete(D)
    /\ ret' = "archive"
    /\ UNCHANGED <<store, now, queue, acked, tx, tries, fts, shown, upd, ops, filterq, faults>>

\* delete_older_than.
DaysRound ==
    /\ store = "sqlite" /\ ret = "days" /\ WriterFree
    /\ \E D \in Oldest({e \in Stored : Day(e) < now - RetainDays /\ ~doc[e].esc}, Limit) : Delete(D)
    /\ ret' = "archive"
    /\ UNCHANGED <<store, now, queue, acked, tx, tries, fts, shown, upd, ops, filterq, faults>>

\* do_delete_indices: whole daily indices, escalated events included.
DeleteIndices ==
    /\ store = "elastic" /\ ret = "days"
    /\ LET S == {e \in Stored : now - Day(e) > RetainDays}
       IN  /\ Delete(S)
           /\ upd' = Conflict(S, None)
    /\ ret' = "archive"
    /\ UNCHANGED <<store, now, queue, acked, tx, tries, fts, shown, ops, filterq, faults>>

AgedSel == {e \in Stored : Attr[e].alert /\ Day(e) < now - ArchiveDays /\ ~doc[e].arch}

\* auto_archive of either retention task, the last step before it sleeps.
AgeArchive ==
    /\ ret = "archive"
    /\ \/ Update("retention", AgedSel, "auto-archived")
       \/ UNCHANGED <<doc, upd>>       \* config.autoarchive absent or disabled
    /\ ret' = "sleep"
    /\ UNCHANGED <<store, now, queue, acked, tx, tries, fts, idx, shown, ops, filterq, faults>>

\* The task wakes after its interval; on Elasticsearch it awaits the update first.
RetentionWakes ==
    /\ ret = "sleep" /\ upd["retention"] = None
    /\ ret' \in IF store = "sqlite" THEN GetSize ELSE GetDays
    /\ UNCHANGED <<store, now, doc, queue, acked, tx, tries, fts, idx, shown, upd, ops, filterq, faults>>

----------------------------------------------------------------------------
(* Full text search on SQLite. *)

\* fts_enable reindexes every row in the same transaction; fts_disable drops the
\* table and its trigger.
SetFts(on) ==
    /\ store = "sqlite" /\ ops < MaxOps /\ fts # on
    /\ fts' = on
    /\ idx' = IF on THEN Stored ELSE {}
    /\ ops' = ops + 1
    /\ UNCHANGED <<store, now, doc, queue, acked, tries, ret, shown, upd, filterq, faults>>

\* Another connection's commit makes the sink's open transaction stale.
Outdate == tx' = IF tx = None THEN None ELSE [tx EXCEPT !.stale = TRUE]

\* The API's handlers hold the writer ...
ApiSetsFts(on) == WriterFree /\ SetFts(on) /\ UNCHANGED tx
\* ... the evebox command opens the file a second time.
CommandSetsFts(on) == SetFts(on) /\ Outdate

\* "evebox sqlite fts optimize" rewrites the index and changes no entry.
CommandOptimizes ==
    /\ store = "sqlite" /\ fts /\ tx # None /\ ops < MaxOps
    /\ Outdate
    /\ ops' = ops + 1
    /\ UNCHANGED <<store, now, doc, queue, acked, tries, fts, idx, ret, shown, upd, filterq, faults>>

NextDay ==
    /\ now < MaxDay
    /\ now' = now + 1
    /\ UNCHANGED <<store, doc, queue, acked, tx, tries, fts, idx, ret, shown, upd, ops, filterq, faults>>

----------------------------------------------------------------------------
Sink == SinkBegin \/ SinkCommit \/ SinkLocked \/ BulkOk \/ \E S \in SUBSET queue : BulkFails(S)
Retention == SizeRound \/ DaysRound \/ DeleteIndices \/ AgeArchive \/ RetentionWakes
User == \/ ListAlerts \/ \E N \in SUBSET Names : ArchiveGroup(N)
        \/ EscalateGroup \/ DeescalateGroup
        \/ \E e \in acked \cap Opened : ArchiveEvent(e) \/ EscalateEvent(e) \/ DeescalateEvent(e) \/ CommentEvent(e)

StoreNext ==
    \/ \E e \in Events : SqliteSubmit(e) \/ ElasticSubmit(e)
    \/ Sink \/ Retention \/ User
    \/ FilterArchive
    \/ \E a \in Actors : UpdateHits(a)
    \/ \E on \in BOOLEAN : ApiSetsFts(on) \/ CommandSetsFts(on)
    \/ CommandOptimizes
    \/ NextDay

\* The sink's, the retention task's and the filter processor's loops are spawned
\* at start and only ever sleep or wait for their channel; a request sent to
\* Elasticsearch is answered.
StoreFairness ==
    /\ WF_storeVars(SinkBegin \/ SinkCommit \/ SinkLocked \/ BulkOk)
    /\ WF_storeVars(Retention)
    /\ WF_storeVars(FilterArchive \/ \E a \in Actors : UpdateHits(a))

StoreSpec == StoreInit /\ [][StoreNext]_storeVars /\ StoreFairness
----------------------------------------------------------------------------
(* Properties. *)

DocState == [st : {"new", "queued", "stored", "gone"}, arch : BOOLEAN, esc : BOOLEAN, tag : BOOLEAN,
             hist : Seq(Entries), copies : Nat]

StoreTypeOK ==
    /\ store \in Stores /\ now \in 0 .. MaxDay
    /\ doc \in [Events -> DocState]
    /\ queue \subseteq Events /\ acked \subseteq Events /\ idx \subseteq Events
    /\ tx \in [fts : BOOLEAN, stale : BOOLEAN] \union {None}
    /\ tries \in 0 .. MaxTries - 1
    /\ fts \in BOOLEAN /\ filterq \in BOOLEAN
    /\ ret \in {"sleep", "size", "days", "archive"}
    /\ ops \in 0 .. MaxOps /\ faults \in 0 .. MaxFaults

Escalations(h) == {i \in DOMAIN h : h[i] \in {"escalated", "de-escalated"}}
LastIs(h, entry) == \E i \in Escalations(h) : h[i] = entry /\ \A j \in Escalations(h) : j <= i

\* The history shown to the analyst explains the flags the queries use: an event
\* is archived exactly when its history says by whom, and escalated exactly when
\* the last escalation entry says so, whichever of the user and the retention
\* task wrote first and however their updates overlapped.
HistoryExplains ==
    \A e \in Stored :
        /\ doc[e].arch <=> \E i \in DOMAIN doc[e].hist : doc[e].hist[i] \in {"archived", "auto-archived"}
        /\ doc[e].esc <=> LastIs(doc[e].hist, "escalated")

\* While full text search is on it finds every stored event and no deleted one:
\* also when a command of the evebox tool switches it while the sink, which
\* looked for the table before, is about to insert.
SearchIndexExact == IF fts THEN idx = Stored ELSE idx = {}

\* A commit reported as done has stored its events, and no retry of a locked,
\* partly failed or unanswered commit stores an event twice.
AckedStoredOnce ==
    /\ \A e \in acked : doc[e].st \in {"stored", "gone"}
    /\ \A e \in Events : doc[e].copies <= 1

Life == INSTANCE EventLifecycle
          WITH stage <- [e \in Events |-> CASE doc[e].st = "stored" -> "stored"
                                            [] doc[e].st = "gone" -> "removed"
                                            [] OTHER -> "absent"],
               archived <- {e \in Stored : doc[e].arch},
               escalated <- {e \in Stored : doc[e].esc},
               keeps <- (store = "sqlite")

\* Both backends implement the life of an event that the interface shows:
\* archiving is for good, each operation is one step, and on SQLite retention
\* never removes an escalated event and a removed one does not come back.
ImplementsLifecycle == Life!LifeSpec

\* Does the user's operation archive the event: now, or as a hit of the
\* update-by-query that it sends?
Archives(e) ==
    /\ e \in Stored /\ ~doc[e].arch
    /\ doc'[e].arch \/ (upd'["user"] # None /\ e \in upd'["user"].docs)

\* The analyst archives what the line on the screen stood for when it was listed,
\* and no alert that came in newer or was left out as older: the request holds
\* only a signature, addresses and two times, and the events they mean are looked
\* up a second time, after others were stored, archived and removed.  A name in
\* the request keeps the rest of the line in the inbox.
ArchiveMatchesLine ==
    [][\A N \in SUBSET Names : ArchiveGroup(N) =>
         /\ \A e \in shown.rows \cap Stored :
               N \subseteq Attr[e].names => doc[e].arch \/ Archives(e)
         /\ \A e \in Stored : Archives(e) =>
               /\ N \subseteq Attr[e].names
               /\ \E f, g \in shown.rows :
                    /\ Day(f) <= Day(e) /\ Day(e) <= Day(g)
                    /\ Attr[f].sid = Attr[e].sid /\ Attr[f].ip = Attr[e].ip]_storeVars

\* A failed bulk request that created some documents: the retry is refused them.
Wedged == store = "elastic" /\ queue \cap Stored # {}

\* What is queued is committed in the end, whatever locks and failures the sink
\* met, except after a bulk request that was carried out in part.
QueueDrains == []<>(queue = {} \/ Wedged)

\* Retention by size ends, so that retention by age and auto-archive get their
\* turn, unless escalated events alone fill the database.
SizeLoopEnds ==
    []<>(ret = "sleep") \/ []<>(Cardinality({e \in Stored : doc[e].esc}) >= SizeLimit)
=============================================================================
