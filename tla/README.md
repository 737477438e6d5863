# A formal model of EveBox

EveBox collects Suricata EVE events, stores them in SQLite or Elasticsearch, and serves alerts,
searches and packet captures to a browser. This directory models the parts of the program in which
several actors, failures and restarts meet, and the algorithms whose results two implementations
must agree on. TLC checks the models on small instances; TLAPS proves the most important facts for
every value of the parameters.

`PROJECT.json` lists components, runs, mutants, the map from definitions to source lines, hazards,
findings and theorems. This file explains them. Paths below are relative to `src/src/`.

Contents: [inventory](#inventory) · [modules](#modules) · [runs](#runs) · [fairness](#fairness) ·
[proofs](#proofs) · [findings](#findings) · [what is not modelled](#what-is-not-modelled) ·
[plan](#plan)

## Inventory

| Component | Source | State | Operations | Model |
|---|---|---|---|---|
| EVE file ingest | `eve/processor.rs`, `eve/reader.rs`, `eve/spool.rs`, `eve/watcher.rs`, `bookmark.rs` | open file, line number, completed spool files, sink queue, bookmark file | start from a bookmark or an end of the input, read, skip, submit, commit, checkpoint, follow rotation, advance in the spool, delete | `EveIngest` |
| EVE socket input | `eve/socket.rs` | connection, read buffer, bounded queue, byte budget, sink queue | accept, read a record, tick, enqueue or drop, submit, flush, commit and retry | `SocketIngest` |
| Event sinks | `sqlite/importer.rs`, `agent/importer.rs`, `elastic/importer.rs` | queue of events, open transaction | submit, commit, retry | `EveIngest`, `EventStore` |
| Event store | `sqlite/eventrepo*`, `elastic/eventrepo/*`, `server/api/alerts.rs` | rows or documents with flags and history | list the inbox, archive, escalate, comment, by group or event | `EventStore`, `EventLifecycle` |
| Retention, auto-archive | `sqlite/retention.rs`, `elastic/retention.rs`, `elastic/autoarchive.rs`, `eve/filters.rs` | stage of the task, filter channel | delete by size, by age, by index; archive by age and by filter | `EventStore` |
| Full text search | `sqlite/util.rs`, `cli/sqlite/fts.rs` | the index | enable, disable, optimize | `EventStore` |
| Query parser, searches, reports | `queryparser.rs`, `sqlite/builder.rs`, `*/eventrepo/{events,agg,stats}.rs`, `server/api/{count,agg,stats}.rs` | parsed elements; stored stats events | parse; search, inbox, count, histogram, top values, counter differences | `EventQuery` |
| Sessions, filters | `server/session.rs`, `server/api/{login,admin}.rs`, `server/main.rs`, `sqlite/configdb.rs` | cache and table of sessions, live set and table of filters, connection pool | log in, look up, expire, log out, add and delete a filter | `ConfigState` |
| Agent registry, keys | `server/agents.rs`, `server/api/agent.rs`, `server/api/admin.rs` | agents by name, revoked keys, shutdown tokens, missed pongs | upgrade, hello, register, replace, ping, revoke, remove | `AgentRegistry` |
| Remote captures, server | `server/pcap/tasks.rs`, `server/api/pcap.rs`, `server/api/agent.rs` | job table, upload state, body and frame channels, permits | admit, probe, register, dispatch, upload, deliver, wait, stream, cancel | `RemotePcap` |
| Agent control channel | `agent/channel.rs`, `agent/protocol.rs` | connection, jobs, result queue, extraction permit | connect, start, cancel, extract, upload, settle, report | `AgentChannel` |
| Capture routing | `server/pcap/mod.rs`, `server/api/pcap.rs` | routing table in the database and live, save lock | save, restart, resolve a source | `PcapRouting` |
| Local captures | `server/api/pcap.rs`, `server/pcap/mod.rs` | permits, extraction thread, frame channel, cancel token | validate, admit, extract, supervise, stream | `LocalPcap` |
| Packet extraction, purge | `pcap/`, `cli/pcap/{extract,purge}.rs` | cursors, heap, limits | build a request, choose files, merge, cut; purge | `SpoolExtract` |
| Oneshot, start-up, enrichment, other commands, web application | see `PROJECT.json` | | | not modelled |

How they interact. Suricata (external) writes files or a socket; the ingest tasks own a sink each
and call `submit` and `commit` on it. On an agent host the sink is an HTTP client for the server's
submit endpoint; on the server it is SQLite or Elasticsearch, whose rows the user's operations, the
retention task and the auto-archive filters change at the same time. The same agent process keeps a
WebSocket (the control channel) to the server; the server's `AgentRegistry` maps the agent's name to
the current connection. A browser's capture request is routed to the local spool or to an agent. In
the first case a blocking thread extracts and frames the packets; in the second the request becomes
a job that is dispatched over the connection, uploaded by the agent over a separate HTTP request and
streamed on by a supervisor. Terminal results come back over the WebSocket, so upload and result
race. Both ways end in the same extraction code.

What is hard here, and what correctness means:

* **Ingest.** The writer, the rotation, the reader, a crash and a failing store interleave. Nothing
  the bookmark tells a restart to skip may be missing from the store; a spool file may be deleted
  only when its events are stored; every event is stored in the end, and once if nothing failed.
* **Socket input.** A read is cancelled by a timer with half a record buffered, and a queue is
  bounded in two currencies. Each record has exactly one fate.
* **Store.** Four writers share rows; commits are retried after locks, partial failures and lost
  answers; Elasticsearch updates what it searched a while ago. Flags, history and index stay in
  step, and both backends give the same abstract life to an event.
* **Queries.** One query language is translated twice and applied by every report anew. What the
  backends and the reports say of the same events must agree.
* **Sessions and filters.** Two copies, updated with awaits in between. A logout holds; a filter
  stays in force; nobody waits for ever on the pool.
* **Registry.** Connections of one name replace each other while keys are deleted. A revoked key
  keeps no connection alive and a keyed name is not taken over.
* **Captures.** Upload, result, disconnect, browser and timers race in every order. A download that
  ends cleanly is the whole capture; nothing is left behind when a request ends; every request ends.
* **Agent channel.** A blocking extraction cannot be stopped, and outlives workers and connections.
  Its result is published only once it is over, says what happened, and every job ends.
* **Extraction.** Files are chosen by name while the sensor rotates them. Nothing asked for is
  missed, and the result is in order.

The hazards, each at its line with the properties aimed at it, are in `PROJECT.json`.

## Modules

Components of their own: `EveIngest`, `SocketIngest`, `EventStore`, `ConfigState`, `EventQuery`,
`AgentRegistry`, `AgentChannel`, `PcapRouting`, `SpoolExtract`. Compositions: `RemotePcap` extends
`AgentRegistry` with the captures served over its connections; `LocalPcap` extends `PcapRouting` with
the requests that are routed by it. `EventLifecycle` is the abstract specification that `EventStore`
implements (`ImplementsLifecycle`). The modules beginning with `MC` give instances for TLC, several of
them in one run where a component is used in several ways; those ending in `Proofs` hold theorems only,
`AgentProofs` those of `EveIngest` and `AgentChannel`, `ApiProofs` those of `ConfigState` and
`EventQuery`, `RemotePcapProofs` also those of `AgentRegistry`, `LocalPcapProofs` also those of
`PcapRouting`. `Counting` has the lemmas about numbers and finite sets that several of them cite. A
definition introduced by the comment "Variant:" is a plausible defect of the definition below it; no
specification uses it, it shows that a property is sensitive.

### EveIngest

A file is an inode with a sequence of lines; in spool mode each has its own path, in plain mode one
path is re-bound by rotation. A line is `<<inode, number>>` and has a kind: event, blank, malformed,
or an event without a timestamp. The content of an event is left out. Positions count lines; an
unterminated last line counts for the size and is not readable, as in `next_line`.

`pc` is the control point of `Processor::run` with the calls it makes: `skip`/`toend` (bookmark or
end), `read`, `scan` (end of file seen, directory not yet listed), `idle` (the `Ok(None)` arm),
`commit`, `mark`/`write` (the bookmark file is truncated, then filled), `delete`, `check`/`reopen`.
The steps are split where another process can act in between: between the end of file and the
directory scan, between validating a bookmark and opening the path again, between truncating and
filling the bookmark.

`waived` is a history variable. It collects lines that the code gives up by design or without
knowing: those skipped by a start at the end, those of another file that a stale bookmark is applied
to, those of a log truncated in place, and those appended after the reader saw the end of a file
that it then leaves. The last group is a finding (below). Properties about loss exclude exactly
these, and are stated without exception where the project documents none.

### SocketIngest

One connection (stream) or socket (datagram), a reader and a processor as in `tokio::join!`. A
record has a kind (normal, large, malformed, blank, oversized) and may be written in two parts.
`got` says whether the current call of `read_until` has read something: it separates `Ok(n)` from
the `Ok(0)` of a call that follows a tick. The sets `stored`, `dropped`, `rejected` and `lost` are
the fates of records; the code keeps counters for the second and third. Sizes are 1 or 2 units, and
`HeldBytes` is the set of units that queued records hold.

### EventStore and EventLifecycle

`store` is drawn once: SQLite or Elasticsearch, as `EventRepo` dispatches. `doc[e]` is the row or
document of an event with its flags, its history and how often it was stored. On SQLite the writers
of the server share one connection behind a mutex, so an operation is one step that waits for the
sink's transaction; the commands of the evebox tool write beside it and make the sink's snapshot
stale, which SQLite reports as "locked". On Elasticsearch an operation is an update-by-query of two
steps: `upd[a]` holds the hits of its search, from which the writes of other actors and the deletion
of an index remove what `conflicts=proceed` would skip. Retention walks through its stages and reads
its settings at each. `shown` is the line of the inbox the user looks at while the store changes
underneath, with the rows it stood for when it was listed (`shown.rows`, a history component). A
request on the line carries its signature, addresses and two times, perhaps the sensor, and perhaps a
name (`dns_rrname`, `tls_sni`) to which the user narrows it; each statement uses its own part of that,
as the selections `SqliteArchiveSel`, `SqliteEscalateSel` and `ElasticGroupSel` show. The three
listings build their lines each in its own way; the timed one of SQLite may stop early, at the newest
rows. Time is in days. Event contents are attributes of the instance: signature, addresses (possibly
absent), sensor, names, and whether the filters archive the event.

`EventLifecycle` says what an analyst may rely on: absent, stored, removed; archived for good;
escalation set and cleared; every operation one step on a set of events; on a store that keeps its
word (`keeps`, SQLite) no escalated event is removed and no removed one returns. On Elasticsearch
both happen: indices are deleted whole, and a document queued for a retry is created again after its
index was deleted.

### ConfigState

A handler is a task with one control point per await. `sess` and `rows` are tables, `cache` and
`live` the copies in memory, `pool` the free connections. `SessionExtractor` runs before each handler:
cache, else a look-up in a transaction, which for an expired row takes a second connection while it
holds the first. A handler may be dropped at an await, a statement may fail, the server may restart
(memory is rebuilt from the tables) and the evebox command may remove a user. `excused` is a history
variable for logouts that raced with a look-up, failed or were dropped: there a session can come
back, as the hazards list. The expiry of the cookie in the cache is absent because the code has none.

### EventQuery

`elements` is the query parsed so far, one action per kind of token. For each datastore the module
states which events a query selects: `SqliteRow` over the WHERE clauses of `EventQueryBuilder` with
its joins and SQL's treatment of NULL, and `ElasticSearch` over the must, must_not and should clauses
of `apply_query_string`; the two inbox listings of SQLite have clauses of their own. A DNS event has
arrays beside its fields. For keys that lead into the queries or answers SQLite joins a row per element
(`JoinRows`) and compares it as a text; for authorities and additionals it looks for the value anywhere
in the array's text (`Glob`). Elasticsearch sees a field with many values (`ArrayTerm`). On top of it are
count, histogram and top values as each backend computes them, without the joins on SQLite
(`SqliteFails`); top values in either order, so that the group of the events without the field takes a
place of the LIMIT and is then dropped, or comes last, and Elasticsearch ends its ascending list at
`RareDocs`. The second half keeps stats events of
sensors that may restart (`grown` is a history variable with the true growth) and computes the
counter reports. The exceptions in `Same` and `Narrower` are differences between the backends, listed
under [findings](#findings).

### AgentRegistry

One task per connection: HTTP upgrade with authentication, hello, registration, the select loop,
removal, disconnect callback. A connection's identity stands for the generation number. The DELETE
of a key is four steps (look-up, row, revocation under the lock, cancellation after it), any of
which another task can separate; `ClientAborts` says whether the handler's future may be dropped at
an await. `slot` is the PCAP semaphore, named by the connection that created it.

### RemotePcap

Per request: `req` (the handler and, after the first chunk, the supervisor), `task` (the entry in
`tasks::Registry`), `up` (upload and body channel), `resp` (frame channel and browser), and the
agent's view `ajob`. `classify_result` is translated case by case. The agent is external and may
report any result of `AgentResults` at any time once it was sent the job, also a wrong one. A chunk
is one unit; limits and counts are in chunks. `FailPending` is `Disconnected` of the registry with
its effect on jobs, so the composition replaces that action and keeps all others.

### AgentChannel

Per job: `work` (the entry in `Jobs`, the async worker and its supervisor; whether its range is refused
is settled when it starts, before it waits for the extraction permit), `fetch` (the blocking
extraction and the bounded channel), `upload` (the HTTP request that owns the body stream). The
extraction semaphore is shared by all connections. A worker may panic wherever it awaits; the
receiver of the channel then goes unless the upload owns it. An extraction may send any number of
chunks; only queued ones are counted. When a job is done its memory is cleared. The server, which
may stop reading or never answer, and the network are external. Delays between connection attempts
are not modelled: an attempt that fails changes nothing but the next delay.

### PcapRouting and LocalPcap

A save of the routing table is refused, or takes the lock, writes the row and sets the live table;
it may fail at the row or be dropped between the two (`unsettled`). `ResolveSource` follows
`resolve_source`: the source the request names, the operator's table, and only without a table the
stamp of the importing agent, the hostname and the single source.

Per request `LocalPcap` has the handler with its response body, the blocking thread with its bounded
frame channel, and the supervisor that owns the permits. `fetch` returns success also when it was
cancelled; a thread may hang in a read or panic; the client may leave at any point; the first-frame,
idle and grace timers fire whenever what they watch is pending. `route` is a history variable: the
table and the source when the request was resolved. A request that goes to an agent holds its permits
until it ends and is otherwise left to `RemotePcap`.

### SpoolExtract

The sensor (external) appends packets with slightly disordered stamps and rotates files whose names
hold whole seconds. `Start` turns an event or a user's window into a request: `DeriveWindow`,
`Selector` and `ToBpf` are `timeframe.rs` and `filter.rs`, with the filter as the set of packets it
selects per link type. A request comes from the API or from the command line (`cli`): the latter has no
margin (`MarginOf`), without a start it reads the whole spool and with a start but no duration its window
has no end. `List` chooses and prunes files; each rotation group has a cursor; the merge
takes the earliest head, opens and skips files, meets vanished ones and exhausted descriptors, and
stops at limits or cancellation. A pass of the purge lists the files, sorts them by age and goes through
what its limit does not keep; each removal may fail, which is counted while it goes on with the rest,
and the pass ends with an error if any did (`PurgeDeletes`, `PurgeFails`, `PurgeEnds`). Passes follow
one another. `known` is a history variable: what was on disk when the spool was listed.

## Runs

| Run | Instance | Shows |
|---|---|---|
| `ingest` | spool: 3 files of 1 line, 2 faults, deletion on; plain log: 2 inodes of 1 line, or 1 of 2, 1 fault, tail mode; import: 2 files of 2 lines of every kind, 1 fault | a restart never skips an event that is not stored (`BookmarkCommitted`); deletion only after storage (`DeletedCommitted`); events are stored twice only after a fault (`DuplicatesNeedFaults`); a spool's events are stored (`SpoolIsStored`) |
| `ingest_deletion_race` | 2 files, no faults | violation: see findings |
| `socket_ingest` | 3 records of 5 kinds, queue of 1 record and 2 units, batch of 2, 1 fault, both socket types | `OneFate` (with the byte budget), `QueuedIsSettled` |
| `event_store` | 3 alerts on two days and sensors, one with a name, one without addresses; 3 days, 2 operations or one and a fault, both stores | flags and history agree (`HistoryExplains`); the text index is exact (`SearchIndexExact`); no retry stores twice (`AckedStoredOnce`); refinement (`ImplementsLifecycle`); archiving a line reaches what it stood for when listed, and nothing else (`ArchiveMatchesLine`); `QueueDrains`; `SizeLoopEnds` |
| `config_state` | 2 concurrent requests of at most 4, pool of 1, 2 tokens, 1 filter in 2 rows, 2 mishaps | `LogoutHolds`, `FilterStaysInForce`, `RequestsAnswered` |
| `event_query` | queries of up to 2 tokens over 5 events, 11 keys, 5 words (60,132 states); 3 stats events of 2 sensors | the backends find the same events (`SearchAgrees`); reports count what the search lists (`ReportsAgree`, of `HistogramsAgree` and `TopsAgree`); elements narrow (`ElementNarrows`); differences stay within the growth (`DiffWithinGrowth`) |
| `agents_safety` | 3 connections and 2 successive keys of one name, requests dropped; or 2 connections and a capture | `RevokedIsStopped`, `NoEviction`; the capture invariant `PcapInv`: each dispatched job is known to the teardown of its connection, none is uploaded to after it, an empty answer hides no upload, an ended request holds nothing |
| `agents_live` | 1 connection that may fall silent, 1 capture of up to 2 chunks, results that confirm, misstate, omit or deny the upload | `CleanEndIsWhole`, `SilentIsReaped`, `RequestEnds`, `CancelReaches` |
| `agent_channel` | 2 jobs, 2 connections, 1 panic, all capacities 1 | `SettledIsStopped`, `OneExtraction`, `ResultIsHonest`, `JobEnds` |
| `local_pcap` | 1 request of up to 4 chunks; 2 overlapping; 5 on a hanging spool; 18 kinds of request against 4 tables and 2 agents; 2 concurrent saves | `CleanIsWhole`, `OneLocalExtraction`, `StampedStaysHome`, `RoutingAgrees`, `SlotsComeBack` |
| `spool_extract` | 2 threads, 3 packets, 3 files, half-second ticks; a flow; windows within a second, also from the command line; a purge beside an extraction; passes of a purge with failing removals (3.1 million states) | `NothingMissed`, `TimeOrdered`, `OnlyTheFlow`, `PurgeWithinLimit` |
| `spool_margin` | a command line request from the middle of a second, without an end | violation: see findings |

Why the bounds are enough for the cases they aim at:

* Three spool files let a file be completed while another is read and a third is opened, and let the
  bookmark pass over one. Two faults let a crash follow a failed bookmark write or a lost commit
  answer. One line per file suffices there because a batch spans files; the long log has two, so
  that a bookmark can be in the middle of a file.
* Capacity 1 for queues and channels makes them full in every other state; capacity 2 in units with
  records of 1 and 2 makes slots and bytes run out independently.
* Three events are a group of two, of which the user sees one on a sensor, and one without addresses;
  two may fill the database (`SizeLimit`), so that size retention deletes, and may be escalated, so
  that it cannot. Three days are the least on which an event is too old for both limits of one day.
  Two operations let a user's update overlap retention's or follow it; `Budget` leaves out the third
  mishap beside them.
* A pool of one connection makes the look-up that wants a second one wait; two requests make it wait
  for another. Two mishaps are a dropped handler followed by a restart.
* Two tokens are an operator and an element, or two elements; the five events share and lack each
  field, and three minutes leave an empty bucket between two others. The times a query may name lie
  before, between and after the events, the last also after the clock. Stats events have nothing to do
  with the text index, so they are followed without one only.
* Three connections of one name are a holder, its replacement and a late registration; two keys of
  one name are a deleted and a re-issued one. A behaviour of `agents_safety` is about keys or about a
  capture: the product of both adds states and no shared variable but the registry, which is proved
  to be independent of captures (`PcapImplementsRegistry`). Symmetry over connections is used there,
  where no liveness property is checked.
* Two jobs and two connections are the least with which an extraction outlives its connection while
  the next one starts work.
* Five requests and two permits reach the limit on wedged threads. A second request that starts once
  the first has sent or given up is enough for one extraction at a time.
* Two files of one thread and one of another are the least for pruning by a successor and for a merge.
  Three files and policies that keep one file, two packets or nothing let a removal fail among others
  that succeed, and a second pass make up for it.
* `agents_live` has one capture, whose outbound queue of two the control messages never fill. The code
  calls a cancel lost to a full queue acceptable, so `CancelReaches` is claimed for a queue with room.

Deadlock is checked in `ingest`. The other systems may come to rest: bounded writers, requests and
operations run out, and a finished process has no step.

Each property has a mutant in `PROJECT.json`: a variant of one definition under which TLC finds the
property violated in the same run.

## Fairness

* `MCEveIngest`: weak fairness of the process. The runtime polls the task and a service manager
  restarts a dead process. Writers and faults are not obliged to act, and faults are bounded: a store
  that fails for ever makes no event arrive. Liveness is claimed for a spool only: the tail of a plain
  log that is rotated at the wrong moment is abandoned.
* `SocketIngest`: weak fairness of the reader and of the processor, which `tokio::join!` polls; the
  maintenance interval ticks. The sender owes nothing.
* `EventStore`: weak fairness of the sink, of the retention task and of the updates under way: their
  loops are spawned at start and only ever sleep or wait. Users, commands and new events owe nothing.
* `ConfigState`: weak fairness of each handler; an acquire that cannot be served times out.
* `AgentRegistry`: weak fairness of each connection's task; the ping interval ticks.
* `RemotePcap`: weak fairness of a request that has begun (its handler or supervisor is polled and
  its timers run); strong fairness of writing the control queue, because `select!` chooses among
  ready branches at random. Nothing is assumed of agents and browsers.
* `LocalPcap`: weak fairness of a thread that is not stuck; strong fairness of the supervisor, whose
  idle clock runs on while reads hang and return. A read that hangs may hang for ever, and client and
  handler owe nothing.
* `AgentChannel`: weak fairness of worker, supervisor and of the end of an extraction (its scan is
  bounded by a deadline and its writes by a stall timeout), and of writing results while the
  connection lasts. Nothing obliges the server to answer.

## Proofs

All theorems hold for every value of the constants that satisfies the module's `ASSUME`.

**`AgentProofs`**, the file ingest. `Invariance` proves `Spec => []IInv`; `TypeCorrect`, `BookmarkSafety`,
`NothingDropped`, `DeletionSafety`, `BookmarkReachable` and `ExitFlushes` follow. The properties alone
are not inductive. `IInv` adds four things. `ControlState`: what each control point relies on, above
all that the queue is empty from the checkpoint to its end, which is what makes a bookmark safe - it
is written only when nothing the reader passed is still queued - and that files are deleted only when
the bookmark names the current one. `CompletedHeld`: every event of a completed file is stored, queued
or waived, which becomes `DeletedCommitted` when the queue is empty. `SpoolState`: completed files lie
strictly behind the reader, whose own file exists. `PositionsBound`: a position lies beyond its file
only after a truncation, and then the file is waived, so that a later append cannot land before it.
There is one lemma per action, and the frames of writer actions are shared.

`NoSpuriousDuplicates` (`DuplicatesNeedFaults`) needs a second invariant, `FreshInv`, inductive beside
`IInv`: as long as nothing has failed, the process has started once, and every line in the store or
the queue lies behind the reader - in an earlier file, or before its position. The hard case is
`Reopen`, which starts a file again: it is reached only when the path has moved to a newer inode, or
when the file was truncated, and then its lines are waived.

**`SocketIngestProofs`.** `EveryRecordHasOneFate` (`OneFate`) and `SocketTypes` from `SockInv`. Its
core is `Split`: the six places a record can be in are disjoint and cover what was written. For a read
to move exactly one record the invariant must know how parts lie on the wire (`InOrder`), that what the
sender has not terminated is last (`SenderState`), and that the rest of what the buffer holds comes next
(`BufferState`); otherwise the reset of the buffer could lose a record. The byte budget is counted as a
set of permits, one per record and unit, so that its balance is a fact about cardinalities.

**`EventStoreProofs`.** `StoreInv` says per row that an event outside the store is as it was submitted
and one inside was stored once, with a history that explains its flags; further where queued and
acknowledged events may be, and that a transaction which is not stale still sees the text index as it
is. From it: `HistoryExplainsFlags`, `SearchIndexIsExact`, `AckedIsStoredOnce`, the action property
`ArchiveIsTheLine` (`ArchiveMatchesLine`), and `StoreImplementsLife`, the refinement of
`EventLifecycle`. Every action is one of
four kinds of row step (submit, commit, change of flags, removal) or touches no row; each kind is
proved once, first to keep the invariant and then to be a step of the abstract life. For
`ArchiveIsTheLine` the invariant `ShownInv` says that the line on the screen has the signature and the
addresses of its rows, and times that are those of two of them and between which all of them lie; that
each of the three listings makes such lines, the one that was cut off included, and that neither the
NULL rules of the statement nor the hits of the update-by-query reach anything else, is the proof.

**`ApiProofs`**, the configuration state. `ConfigInv` joins `LogoutHolds` and `FilterStaysInForce` with
what a handler relies on at each await (`ReqOK`: for instance, a session about to be cached was not
logged out unless excused, and a filter about to be applied has its row or is being deleted), with
session ids being handed out once, and with `PoolConserved`. Theorems: `LogoutIsFinal`,
`AddedFilterStays`, `ConfigTypes`, and `NoConnectionLeaks`, which is the safety half of
`RequestsAnswered`: a wait for the pool is a wait for another handler.

**`ApiProofs`**, the queries. `QueryTypes` is an invariant of the parser alone (`QueryInv`): what it
pushes has a key exactly when it is a key:value pair, which is what the translations rely on without
checking. `SearchesAgree` (`SearchAgrees`) compares the two translations clause by clause: an element
of `Same` selects the same events in both, those that SQLite reads through a join included as long as
no two share a joined array (`OneJoin`), an element of `Narrower` fewer in SQLite, and the conjunction over the elements
keeps both relations; the two inbox listings of SQLite have the same clauses in another form, and
Elasticsearch's inbox is compared with them. `TypingNarrows` (`ElementNarrows`) is an action property:
every step of the parser puts elements behind the others, and each translation is a conjunction over
the elements but for the should clauses, which the hypothesis of the property leaves at most one of.

**`ApiProofs`**, the reports.

* `DifferencesAreReal` (`DiffWithinGrowth`) is about stats events. `grown` alone is not inductive: the
  invariant `StatsInv` says that there is a history of what each sensor had counted in all at each of
  its samples (`Measures`), in which a sample after another is at least their `Delta` further on, and
  that samples are stored in the order of time. A restart resets the counter and not that history.
  Buckets peak at samples one after the other, so their differences telescope to at most `grown`; the
  rows of Elasticsearch have gaps, and `SparseSum` shows that leaving out the derivatives next to them
  only lowers the sum.
* `ReportsCountTheSearch` (`ReportsAgree`) is about count, histogram and top values. A histogram is
  shown to be a `Grid`, a run of adjacent buckets with the number of events in each: on SQLite by
  following the loop that fills gaps row by row (`RowFills`, `RowsFill`, `LoopIsFilled`), on
  Elasticsearch from the bounds of the aggregation. A grid that covers the events has their number as
  its total (`GridTotal`) and tiles (`GridTiles`); its extent is determined by the events and the clock
  (`SpansOnce`), so both databases return the same one. That no event is before the first bucket
  (`InRangeOnly`) is where the first `@from` of the query matters. For the top values, the i-th largest
  count exists and is the same with and without the group of the events that lack the field
  (`TopExists`, `PresentPicks`), so dropping that group after the LIMIT or before it comes to the same
  in descending order (`DroppedZero`) and costs a row in ascending order (`FirstDropped`); leaving out
  the frequent values cuts an ascending list at its end (`RareIsPrefix`).

**`RemotePcapProofs`**, the registry. `RegInv` is inductive. Beside its three properties it needs that a
connection's key was issued for its name, so that no two connections of a key are registered at once
and cancelling the one entry that `revoke_key` finds is enough, and where a DELETE request stands
(`DeleteProgress`). From it follow the registry's properties, `NoEviction` as an action property, and
`DeletedIsStopped` under the hypothesis `~ClientAborts`, which is necessary (see findings).

**`RemotePcapProofs`**, the captures. `PcapImplementsRegistry` proves that `PcapSpec` implements
`RegSpec`: every step of the composed system is a step of the registry or leaves it unchanged. So the
registry's theorems carry over (`PcapKeepsRegistry`). `PcapInvariance` proves that `PcapInv`, as the
runs check it, is inductive, for any number of requests and connections and any agent. The proof showed
a gap that no run could: `JobStarts` has to say that a job is already listed while its handler is
between registering it and sending it. `CleanEndWhole` (`CleanEndIsWhole`) follows.

**`LocalPcapProofs`.** `RoutingConsistent`: the live routing table is the stored one whenever no save
is under way and none was cut off. `RoutingInv` strengthens it by the reason: the save lock is held
from before the row is written until the table is set (`SaveHoldsLock`), so the row is still the one
the save is about to apply (`WrittenIsStored`). `LocalImplementsRouting` shows that serving captures
adds nothing to the table's behaviour, and `LocalRoutingConsistent` carries the result over.
`ServeInvariant` is about the requests: `ClientInv` (what has been received, read ahead and queued is
what the thread made), `ThreadInv` and `SuperInv` for each, and across them that one holds the
spool's permit, that the permits suffice, and that `inflight` counts the running threads. From it
`CleanBodyIsWhole`, `LocalExtractionsSerialized`, `StampedNeverMoves` and `InflightIsExact`.

**`AgentProofs`**, the control channel. `ChInv` relates worker, extraction and upload of each job
(`JobInv`), and says that the semaphore's permit is free exactly when no extraction runs: it travels
with the extraction, not with the worker, which is why a panic cannot free it too early.
`PublishedIsStopped`, `ExtractionsSerialized`, `ResultsAreHonest` and `ChannelTypes` follow. They are
theorems of `ChSpec`, and so of `ChFairSpec`, which the run checks.

**`SpoolExtractProofs`.** Four theorems, for any number of capture threads, files, packets and
requests, while the sensor records and rotates and a purge deletes.

* `RecInv` is about the recording: a packet knows its file and position, a file is named after a second
  no later than its first packets, late ones apart, and (`RotationOK`) what a thread wrote before it
  began a file is older than the end of the second that file is named after. `Grows` says how a step
  may change the recording; everything below is stable under it.
* `CapturesOnlyTheFlow` (`OnlyTheFlow`) and `MergesInTimeOrder` (`TimeOrdered`) follow from `ExtInv`.
  Its core: no two cursors have a file in common, and what went out is not left to be read by any cursor
  (`CursorsOK`, `OutOK`), so a packet goes out once; a thread whose cursor is not spent has, at or
  before the packets it has left, one no earlier than anything that went out (`OrderOK`), which is what
  excuses a late packet; and which cursors are settled at each point of `fill`, `refill` and `merge`
  (`FillOK`), without which the earliest head is not the earliest of all. Every step but listing and
  writing only narrows what the cursors have left (`Narrows`), so most of it is proved once.
* `NothingIsMissed` (`NothingMissed`) adds `KnownOK`: a wanted packet that was on disk when the spool
  was listed is left to a cursor, is in the output, or is in a file that vanished, has another link
  type or cannot be filtered. `PrunedIsOutside` is where the names matter, and needs the theorem's
  hypothesis `WideMargin`: the margin of every request with a window covers the second a file name
  leaves open and the late packets (`TicksPerSec + Jitter <= MarginOf(ask) + 1`). The run `spool_margin`
  shows that without it the property fails, as it does for a command line request with a start. `WindowIsWide` and `FlowIsMatched` connect the user's request with the derived window
  and the rendered filter.
* `PurgeKeepsTheLimit` (`PurgeWithinLimit`): the property sums up the files that are left, in whatever
  order, and speaks of neither the sorted list nor the number kept. `PurgeInv` says of each file that a
  pass has listed whether it is kept, gone, or counted as failed, while the sensor adds files and appends
  to them; `KeepCountFits` that the number kept is the greatest that fits; and a pass that failed nowhere
  is the only one that reports success.

**`Counting`.** Facts that need induction over the naturals are proved from `Induction`, which takes
the set of the numbers that have the property: the library's well-foundedness of `<` on sets stands in
for its induction theorems, whose parameter is an operator that the installed provers cannot
instantiate. `Iteration` says that a computation step by step exists, which is what a recursive function
needs to be what it is defined as, and `SameIteration` that there is only one; `EnumeratedInOrder` what
`Ascending` lists; `FiniteGreatest` and `FiniteImage` what the CHOOSEs of greatest elements and the
sets of times and values rely on. The loops of `EventQuery` are written as recursive functions for this.

Assumptions on constants are only what the code fixes: bounds and capacities are numbers, positive where
the code has a positive constant; `Reqs` is finite; `Nil` is neither a filter nor a request; refusals
carry one of the codes of `server/api/pcap.rs`. `QueryAssumption` says what a stored event is (flags, a
time after the epoch, names of a DNS query in one of Suricata's two forms), that no word or key is the
absent value, that the store holds finitely many events, and that no client asks for an interval of zero
seconds, by which SQLite's histogram divides. `SpoolAssumption` says that times are numbers.
`FlowAssumption` gives meaning to the `flow` of a packet: its packets have the event's addresses,
protocol and ports in one direction or the other, and only these do where both ports are known.
Continuation fragments carry no ports; those of IPv6 are out of scope, as `pcap/filter.rs:11` says.

Only model-checked:

* all liveness properties (`SpoolIsStored`, `QueuedIsSettled`, `QueueDrains`, `SizeLoopEnds`,
  `RequestsAnswered`, `SilentIsReaped`, `RequestEnds`, `CancelReaches`, `JobEnds`, `SlotsComeBack`),
  because the prover does not handle fairness.

A theorem states the property as the run checks it, so `ReportsAgree` and `DiffWithinGrowth` speak of
lists of up to three values and buckets of one to three ticks; the lemmas behind them (`DroppedZero`,
`SensorReports`) hold for every size and every positive interval.

## Findings

With a run:

* `ingest_deletion_race` — `EveReader::next_record` meets the end of file A, then lists the
  directory, finds B and moves on without another read of A. A line appended to A in between is never
  read, and with `delete-spool-files` it is deleted with the file. The option is documented as
  deleting files "after their events are committed".
* `spool_margin` — `load_files` compares the whole second in the next file's name with a start in
  microseconds. With the margin of zero that `evebox pcap extract` uses, a file is dropped although
  it holds packets of the start's second. The server's margin covers it.

Seen while modelling, without a run of their own:

* The handler that deletes an agent key awaits the database before it revokes the key in the registry
  (`server/api/admin.rs:204`). If it is dropped in between, the row is gone, the agent stays connected
  and a retry answers 404.
* The semaphore that serializes captures of an agent is handed over only from a connection that is
  still registered (`server/agents.rs:272`); after a reconnect a second capture can run beside the
  first, which the comment at line 103 says is prevented.
* `eve/watcher.rs:103` warns that without a bookmark file it "will read from end of file" and then
  makes the processor start at the beginning. `server/api/pcap.rs:1381` says that the per-source lane
  is released before the browser drains its queue, while the permit lives until the supervisor has
  queued the terminal frame.
* Store: an Elasticsearch bulk request that stores a part of its batch is retried with the same ids
  and never succeeds (`Wedged` excuses it in `QueueDrains`); `delete_to_size` does not end while only
  escalated events are left (excused in `SizeLoopEnds`); on SQLite archiving a group ignores a
  sensor in the request (the web interface sends none), escalating one ignores the names as well, and
  escalating a group without addresses matches nothing.
* Sessions: a logout that overlaps a look-up of the same session is undone by the cache; sessions in
  the cache never expire. Filters: two concurrent adds write two rows.
* Queries, SQLite against Elasticsearch: a comparison with an absent field is never true in SQL, so
  negated elements find less; several `@ip` are alternatives on Elasticsearch, a negated `@mac` selects,
  `host:(no-name)` and the aliases of a negated `dns.type` are known there only; `dns.rrname`, `dns.queries.*` and `dns.answers.*` make SQLite's
  count, histogram and top values fail; a histogram of a range that begins after the clock is empty on
  Elasticsearch, which refuses the bounds, while SQLite lists what is stored there. SQLite's histogram
  divides by an interval that a request may give as less than a second, which is zero; the model
  excludes it.
* DNS keys, SQLite against Elasticsearch: two values asked of one array must be in one element of it on
  SQLite and may be in two on Elasticsearch; a number among the queries or answers is compared as a text
  on SQLite and never found; authorities and additionals match any text of the array there.
* Top values, rarest first: SQLite's `agg` returns one row less than `agg_stream` as soon as an event
  lacks the field, because the group without a value takes a place of the LIMIT
  (`sqlite/eventrepo/agg.rs:156`) and is dropped afterwards (line 179).
* Captures: a routing save that is dropped after its row was written leaves the live table old until
  the next save; an empty, truncated native response has no marker; a selector with one port also
  matches the mirrored flow.

## What is not modelled

Content and formats (JSON, EVE, pcap bytes, BPF), logging and counters kept for it, TLS, configuration
look-up and command lines, child processes of the oneshot command, the web application. SQL and
Elasticsearch statements are modelled by what they select and change, not as text. Sizes are small
units, times are ticks, days or the order of events, and timers may fire whenever they are armed.
DHCP and reverse-DNS reports, the submit endpoint's answers and the mapping of field names to ECS are
left out. Events the code drops by design are excluded by the history variables `waived` and
`excused`, which are described above. The rest is listed with reasons in `PROJECT.json`.

## Plan

Done: all components of the inventory's table but its last row, the refinement of the event's life,
the two compositions, and the proofs above.

Next, most important first:

1. A composition of `AgentChannel` with the agent side of `RemotePcap`, replacing the external agent.
2. The submit endpoint between an agent's sink and the server's, with lost answers.
3. The reports that are not in the model: DHCP, reverse DNS, and those of a histogram interval of zero.
