---------------------------- MODULE SpoolExtract ----------------------------
(***************************************************************************)
(* Packet extraction from a spool of rotating capture files, while the     *)
(* sensor keeps writing and rotating and a purge deletes old files.  The   *)
(* request is built from a stored event or from the user's own window and  *)
(* filter; candidate files are chosen by the times in their names; the     *)
(* files of each capture thread are read in order and merged by time.      *)
(*                                                                         *)
(* Times are ticks; a file name holds whole seconds of TicksPerSec ticks.  *)
(* Recording is external (Suricata's pcap-log): packets are written in     *)
(* capture order, which may differ from timestamp order by Jitter ticks.   *)
(***************************************************************************)
EXTENDS Sequences, FiniteSets, Naturals, SequencesExt

CONSTANTS
  None,
  Threads,        \* capture threads, in the order of their file groups
  Kinds,          \* packets on the wire: addresses, ports, protocol, tags
  Links,          \* link types a capture may have
  Asks,           \* capture requests
  Policies,       \* purge command lines
  TicksPerSec,
  Minute,         \* the one-minute slack of derived windows, in ticks
  Margin,         \* SpoolConfig.margin in ticks, where the server asks
  Jitter,
  MaxClock, MaxPackets, MaxFiles   \* bounds on the recording

(* A request's times, and its event's.  The command line has no event, and *)
(* its duration requires a start.                                          *)
AskOK(ask) ==
  /\ {ask.start, ask.duration, ask.before, ask.after} \subseteq Nat \cup {None}
  /\ ask.cli \in BOOLEAN
  /\ ask.cli => ask.event = None /\ (ask.duration # None => ask.start # None)
  /\ ask.event # None =>
       ask.event.ts \in Nat /\ {ask.event.start, ask.event.end} \subseteq Nat \cup {None}

ASSUME SpoolAssumption ==
  /\ Threads \subseteq Nat /\ IsFiniteSet(Threads)
  /\ {Minute, Margin, Jitter} \subseteq Nat /\ TicksPerSec \in Nat \ {0}
  /\ None \notin Nat \cup Kinds \cup Links \cup Asks /\ "ethernet" \in Links
  /\ \A ask \in Asks : AskOK(ask)
  /\ \A policy \in Policies : policy.n \in Nat /\ policy.force \in BOOLEAN

VARIABLES
  clock,
  file,    \* every capture file ever written, in order of creation
  odd,     \* the directory has a name that is not a rotated capture's
  job,     \* the extraction: its request and window
  cursor,  \* GroupCursor of each file group
  at,      \* the cursor being refilled
  stats,   \* FetchStats, BpfExprTracker and the output's link type
  out,     \* packets written
  known,   \* packets each file held when the spool was listed (history)
  purge    \* the purge command: what it listed, how far it is, what failed

spoolVars == <<clock, file, odd, job, cursor, at, stats, out, known, purge>>

Idle == [pc |-> "idle", ask |-> None, start |-> 0, end |-> 0, result |-> "none"]
NoStats == [scanned |-> 0, vanished |-> {}, compiled |-> FALSE, failed |-> FALSE, link |-> None,
            stop |-> "none"]

SpoolInit ==
  /\ clock = 0 /\ file = <<>> /\ odd \in BOOLEAN
  /\ job = Idle /\ cursor = <<>> /\ at = 0 /\ stats = NoStats /\ out = <<>> /\ known = <<>>
  /\ purge = [pc |-> "idle", policy |-> None, listed |-> <<>>, next |-> 1, failed |-> {},
              result |-> "none"]

-----------------------------------------------------------------------------
(* The sensor (external).                                                  *)

FilesOf(t) == {i \in DOMAIN file : file[i].thread = t}
Current(t) == CHOOSE i \in FilesOf(t) : \A j \in FilesOf(t) : j <= i
Packets == FoldLeft(LAMBDA n, f : n + Len(f.packets), 0, file)

(* The packet at position k of file i.                                     *)
Packet(t, kind, ts, i, k) == [kind |-> kind, ts |-> ts, thread |-> t, id |-> <<i, k>>]

Tick ==
  /\ clock < MaxClock /\ clock' = clock + 1
  /\ UNCHANGED <<file, odd, job, cursor, at, stats, out, known, purge>>

(* A late packet carries an earlier timestamp than the one before it.      *)
Stamps == {ts \in 0 .. clock : ts + Jitter >= clock}

Record(t, kind, ts) ==
  /\ Packets < MaxPackets /\ FilesOf(t) # {} /\ ts \in Stamps
  /\ kind.vlan => file[Current(t)].link = "ethernet"
  /\ file' = [file EXCEPT ![Current(t)].packets = Append(@, Packet(t, kind, ts, Current(t), Len(@) + 1)),
                         ![Current(t)].mtime = clock]
  /\ UNCHANGED <<clock, odd, job, cursor, at, stats, out, known, purge>>

(* A new file is named after the second of its first packet.               *)
Rotate(t, kind, ts, link) ==
  LET name == ts \div TicksPerSec
  IN  /\ Packets < MaxPackets /\ Len(file) < MaxFiles /\ ts \in Stamps
      /\ kind.vlan => link = "ethernet"
      /\ \A i \in FilesOf(t) : file[i].name < name
      /\ file' = Append(file, [thread |-> t, name |-> name, link |-> link, mtime |-> clock,
                               there |-> TRUE, packets |-> <<Packet(t, kind, ts, Len(file) + 1, 1)>>])
      /\ UNCHANGED <<clock, odd, job, cursor, at, stats, out, known, purge>>

-----------------------------------------------------------------------------
(* build_request: the window and the filter.                               *)

Second == TicksPerSec

(* derive_window.  Times before the epoch clamp to zero.                   *)
Before(ts, span) == IF ts > span THEN ts - span ELSE 0

DeriveWindow(e) ==
  CASE e.type = "flow" /\ e.start # None ->
         <<Before(e.start, Second), IF e.end # None THEN e.end + Second ELSE e.start + Minute>>
    [] e.type # "flow" /\ e.start # None -> <<Before(e.start, Second), e.ts + Minute>>
    [] OTHER -> <<Before(e.ts, Minute), e.ts + Minute>>

(* selector_from_event: ports count for protocols that have them, and      *)
(* bare "icmp" is read by address family.                                  *)
PortProtocols == {"tcp", "udp", "sctp"}

NormalizeProto(e) == IF e.proto = "icmp" /\ e.v6 THEN "icmp6" ELSE e.proto

Selector(e) ==
  [proto |-> NormalizeProto(e), a |-> e.src, b |-> e.dst, v6 |-> e.v6,
   x |-> IF e.proto \in PortProtocols THEN e.sport ELSE None,
   y |-> IF e.proto \in PortProtocols THEN e.dport ELSE None]

BadEvent(e) == e.src = None \/ e.dst = None \/ e.proto = None \/ e.mixed

(* What a packet's flow is: the event's addresses and protocol and, where  *)
(* the event has them, its ports, in one direction or the other.  Only a   *)
(* continuation fragment has no ports; those of IPv6 are out of scope.     *)
Sent(p, from, to, x, y) ==
  /\ p.src = from /\ p.dst = to
  /\ p.frag \/ (x \in {None, p.sport} /\ y \in {None, p.dport})

InFlow(e, p) ==
  /\ p.proto = NormalizeProto(e) /\ (p.frag => ~e.v6)
  /\ Sent(p, e.src, e.dst, e.sport, e.dport) \/ Sent(p, e.dst, e.src, e.dport, e.sport)

BothPorts(e) == e.proto \in PortProtocols /\ e.sport # None /\ e.dport # None

ASSUME FlowAssumption ==
  \A ask \in Asks, p \in Kinds : ask.event # None /\ ~BadEvent(ask.event) =>
    /\ p.flow = ask.event.flow => InFlow(ask.event, p)
    /\ BothPorts(ask.event) /\ ~p.frag /\ InFlow(ask.event, p) => p.flow = ask.event.flow

(* Free-form when a start is given or there can be no event, relative when *)
(* a span before or after is given, else the event's own flow and window.  *)
Mode(ask) ==
  CASE ask.cli \/ ask.start # None -> "freeform"
    [] ~ask.cli /\ ask.start = None /\ (ask.before # None \/ ask.after # None) -> "relative"
    [] OTHER -> "default"

Span(value) == IF value = None THEN Minute ELSE value

(* The server's window ends a minute after its start unless it has a       *)
(* duration; the command line's has no end then, and no start either when  *)
(* none is given.                                                          *)
FreeForm(ask) ==
  CASE ask.start = None -> <<0, None>>
    [] ask.start # None /\ ask.cli /\ ask.duration = None -> <<ask.start, None>>
    [] OTHER -> <<ask.start, ask.start + Span(ask.duration)>>

WindowOf(ask) ==
  CASE Mode(ask) = "freeform" -> FreeForm(ask)
    [] Mode(ask) = "relative" -> <<Before(ask.event.ts, Span(ask.before)),
                                   ask.event.ts + Span(ask.after)>>
    [] OTHER -> DeriveWindow(ask.event)

(* An expression given by the user replaces the flow, except in the        *)
(* default mode; without either a free-form request takes every packet.    *)
FilterOf(ask) ==
  CASE ask.filter # None /\ Mode(ask) # "default" -> "expression"
    [] Mode(ask) = "freeform" -> "all"
    [] OTHER -> "flow"

BadRequest(ask) ==
  \/ Mode(ask) # "freeform" /\ ask.event = None
  \/ ask.event # None /\ FilterOf(ask) = "flow" /\ BadEvent(ask.event)
  \/ ask.event # None /\ WindowOf(ask)[2] < WindowOf(ask)[1]

-----------------------------------------------------------------------------
(* What the filters match.                                                 *)

Ends(sel, p) == {p.src, p.dst} = {sel.a, sel.b}

(* to_bpf.  Both ports: the exact pairing, in either direction.  One port: *)
(* on either side.  IPv4 continuation fragments match on hosts alone.      *)
Fragments(sel, p) == ~sel.v6 /\ p.frag /\ p.proto = sel.proto /\ Ends(sel, p)

(* Variant: ports and hosts are matched independently.                     *)
PairedLoosely(sel, p) == Ends(sel, p) /\ {p.sport, p.dport} = {sel.x, sel.y}

Paired(sel, p) ==
  \/ p.src = sel.a /\ p.dst = sel.b /\ p.sport = sel.x /\ p.dport = sel.y
  \/ p.src = sel.b /\ p.dst = sel.a /\ p.sport = sel.y /\ p.dport = sel.x

ToBpf(sel, p) ==
  CASE sel.proto \in PortProtocols /\ sel.x # None /\ sel.y # None ->
         (p.proto = sel.proto /\ ~p.frag /\ Paired(sel, p)) \/ Fragments(sel, p)
    [] sel.proto \in PortProtocols /\ (sel.x = None) # (sel.y = None) ->
         \/ /\ p.proto = sel.proto /\ ~p.frag /\ Ends(sel, p)
            /\ (IF sel.x = None THEN sel.y ELSE sel.x) \in {p.sport, p.dport}
         \/ Fragments(sel, p)
    [] OTHER -> p.proto = sel.proto /\ Ends(sel, p)

(* vlan_wrapped where the link type knows VLAN tags, the base elsewhere.   *)
FlowMatches(sel, p, link) == ToBpf(sel, p) /\ (p.vlan => link = "ethernet")

(* A user's expression: the packets it selects, where it compiles.         *)
Compiles(ask, link) == FilterOf(ask) = "expression" => link \in ask.filter.links

Matches(p, link) ==
  CASE FilterOf(job.ask) = "flow" -> FlowMatches(Selector(job.ask.event), p.kind, link)
    [] FilterOf(job.ask) = "expression" -> p.kind \in job.ask.filter.kinds
    [] OTHER -> TRUE

(* After the window, when it has an end.                                   *)
Past(ts, slack) == job.end # None /\ ts > job.end + slack

(* refill's gate and filter on one packet.                                 *)
Wanted(i, k) ==
  LET p == file[i].packets[k]
  IN  p.ts >= job.start /\ ~Past(p.ts, 0) /\ Matches(p, file[i].link)

-----------------------------------------------------------------------------
(* load_files: the files of each thread by name, less those that cannot    *)
(* hold packets of the window.  The command line's margin is zero.         *)

(* The numbers of a set in ascending order.                                *)
Ascending(S) == [n \in 1 .. Cardinality(S) |-> CHOOSE x \in S : Cardinality({y \in S : y < x}) = n - 1]

Listed(t) == Ascending({i \in FilesOf(t) : file[i].there})

MarginOf(ask) == IF ask.cli THEN 0 ELSE Margin

(* Variant: a file counts as rotated out when it starts before the window. *)
PrunedByOwnName(files, k) ==
  \/ Past(file[files[k]].name * TicksPerSec, MarginOf(job.ask))
  \/ /\ k < Len(files)
     /\ file[files[k]].name * TicksPerSec < Before(job.start, MarginOf(job.ask))

Pruned(files, k) ==
  \/ Past(file[files[k]].name * TicksPerSec, MarginOf(job.ask))
  \/ /\ k < Len(files)
     /\ file[files[k + 1]].name * TicksPerSec < Before(job.start, MarginOf(job.ask))

Kept(files) == LET kept == {k \in DOMAIN files : ~Pruned(files, k)}
               IN  [n \in 1 .. Cardinality(kept) |-> files[Ascending(kept)[n]]]

Cursor(files) == [files |-> files, open |-> 0, pos |-> 0, pending |-> 0]

(* A request that cannot be built ends at once, and so does an extraction  *)
(* whose output file is one of the captures it would read.                 *)
Start(ask) ==
  /\ job.pc = "idle"
  /\ LET refused == BadRequest(ask) \/ ask.aliases
     IN  job' = [Idle EXCEPT !.pc = IF refused THEN "over" ELSE "list", !.ask = ask,
                             !.result = IF refused THEN "refused" ELSE @,
                             !.start = IF refused THEN 0 ELSE WindowOf(ask)[1],
                             !.end = IF refused THEN 0 ELSE WindowOf(ask)[2]]
  /\ UNCHANGED <<clock, file, odd, cursor, at, stats, out, known, purge>>

(* One cursor per group, or, when a name cannot be parsed, one over every  *)
(* file in directory order.                                                *)
ThreadSeq == Ascending(Threads)

List ==
  /\ job.pc = "list"
  /\ cursor' = IF odd THEN <<Cursor(SetToSeq({i \in DOMAIN file : file[i].there}))>>
               ELSE [n \in DOMAIN ThreadSeq |-> Cursor(Kept(Listed(ThreadSeq[n])))]
  /\ known' = [i \in DOMAIN file |-> IF file[i].there THEN Len(file[i].packets) ELSE 0]
  /\ at' = 1
  /\ job' = IF \A n \in DOMAIN cursor' : cursor'[n].files = <<>>
            THEN [job EXCEPT !.pc = "over", !.result = "no-candidate-files"]
            ELSE [job EXCEPT !.pc = "fill"]
  /\ UNCHANGED <<clock, file, odd, stats, out, purge>>

-----------------------------------------------------------------------------
(* GroupCursor::refill on cursor `at`, one file step at a time.            *)

fillRest == <<clock, file, odd, known, purge, out>>

Filling == job.pc \in {"fill", "refill"} /\ stats.stop = "none"

(* open_group_file.  A file that is gone is counted; one whose link type   *)
(* the expression does not compile for is skipped.                         *)
OpenFile ==
  /\ Filling /\ cursor[at].open = 0 /\ cursor[at].files # <<>>
  /\ LET i == Head(cursor[at].files)
         compiles == Compiles(job.ask, file[i].link)
     IN  /\ cursor' = [cursor EXCEPT ![at].files = Tail(@), ![at].pos = 0,
                                     ![at].open = IF file[i].there /\ compiles THEN i ELSE 0]
         /\ stats' = IF ~file[i].there THEN [stats EXCEPT !.vanished = @ \cup {i}]
                     ELSE [stats EXCEPT !.scanned = @ + 1, !.compiled = @ \/ compiles,
                                        !.failed = @ \/ ~compiles]
  /\ UNCHANGED <<fillRest, job, at>>

(* Every further open would fail as well: the extraction is given up.      *)
OutOfDescriptors ==
  /\ Filling /\ cursor[at].open = 0 /\ cursor[at].files # <<>>
  /\ job' = [job EXCEPT !.pc = "over", !.result = "io"]
  /\ UNCHANGED <<fillRest, cursor, at, stats>>

(* The initial refills go round the cursors, later ones return to merging. *)
Refilled == IF job.pc = "fill" /\ at < Len(cursor)
            THEN at' = at + 1 /\ UNCHANGED job
            ELSE UNCHANGED at /\ job' = [job EXCEPT !.pc = "merge"]

(* The next packet of the open file that is wanted becomes pending, or the *)
(* file is done with.                                                      *)
NextWanted(c) == {k \in c.pos + 1 .. Len(file[c.open].packets) : Wanted(c.open, k)}

ReadPacket ==
  /\ Filling /\ cursor[at].open # 0 /\ NextWanted(cursor[at]) # {}
  /\ LET k == CHOOSE k \in NextWanted(cursor[at]) : \A j \in NextWanted(cursor[at]) : k <= j
     IN  cursor' = [cursor EXCEPT ![at].pos = k, ![at].pending = k]
  /\ Refilled
  /\ UNCHANGED <<fillRest, stats>>

EndOfFile ==
  /\ Filling /\ cursor[at].open # 0 /\ NextWanted(cursor[at]) = {}
  /\ cursor' = [cursor EXCEPT ![at].open = 0]
  /\ UNCHANGED <<fillRest, job, at, stats>>

GroupExhausted ==
  /\ Filling /\ cursor[at].open = 0 /\ cursor[at].files = <<>>
  /\ Refilled
  /\ UNCHANGED <<fillRest, cursor, stats>>

(* Control::live: the client is gone, or scanning took too long.           *)
Stop(why) ==
  /\ job.pc \in {"fill", "refill", "merge"} /\ stats.stop = "none"
  /\ stats' = [stats EXCEPT !.stop = why]
  /\ UNCHANGED <<fillRest, job, cursor, at>>

-----------------------------------------------------------------------------
(* The merge: the earliest pending packet, by (time, group), goes out.     *)

Pending(n) == cursor[n].pending # 0
HeadOf(n)   == file[cursor[n].open].packets[cursor[n].pending]

(* Variant: the groups take turns.                                         *)
EarliestFirstGroup(n) == Pending(n) /\ \A m \in DOMAIN cursor : Pending(m) => n <= m

Earliest(n) ==
  /\ Pending(n)
  /\ \A m \in DOMAIN cursor : Pending(m) =>
       HeadOf(n).ts < HeadOf(m).ts \/ (HeadOf(n).ts = HeadOf(m).ts /\ n <= m)

Merging == job.pc = "merge" /\ stats.stop = "none"

Taken(n) == cursor' = [cursor EXCEPT ![n].pending = 0]

(* Once the output has a link type, files of another one are skipped.      *)
SkipFile(n) ==
  /\ Merging /\ Earliest(n) /\ stats.link \notin {None, file[cursor[n].open].link}
  /\ cursor' = [cursor EXCEPT ![n].pending = 0, ![n].open = 0]
  /\ at' = n /\ job' = [job EXCEPT !.pc = "refill"]
  /\ UNCHANGED <<fillRest, stats>>

Fits(n) == Len(out) < job.ask.max

WritePacket(n) ==
  /\ Merging /\ Earliest(n) /\ stats.link \in {None, file[cursor[n].open].link} /\ Fits(n)
  /\ out' = Append(out, HeadOf(n))
  /\ stats' = [stats EXCEPT !.link = file[cursor[n].open].link]
  /\ Taken(n)
  /\ at' = n /\ job' = [job EXCEPT !.pc = "refill"]
  /\ UNCHANGED <<clock, file, odd, known, purge>>

SizeReached(n) ==
  /\ Merging /\ Earliest(n) /\ stats.link \in {None, file[cursor[n].open].link} /\ ~Fits(n)
  /\ job' = [job EXCEPT !.pc = "over", !.result = "truncated"]
  /\ UNCHANGED <<fillRest, cursor, at, stats>>

Outcome ==
  CASE stats.stop = "cancelled" -> "cancelled"
    [] stats.stop = "deadline"  -> "truncated"
    [] stats.stop = "none" /\ out # <<>> -> "ok"
    [] stats.stop = "none" /\ out = <<>> /\ FilterOf(job.ask) = "expression"
         /\ ~stats.compiled /\ stats.failed -> "format"
    [] stats.stop = "none" /\ out = <<>> /\ stats.scanned = 0 -> "no-candidate-files"
    [] OTHER -> "no-match"

Finish ==
  /\ \/ job.pc = "merge" /\ \A n \in DOMAIN cursor : ~Pending(n)
     \/ job.pc \in {"fill", "refill", "merge"} /\ stats.stop # "none"
  /\ job' = [job EXCEPT !.pc = "over", !.result = Outcome]
  /\ UNCHANGED <<fillRest, cursor, at, stats>>

-----------------------------------------------------------------------------
(* evebox pcap purge.                                                      *)

(* collect_pcap_files: newest first, by modification time then path.       *)
Newer(i, j) == file[i].mtime > file[j].mtime \/ (file[i].mtime = file[j].mtime /\ i < j)

Newest ==
  LET S == {i \in DOMAIN file : file[i].there}
  IN  [n \in 1 .. Cardinality(S) |->
         LET i == CHOOSE i \in S : Cardinality({j \in S : Newer(j, i)}) = n - 1
         IN  [file |-> i, size |-> Len(file[i].packets), modified |-> file[i].mtime]]

SizeOfFirst(files, n) ==
  LET sum[k \in 0 .. Len(files)] == IF k = 0 THEN 0 ELSE sum[k - 1] + files[k].size
  IN  sum[n]

(* Variant: the file that crosses the limit is kept.                       *)
KeepCountOver(files, policy) ==
  IF policy.by = "count" THEN (IF policy.n < Len(files) THEN policy.n ELSE Len(files))
  ELSE Cardinality({n \in 1 .. Len(files) : SizeOfFirst(files, n - 1) < policy.n})

(* By count, or the files before the first one that exceeds the limit.     *)
KeepCount(files, policy) ==
  IF policy.by = "count" THEN (IF policy.n < Len(files) THEN policy.n ELSE Len(files))
  ELSE Cardinality({n \in 1 .. Len(files) : SizeOfFirst(files, n) <= policy.n})

(* A pass of the command, the first or one after the interval.             *)
PurgeLists(policy) ==
  /\ purge.pc # "deleting" /\ Newest # <<>>
  /\ purge' = [pc |-> IF policy.force THEN "deleting" ELSE "over", policy |-> policy,
               listed |-> Newest, next |-> KeepCount(Newest, policy) + 1, failed |-> {},
               result |-> IF policy.force THEN "none" ELSE "ok"]
  /\ UNCHANGED <<clock, file, odd, job, cursor, at, stats, out, known>>

(* delete_files, one file at a time: a removal that fails is counted and   *)
(* the loop goes on.                                                       *)
Doomed == purge.pc = "deleting" /\ purge.next <= Len(purge.listed)

PurgeDeletes ==
  /\ Doomed
  /\ file' = [file EXCEPT ![purge.listed[purge.next].file].there = FALSE]
  /\ purge' = [purge EXCEPT !.next = @ + 1]
  /\ UNCHANGED <<clock, odd, job, cursor, at, stats, out, known>>

PurgeFails ==
  /\ Doomed
  /\ purge' = [purge EXCEPT !.next = @ + 1, !.failed = @ \cup {purge.next}]
  /\ UNCHANGED <<clock, file, odd, job, cursor, at, stats, out, known>>

(* Variant: the errors are logged and forgotten.                           *)
PurgeEndsOk ==
  /\ purge.pc = "deleting" /\ purge.next > Len(purge.listed)
  /\ purge' = [purge EXCEPT !.pc = "over", !.result = "ok"]
  /\ UNCHANGED <<clock, file, odd, job, cursor, at, stats, out, known>>

PurgeEnds ==
  /\ purge.pc = "deleting" /\ purge.next > Len(purge.listed)
  /\ purge' = [purge EXCEPT !.pc = "over", !.result = IF purge.failed = {} THEN "ok" ELSE "failed"]
  /\ UNCHANGED <<clock, file, odd, job, cursor, at, stats, out, known>>

-----------------------------------------------------------------------------
Sensor ==
  \/ Tick
  \/ \E t \in Threads, kind \in Kinds, ts \in Stamps :
       Record(t, kind, ts) \/ \E link \in Links : Rotate(t, kind, ts, link)

Fetch ==
  \/ OpenFile \/ OutOfDescriptors \/ ReadPacket \/ EndOfFile \/ GroupExhausted
  \/ Finish
  \/ \E n \in DOMAIN cursor : SkipFile(n) \/ WritePacket(n) \/ SizeReached(n)

Stops == Stop("cancelled") \/ Stop("deadline")

Purge ==
  \/ \E policy \in Policies : PurgeLists(policy)
  \/ PurgeDeletes \/ PurgeFails \/ PurgeEnds

SpoolNext ==
  \/ Sensor \/ List \/ Fetch \/ Stops \/ Purge
  \/ \E ask \in Asks : Start(ask)

SpoolSpec == SpoolInit /\ [][SpoolNext]_spoolVars

-----------------------------------------------------------------------------
(* What the user asked for, without windows in ticks, filters or names:    *)
(* the packets of the event's flow from its start to the event (or to the  *)
(* flow's end), or every packet of the times given, which on the command   *)
(* line may lack the end or both (the server's default is a minute).       *)
Asked(p) ==
  CASE Mode(job.ask) = "default" ->
         LET e == job.ask.event
         IN  /\ p.kind.flow = e.flow
             /\ p.ts >= (IF e.start # None THEN e.start ELSE e.ts)
             /\ p.ts <= (IF e.type = "flow" /\ e.start # None
                         THEN (IF e.end # None THEN e.end ELSE e.start) ELSE e.ts)
    [] OTHER ->
         /\ Mode(job.ask) = "freeform" /\ job.ask.filter = None
         /\ job.ask.start # None => p.ts >= job.ask.start
         /\ job.ask.duration # None => p.ts <= job.ask.start + job.ask.duration
         /\ ~job.ask.cli /\ job.ask.duration = None => p.ts <= job.ask.start + Minute

(* An extraction that reports success has every packet the user asked for  *)
(* that was on disk when the spool was listed, in a file of the output's   *)
(* link type that was still there to be opened: choosing files by name,    *)
(* the window's slack, the filter rendered for each link type, the merge   *)
(* and a concurrent rotation or purge lose nothing.                        *)
NothingMissed ==
  job.result = "ok" =>
    \A i \in DOMAIN known : \A k \in 1 .. known[i] :
      LET p == file[i].packets[k]
      IN  Asked(p) /\ file[i].link = stats.link /\ i \notin stats.vanished
            => \E n \in DOMAIN out : out[n] = p

(* "The output is globally time-ordered across groups": a packet goes out  *)
(* after a later one only when its own capture thread recorded it out of   *)
(* order.                                                                  *)
TimeOrdered ==
  ~odd => \A m, n \in DOMAIN out : m < n /\ out[m].ts > out[n].ts =>
    \E i \in FilesOf(out[n].thread), j \in FilesOf(out[n].thread) :
      \E k \in DOMAIN file[i].packets, l \in DOMAIN file[j].packets :
        /\ <<i, k>> # <<j, l>> /\ i <= j /\ (i = j => k < l)
        /\ file[i].packets[k].ts >= out[m].ts /\ file[j].packets[l] = out[n]

(* A packet goes out once, and the capture of an event with both ports     *)
(* holds no packet of another flow of the same two hosts ("the mirrored-   *)
(* port flow must not match"), continuation fragments apart.               *)
OnlyTheFlow ==
  /\ \A m, n \in DOMAIN out : out[m] = out[n] => m = n
  /\ job.ask # None /\ Mode(job.ask) = "default" =>
       \A n \in DOMAIN out :
         BothPorts(job.ask.event) => out[n].kind.frag \/ out[n].kind.flow = job.ask.event.flow

(* What a purge's limit allows: a number of files, or the sum of their     *)
(* sizes when it listed them.                                              *)
Bytes(listed, S) ==
  LET sum[n \in 0 .. Len(listed)] ==
        IF n = 0 THEN 0 ELSE sum[n - 1] + (IF n \in S THEN listed[n].size ELSE 0)
  IN  sum[Len(listed)]

Allowed(S) ==
  IF purge.policy.by = "count" THEN Cardinality(S) <= purge.policy.n
  ELSE Bytes(purge.listed, S) <= purge.policy.n

(* A purge that reports success left, of the files it listed, only as many *)
(* as its limit allows.  Whatever could not be removed, the files it meant *)
(* to keep are within the limit and none of them is older than a file it   *)
(* removed or tried to, and it took no more than it had to: the newest of  *)
(* those would have exceeded the limit.  All this while the sensor writes  *)
(* to the files and rotates them.                                          *)
PurgeWithinLimit ==
  purge.pc = "over" /\ purge.policy.force =>
    LET listed == purge.listed
        left   == {n \in DOMAIN listed : file[listed[n].file].there}
        meant  == left \ purge.failed
        others == DOMAIN listed \ meant
    IN  /\ Allowed(IF purge.result = "ok" THEN left ELSE meant)
        /\ \A m \in meant, n \in others : listed[m].modified >= listed[n].modified
        /\ others # {} => \E n \in others :
             /\ \A m \in others : listed[n].modified >= listed[m].modified
             /\ ~Allowed(meant \cup {n})

=============================================================================
