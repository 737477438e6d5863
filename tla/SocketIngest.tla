----------------------------- MODULE SocketIngest -----------------------------
(***************************************************************************)
(* EVE input over a Unix socket: Suricata writes records to a stream or    *)
(* datagram socket, a reader task frames them and puts them on a queue     *)
(* bounded in records and in bytes, and a processor task submits them to   *)
(* the sink and commits in batches or once per maintenance tick.           *)
(*                                                                         *)
(* A record is named by its number in the order of writing; only its kind  *)
(* and its size matter.  On a stream it may arrive in two parts.  Counters *)
(* kept for the log only are left out; the sets dropped, rejected and lost *)
(* say which records they would count.                                     *)
(***************************************************************************)
EXTENDS Naturals, Sequences, FiniteSets

CONSTANTS
  Types,           \* socket types to consider
  Kinds,           \* kinds of record the sender produces
  MaxRecords,      \* bound: records written
  MaxFaults,       \* bound: failed reads and failed commits
  RecordCapacity,  \* INPUT_QUEUE_RECORD_CAPACITY
  ByteCapacity,    \* INPUT_QUEUE_BYTE_CAPACITY
  BatchSize        \* DEFAULT_BATCH_SIZE

AllKinds == {"event", "big", "bad", "blank", "huge"}

ASSUME SocketAssumption ==
  /\ Types \subseteq {"stream", "dgram"} /\ Kinds \subseteq AllKinds
  /\ MaxRecords \in Nat /\ MaxFaults \in Nat
  /\ RecordCapacity \in Nat \ {0} /\ ByteCapacity \in Nat \ {0, 1}
  /\ BatchSize \in Nat \ {0}

VARIABLES
  stype,     \* SocketInput.socket_type
  wrote,     \* the kinds of the records written so far
  half,      \* the last of them is not terminated yet
  link,      \* the sender's end of the connection
  wire,      \* parts of records in the socket: <<record, its last part>>
  rpc,       \* reader: waiting for a connection, or reading
  buf,       \* read_stream's buffer: the record it holds a part of, or 0
  got,       \* this call of read_until has read something
  cut,       \* records whose last part never came
  queue,     \* the record queue
  budget,    \* permits left in byte_budget
  ppc,       \* processor: in its select, or in commit
  pending,   \* the sink's queue
  stored,    \* records in the event store
  dropped,   \* records counted in queue_drops
  rejected,  \* records skipped or counted in errors
  lost,      \* records left on a connection that the reader gave up
  faults     \* failed reads and commits so far

sender   == <<stype, wrote, half>>
socket   == <<link, wire, rpc, buf, got>>
process  == <<ppc, pending, stored>>
sockVars == <<sender, socket, cut, queue, budget, process, dropped, rejected, lost, faults>>

Record == 1 .. MaxRecords

SockTypeOK ==
  /\ stype \in Types /\ half \in BOOLEAN /\ got \in BOOLEAN
  /\ wrote \in Seq(Kinds) /\ Len(wrote) <= MaxRecords
  /\ link \in {"none", "open", "closed"} /\ rpc \in {"accept", "read"}
  /\ wire \in Seq(Record \X BOOLEAN)
  /\ buf \in 0 .. MaxRecords
  /\ queue \in Seq(Record) /\ Len(queue) <= RecordCapacity
  /\ budget \in 0 .. ByteCapacity
  /\ ppc \in {"recv", "commit"}
  /\ \A S \in {cut, pending, stored, dropped, rejected, lost} : S \subseteq Record
  /\ faults \in 0 .. MaxFaults

SockInit ==
  /\ stype \in Types
  /\ wrote = <<>> /\ half = FALSE
  /\ link = (IF stype = "dgram" THEN "open" ELSE "none")
  /\ rpc = (IF stype = "dgram" THEN "read" ELSE "accept")
  /\ wire = <<>> /\ buf = 0 /\ got = FALSE /\ cut = {}
  /\ queue = <<>> /\ budget = ByteCapacity
  /\ ppc = "recv" /\ pending = {} /\ stored = {}
  /\ dropped = {} /\ rejected = {} /\ lost = {} /\ faults = 0

Size(i) == IF wrote[i] = "big" THEN 2 ELSE 1

OnWire == {wire[k][1] : k \in 1 .. Len(wire)}

-----------------------------------------------------------------------------
(* The sender: external to EveBox.                                         *)

Connect ==
  /\ link = "none" /\ rpc = "accept"
  /\ link' = "open"
  /\ UNCHANGED <<sender, wire, rpc, buf, got, cut, queue, budget, process, dropped, rejected, lost, faults>>

(* A record, or on a stream its first part.                                *)
Write(kind, whole) ==
  /\ link = "open" /\ ~half /\ Len(wrote) < MaxRecords
  /\ whole \/ stype = "stream"
  /\ wrote' = Append(wrote, kind)
  /\ wire' = Append(wire, <<Len(wrote) + 1, whole>>)
  /\ half' = ~whole
  /\ UNCHANGED <<stype, link, rpc, buf, got, cut, queue, budget, process, dropped, rejected, lost, faults>>

WriteRest ==
  /\ link = "open" /\ half
  /\ wire' = Append(wire, <<Len(wrote), TRUE>>)
  /\ half' = FALSE
  /\ UNCHANGED <<stype, wrote, link, rpc, buf, got, cut, queue, budget, process, dropped, rejected, lost, faults>>

Close ==
  /\ stype = "stream" /\ link = "open"
  /\ link' = "closed" /\ half' = FALSE
  /\ UNCHANGED <<stype, wrote, wire, rpc, buf, got, cut, queue, budget, process, dropped, rejected, lost, faults>>

-----------------------------------------------------------------------------
(* The reader.                                                             *)

Accept ==
  /\ rpc = "accept" /\ link # "none"
  /\ rpc' = "read" /\ buf' = 0 /\ got' = FALSE
  /\ UNCHANGED <<sender, link, wire, cut, queue, budget, process, dropped, rejected, lost, faults>>

(* SocketIngress::enqueue: never waits; without bytes or a slot the record *)
(* is dropped and counted.                                                 *)
Enqueue(i) ==
  IF wrote[i] = "blank"
  THEN rejected' = rejected \cup {i} /\ UNCHANGED <<queue, budget, dropped>>
  ELSE IF Size(i) > budget \/ Len(queue) >= RecordCapacity
  THEN dropped' = dropped \cup {i} /\ UNCHANGED <<queue, budget, rejected>>
  ELSE queue' = Append(queue, i) /\ budget' = budget - Size(i) /\ UNCHANGED <<dropped, rejected>>

(* The reader leaves the connection: what it has not read is gone.         *)
GiveUp ==
  /\ rpc' = "accept" /\ link' = "none" /\ half' = FALSE
  /\ wire' = <<>> /\ buf' = 0 /\ got' = FALSE
  /\ lost' = lost \cup OnWire \cup ({buf} \ {0})

ReadPart ==
  /\ rpc = "read" /\ wire # <<>> /\ ~Head(wire)[2]
  /\ buf' = Head(wire)[1] /\ got' = TRUE
  /\ wire' = Tail(wire)
  /\ UNCHANGED <<sender, link, rpc, cut, queue, budget, process, dropped, rejected, lost, faults>>

(* read_until returns at the terminator; an oversized record closes the    *)
(* connection.                                                             *)
ReadRecord ==
  LET i == Head(wire)[1] IN
  /\ rpc = "read" /\ stype = "stream" /\ wire # <<>> /\ Head(wire)[2]
  /\ IF wrote[i] = "huge"
     THEN GiveUp /\ UNCHANGED <<queue, budget, dropped, rejected>>
     ELSE /\ Enqueue(i)
          /\ wire' = Tail(wire) /\ buf' = 0 /\ got' = FALSE
          /\ UNCHANGED <<half, link, rpc, lost>>
  /\ UNCHANGED <<stype, wrote, cut, process, faults>>

(* Variant: Ok(0) ends the connection whatever the buffer holds.           *)
EndOfStreamForgets ==
  /\ rpc = "read" /\ wire = <<>> /\ link = "closed"
  /\ IF got
     THEN Enqueue(buf) /\ cut' = cut \cup {buf} /\ UNCHANGED <<link, rpc>>
     ELSE link' = "none" /\ rpc' = "accept" /\ UNCHANGED <<cut, queue, budget, dropped, rejected>>
  /\ buf' = 0 /\ got' = FALSE
  /\ UNCHANGED <<sender, wire, process, lost, faults>>

(* End of stream.  read_until returns what this call has read (Ok(n)), and *)
(* nothing (Ok(0)) when a tick interrupted it after the part was buffered; *)
(* either way the unterminated record is queued, unless it is too large.   *)
EndOfStream ==
  /\ rpc = "read" /\ wire = <<>> /\ link = "closed"
  /\ \/ /\ buf # 0 /\ wrote[buf] = "huge"
        /\ GiveUp
        /\ UNCHANGED <<cut, queue, budget, dropped, rejected>>
     \/ /\ buf # 0
        /\ Enqueue(buf) /\ cut' = cut \cup {buf}
        /\ IF got THEN UNCHANGED <<link, rpc>> ELSE link' = "none" /\ rpc' = "accept"
        /\ buf' = 0 /\ got' = FALSE
        /\ UNCHANGED <<half, wire, lost>>
     \/ /\ buf = 0
        /\ link' = "none" /\ rpc' = "accept"
        /\ UNCHANGED <<half, wire, buf, got, cut, queue, budget, dropped, rejected, lost>>
  /\ UNCHANGED <<stype, wrote, process, faults>>

(* The interval interrupts read_until; its buffer is kept, and checked.    *)
ReadTick ==
  /\ rpc = "read" /\ got
  /\ \/ /\ got' = FALSE
        /\ UNCHANGED <<half, link, wire, rpc, buf, lost>>
     \/ wrote[buf] = "huge" /\ GiveUp
  /\ UNCHANGED <<stype, wrote, cut, queue, budget, process, dropped, rejected, faults>>

ReadFails ==
  /\ rpc = "read" /\ stype = "stream" /\ faults < MaxFaults
  /\ faults' = faults + 1
  /\ GiveUp
  /\ UNCHANGED <<stype, wrote, cut, queue, budget, process, dropped, rejected>>

(* run_datagram: one record per datagram, an oversized one is discarded.   *)
ReadDatagram ==
  LET i == Head(wire)[1] IN
  /\ rpc = "read" /\ stype = "dgram" /\ wire # <<>>
  /\ IF wrote[i] = "huge"
     THEN rejected' = rejected \cup {i} /\ UNCHANGED <<queue, budget, dropped>>
     ELSE Enqueue(i)
  /\ wire' = Tail(wire)
  /\ UNCHANGED <<sender, link, rpc, buf, got, cut, process, lost, faults>>

-----------------------------------------------------------------------------
(* The processor.                                                          *)

(* What serde_json and the sink make of a record: a bad one is not JSON,   *)
(* not an object or refused by submit, a cut one may be complete JSON.     *)
Accepts(i) ==
  IF wrote[i] \in {"bad", "huge"} THEN {FALSE}
  ELSE IF i \in cut THEN BOOLEAN
  ELSE {TRUE}

(* process_record and submit: the bytes are given back before anything can *)
(* fail, and a record that does not parse or submit is counted and left.   *)
ProcessRecord ==
  LET i == Head(queue) IN
  /\ ppc = "recv" /\ queue # <<>>
  /\ queue' = Tail(queue) /\ budget' = budget + Size(i)
  /\ \E ok \in Accepts(i), full \in BOOLEAN :
       IF ok
       THEN /\ pending' = pending \cup {i}
            /\ ppc' = IF full \/ Cardinality(pending') >= BatchSize THEN "commit" ELSE "recv"
            /\ UNCHANGED rejected
       ELSE rejected' = rejected \cup {i} /\ UNCHANGED <<ppc, pending>>
  /\ UNCHANGED <<sender, socket, cut, stored, dropped, lost, faults>>

(* Variant: only full batches are flushed.                                 *)
MaintenanceFull ==
  /\ ppc = "recv" /\ Cardinality(pending) >= BatchSize
  /\ ppc' = "commit"
  /\ UNCHANGED <<sender, socket, cut, queue, budget, pending, stored, dropped, rejected, lost, faults>>

(* maintenance: flush whatever is pending.                                 *)
Maintenance ==
  /\ ppc = "recv" /\ pending # {}
  /\ ppc' = "commit"
  /\ UNCHANGED <<sender, socket, cut, queue, budget, pending, stored, dropped, rejected, lost, faults>>

Commit ==
  /\ ppc = "commit"
  /\ stored' = stored \cup pending /\ pending' = {}
  /\ ppc' = "recv"
  /\ UNCHANGED <<sender, socket, cut, queue, budget, dropped, rejected, lost, faults>>

(* The commit fails, perhaps after the store took the batch, and is tried  *)
(* again; meanwhile the queue fills.                                       *)
CommitRetries ==
  /\ ppc = "commit" /\ faults < MaxFaults
  /\ faults' = faults + 1
  /\ stored' = stored \cup pending \/ UNCHANGED stored
  /\ UNCHANGED <<sender, socket, cut, queue, budget, ppc, pending, dropped, rejected, lost>>

-----------------------------------------------------------------------------
Sender ==
  \/ Connect \/ WriteRest \/ Close
  \/ \E kind \in Kinds, whole \in BOOLEAN : Write(kind, whole)

Reader == Accept \/ ReadPart \/ ReadRecord \/ EndOfStream \/ ReadTick \/ ReadDatagram

Processor == ProcessRecord \/ Maintenance \/ Commit

SockNext == Sender \/ Reader \/ Processor \/ ReadFails \/ CommitRetries

SockSpec == SockInit /\ [][SockNext]_sockVars

(* Both tasks of tokio::join! are polled; the maintenance interval ticks.  *)
SockFairSpec == SockSpec /\ WF_sockVars(Reader) /\ WF_sockVars(Processor)

-----------------------------------------------------------------------------
(* Properties.                                                             *)

Queued == {queue[k] : k \in 1 .. Len(queue)}

Buffered == {buf} \ {0}

(* The permits of byte_budget that the records in the queue hold.          *)
HeldBytes == {x \in Queued \X {1, 2} : x[2] <= Size(x[1])}

(* Where a record can be.  Its two parts may be on the wire and in the     *)
(* buffer, and a commit that failed after the store took the batch leaves  *)
(* it pending.                                                             *)
Places ==
  [wire |-> OnWire \cup Buffered, queue |-> Queued, sink |-> pending \cup stored,
   dropped |-> dropped, rejected |-> rejected, lost |-> lost]

(* No record vanishes or is taken twice between the socket and the store:  *)
(* each one written is in exactly one place and once in the queue, and the *)
(* bytes missing from byte_budget are those of the records in the queue,   *)
(* so a dropped record never shrinks the input for good.                   *)
OneFate ==
  /\ \A i \in 1 .. Len(wrote) : Cardinality({p \in DOMAIN Places : i \in Places[p]}) = 1
  /\ \A j, k \in 1 .. Len(queue) : queue[j] = queue[k] => j = k
  /\ budget + Cardinality(HeldBytes) = ByteCapacity

(* A record that entered the queue is stored or rejected, also when no     *)
(* other record follows to fill its batch.                                 *)
QueuedIsSettled ==
  \A i \in Record : i \in Queued ~> i \in stored \cup rejected

=============================================================================
