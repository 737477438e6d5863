----------------------------- MODULE AgentChannel -----------------------------
(***************************************************************************)
(* The agent's side of the control channel: one connection after another,  *)
(* each with its own jobs and its own result queue, and for every job an   *)
(* async worker, a blocking extraction (the producer), an HTTP upload and  *)
(* a supervisor that reports the terminal result.  A producer outlives its *)
(* worker and its connection; one semaphore serializes the producers.      *)
(*                                                                         *)
(* The server and the network are external.  A job is named by its id,     *)
(* which the server does not use twice; of the packet data only the chunks *)
(* that are queued are counted, an extraction may send any number of them. *)
(***************************************************************************)
EXTENDS Naturals, Sequences, FiniteSets

CONSTANTS
  NJobs,          \* bound: jobs
  MaxConns,       \* bound: connections
  MaxPanics,      \* bound: panics of async workers
  UploadCapacity, \* UPLOAD_CHANNEL_CAPACITY
  ResultCapacity, \* RESULT_CHANNEL_CAPACITY
  MaxActiveJobs,  \* MAX_ACTIVE_JOBS
  NoResult        \* no terminal result yet

ASSUME ChannelAssumption ==
  /\ NJobs \in Nat /\ MaxConns \in Nat /\ MaxPanics \in Nat
  /\ UploadCapacity \in Nat \ {0} /\ ResultCapacity \in Nat \ {0}
  /\ MaxActiveJobs \in Nat \ {0}

Job == 1 .. NJobs  \* numbered in the order the server issues them

VARIABLES
  gen,      \* number of the current connection
  link,     \* the connection is up, past the server's hello
  results,  \* the connection's result queue
  work,     \* job -> its entry in Jobs, its worker and its supervisor
  fetch,    \* job -> the blocking extraction and its channel
  upload,   \* job -> the HTTP request with its body stream
  permits,  \* free permits of the extraction semaphore, which all connections share
  asked,    \* history: jobs the server cancelled or whose connection ended
  panics    \* panics so far

conn  == <<gen, link, results>>
chVars == <<conn, work, fetch, upload, permits, asked, panics>>

Terminal ==
  [code : {"complete", "empty", "error", "cancelled"}, upload : {"none", "complete", "failed"}]

ASSUME NoResultAssumption == NoResult \notin Terminal

WorkerPcs == {"none", "refuse", "acquire", "first", "upload", "stopping", "returned",
              "panicked", "settled", "queued", "done"}

WorkType ==
  [pc : WorkerPcs, gen : 0 .. MaxConns, listed : BOOLEAN, cancel : BOOLEAN, failed : BOOLEAN,
   result : Terminal \cup {NoResult}]

FetchType ==
  [state : {"none", "running", "ok", "nothing", "error"},
   sent : BOOLEAN, queue : 0 .. UploadCapacity]

UploadType ==
  [state : {"none", "sending", "eof", "success", "failed"}, first : BOOLEAN]

NoFetch == [state |-> "none", sent |-> FALSE, queue |-> 0]
NoUpload == [state |-> "none", first |-> FALSE]

ChTypeOK ==
  /\ gen \in 0 .. MaxConns
  /\ link \in BOOLEAN
  /\ results \in Seq(Job) /\ Len(results) <= ResultCapacity
  /\ work \in [Job -> WorkType]
  /\ fetch \in [Job -> FetchType]
  /\ upload \in [Job -> UploadType]
  /\ permits \in 0 .. 1
  /\ asked \subseteq Job
  /\ panics \in 0 .. MaxPanics
  /\ Cardinality({j \in Job : work[j].listed /\ work[j].gen = gen}) <= MaxActiveJobs

ChInit ==
  /\ gen = 0 /\ link = FALSE /\ results = <<>>
  /\ work = [j \in Job |-> [pc |-> "none", gen |-> 0, listed |-> FALSE, cancel |-> FALSE,
                            failed |-> FALSE, result |-> NoResult]]
  /\ fetch = [j \in Job |-> NoFetch]
  /\ upload = [j \in Job |-> NoUpload]
  /\ permits = 1 /\ asked = {} /\ panics = 0

-----------------------------------------------------------------------------
(* The connection: run, connect_and_run and run_connection.                *)

(* Connected, and the server's hello is the first message.  A connection   *)
(* that ends before leaves nothing but a longer backoff, which is time.    *)
Connect ==
  /\ ~link /\ gen < MaxConns
  /\ gen' = gen + 1 /\ link' = TRUE
  /\ UNCHANGED <<results, work, fetch, upload, permits, asked, panics>>

(* The memory of a job with its result is freed; what a detached upload of *)
(* a panicked worker still sends is not followed.                          *)
Done(j) ==
  [work[j] EXCEPT !.pc = "done", !.gen = 0, !.cancel = FALSE, !.failed = FALSE,
                  !.result = NoResult]

Mine == {j \in Job : work[j].listed /\ work[j].gen = gen}

(* The socket fails or closes, no frame arrives in time, a write fails, or *)
(* a message is fatal: every job of the connection is cancelled and its    *)
(* result queue is dropped.                                                *)
ConnectionEnds ==
  /\ link
  /\ link' = FALSE /\ results' = <<>>
  /\ work' = [j \in Job |-> IF j \in Mine THEN [work[j] EXCEPT !.cancel = TRUE]
                            ELSE IF work[j].pc = "queued" THEN Done(j)
                            ELSE work[j]]
  /\ fetch' = [j \in Job |-> IF work[j].pc = "queued" THEN NoFetch ELSE fetch[j]]
  /\ upload' = [j \in Job |-> IF work[j].pc = "queued" THEN NoUpload ELSE upload[j]]
  /\ asked' = (asked \cup Mine) \ {j \in Job : work[j].pc = "queued"}
  /\ UNCHANGED <<gen, permits, panics>>

(* start_job: list the job, spawn its worker and its supervisor.  At       *)
(* capacity the message is fatal, which is a ConnectionEnds.  The message  *)
(* holds the range: whether run_job will refuse it is settled here.        *)
StartJob(j) ==
  /\ link /\ work[j].pc = "none" /\ \A i \in Job : i < j => work[i].pc # "none"
  /\ Cardinality(Mine) < MaxActiveJobs
  /\ \E pc \in {"acquire", "refuse"} :
       work' = [work EXCEPT ![j].pc = pc, ![j].gen = gen, ![j].listed = TRUE]
  /\ UNCHANGED <<conn, fetch, upload, permits, asked, panics>>

CancelJob(j) ==
  /\ link /\ j \in Mine /\ ~work[j].cancel
  /\ work' = [work EXCEPT ![j].cancel = TRUE]
  /\ asked' = asked \cup {j}
  /\ UNCHANGED <<conn, fetch, upload, permits, panics>>

Forget(j) ==
  /\ work' = [work EXCEPT ![j] = Done(j)]
  /\ fetch' = [fetch EXCEPT ![j] = NoFetch]
  /\ upload' = [upload EXCEPT ![j] = NoUpload]
  /\ asked' = asked \ {j}

WriteResult ==
  /\ link /\ results # <<>>
  /\ results' = Tail(results)
  /\ Forget(Head(results))
  /\ UNCHANGED <<gen, link, permits, panics>>

-----------------------------------------------------------------------------
(* The worker: run_job.                                                    *)

(* terminal_from_fetch: a cancel outranks an upload's failure, which       *)
(* outranks what the extraction says.                                      *)
TerminalOf(j, status) ==
  [code   |-> IF work[j].cancel THEN "cancelled"
              ELSE IF work[j].failed THEN "error"
              ELSE IF fetch[j].state = "ok" THEN "complete"
              ELSE IF fetch[j].state = "nothing" THEN "empty"
              ELSE "error",
   upload |-> status]

Returns(j, res) == work' = [work EXCEPT ![j].pc = "returned", ![j].result = res]

(* run_job refuses a range that ends before it starts, before it waits for *)
(* the permit.                                                             *)
BadRange(j) ==
  /\ work[j].pc = "refuse"
  /\ Returns(j, [code |-> "error", upload |-> "none"])
  /\ UNCHANGED <<conn, fetch, upload, permits, asked, panics>>

(* The permit moves into the blocking closure.                             *)
AcquirePermit(j) ==
  /\ work[j].pc = "acquire" /\ ~work[j].cancel /\ permits > 0
  /\ permits' = permits - 1
  /\ work' = [work EXCEPT ![j].pc = "first"]
  /\ fetch' = [fetch EXCEPT ![j].state = "running"]
  /\ UNCHANGED <<conn, upload, asked, panics>>

(* The request is over: its body goes, with the receiver and the queue.    *)
DropUpload(j) ==
  /\ upload' = [upload EXCEPT ![j].state = "failed", ![j].first = FALSE]
  /\ fetch' = [fetch EXCEPT ![j].queue = 0]

(* biased select!: a cancel is seen first, wherever the worker waits.      *)
WorkerCancelled(j) ==
  /\ work[j].cancel
  /\ \/ /\ work[j].pc = "acquire"
        /\ Returns(j, [code |-> "cancelled", upload |-> "none"])
        /\ UNCHANGED <<fetch, upload>>
     \/ /\ work[j].pc \in {"first", "upload"}
        /\ work' = [work EXCEPT ![j].pc = "stopping"]
        /\ IF work[j].pc = "upload" THEN DropUpload(j) ELSE UNCHANGED <<fetch, upload>>
  /\ UNCHANGED <<conn, permits, asked, panics>>

(* The first chunk starts the upload.                                      *)
FirstChunk(j) ==
  /\ work[j].pc = "first" /\ ~work[j].cancel /\ fetch[j].queue > 0
  /\ fetch' = [fetch EXCEPT ![j].queue = @ - 1]
  /\ upload' = [upload EXCEPT ![j].state = "sending", ![j].first = TRUE]
  /\ work' = [work EXCEPT ![j].pc = "upload"]
  /\ UNCHANGED <<conn, permits, asked, panics>>

(* The extraction ended without a chunk.                                   *)
NoChunk(j) ==
  /\ work[j].pc = "first" /\ ~work[j].cancel
  /\ fetch[j].queue = 0 /\ fetch[j].state # "running"
  /\ Returns(j, TerminalOf(j, "none"))
  /\ UNCHANGED <<conn, fetch, upload, permits, asked, panics>>

(* Variant: there is no timer for the upload.                              *)
UploadEndsUntimed(j) ==
  /\ work[j].pc = "upload" /\ ~work[j].cancel /\ upload[j].state = "failed"
  /\ work' = [work EXCEPT ![j].pc = "stopping", ![j].failed = TRUE]
  /\ UNCHANGED <<conn, fetch, upload, permits, asked, panics>>

(* The upload failed or was rejected, made no progress, or was not         *)
(* answered in time: stop the producer through the child token only.       *)
UploadEnds(j) ==
  /\ work[j].pc = "upload" /\ ~work[j].cancel /\ upload[j].state # "success"
  /\ work' = [work EXCEPT ![j].pc = "stopping", ![j].failed = TRUE]
  /\ DropUpload(j)
  /\ UNCHANGED <<conn, permits, asked, panics>>

(* Both the extraction and the upload are done.                            *)
BothDone(j) ==
  /\ work[j].pc = "upload" /\ upload[j].state = "success" /\ fetch[j].state # "running"
  /\ Returns(j, TerminalOf(j, "complete"))
  /\ UNCHANGED <<conn, fetch, upload, permits, asked, panics>>

(* await_stopped_fetch: however long it takes.                             *)
Stopped(j) ==
  /\ work[j].pc = "stopping" /\ fetch[j].state # "running"
  /\ Returns(j, TerminalOf(j, IF upload[j].state = "none" THEN "none" ELSE "failed"))
  /\ UNCHANGED <<conn, fetch, upload, permits, asked, panics>>

(* Variant: the permit stays with the async worker, and goes with it.      *)
WorkerPanicsWithPermit(j) ==
  /\ work[j].pc \in {"acquire", "first", "upload", "stopping"} /\ panics < MaxPanics
  /\ panics' = panics + 1
  /\ work' = [work EXCEPT ![j].pc = "panicked"]
  /\ permits' = IF fetch[j].state = "running" THEN 1 ELSE permits
  /\ UNCHANGED <<conn, fetch, upload, asked>>

(* The async worker panics: its channel receiver is dropped unless the     *)
(* upload owns it, the producer and the upload run on.                     *)
WorkerPanics(j) ==
  /\ work[j].pc \in {"acquire", "first", "upload", "stopping"} /\ panics < MaxPanics
  /\ panics' = panics + 1
  /\ work' = [work EXCEPT ![j].pc = "panicked"]
  /\ UNCHANGED <<conn, fetch, upload, permits, asked>>

-----------------------------------------------------------------------------
(* The supervisor: terminal_after_worker, and the report.                  *)

(* Variant: a panic is reported at once.                                   *)
SettleAtOnce(j) ==
  /\ work[j].pc \in {"returned", "panicked"}
  /\ work' = [work EXCEPT ![j].pc = "settled", ![j].listed = FALSE,
                          ![j].result = IF work[j].pc = "returned" THEN @
                                        ELSE [code |-> "error", upload |-> "none"]]
  /\ UNCHANGED <<conn, fetch, upload, permits, asked, panics>>

(* After a panic the producer's latch is waited for.                       *)
Settle(j) ==
  /\ \/ work[j].pc = "returned"
     \/ work[j].pc = "panicked" /\ fetch[j].state # "running"
  /\ work' = [work EXCEPT ![j].pc = "settled", ![j].listed = FALSE,
                          ![j].result = IF work[j].pc = "returned" THEN @
                                        ELSE [code |-> "error", upload |-> "none"]]
  /\ UNCHANGED <<conn, fetch, upload, permits, asked, panics>>

(* The result waits for room in its own connection's queue, or is dropped  *)
(* with the connection.                                                    *)
Report(j) ==
  /\ work[j].pc = "settled"
  /\ IF link /\ work[j].gen = gen
     THEN /\ Len(results) < ResultCapacity
          /\ results' = Append(results, j)
          /\ work' = [work EXCEPT ![j].pc = "queued"]
          /\ UNCHANGED <<fetch, upload, asked>>
     ELSE Forget(j) /\ UNCHANGED results
  /\ UNCHANGED <<gen, link, permits, panics>>

-----------------------------------------------------------------------------
(* The blocking extraction and the upload.                                 *)

(* The receiver is in the worker until the upload takes it.                *)
ReceiverOpen(j) ==
  IF upload[j].state = "none" THEN work[j].pc \in {"first", "stopping"}
  ELSE upload[j].state = "sending"

(* ChannelWriter::push                                                     *)
PushChunk(j) ==
  /\ fetch[j].state = "running"
  /\ fetch[j].queue < UploadCapacity /\ ReceiverOpen(j)
  /\ fetch' = [fetch EXCEPT ![j].sent = TRUE, ![j].queue = @ + 1]
  /\ UNCHANGED <<conn, work, upload, permits, asked, panics>>

(* Variant: an extraction that fails keeps its permit.                     *)
FetchEndsKeepsPermit(j) ==
  /\ fetch[j].state = "running"
  /\ \E how \in {"ok", "error"} \cup (IF fetch[j].sent THEN {} ELSE {"nothing"}) :
       /\ fetch' = [fetch EXCEPT ![j].state = how]
       /\ permits' = IF how = "error" THEN permits ELSE permits + 1
  /\ UNCHANGED <<conn, work, upload, asked, panics>>

(* pcap::fetch returns: with statistics, without a match, or with an error *)
(* (cancelled, stalled, receiver closed, unreadable file).  The closure    *)
(* drops its end of the channel, its latch and its permit.                 *)
FetchEnds(j) ==
  /\ fetch[j].state = "running"
  /\ \E how \in {"ok", "error"} \cup (IF fetch[j].sent THEN {} ELSE {"nothing"}) :
       fetch' = [fetch EXCEPT ![j].state = how]
  /\ permits' = permits + 1
  /\ UNCHANGED <<conn, work, upload, asked, panics>>

(* Variant: the body ends when the producer does, with chunks queued.      *)
BodyEndsEarly(j) ==
  /\ upload[j].state = "sending" /\ ~upload[j].first
  /\ fetch[j].state # "running"
  /\ upload' = [upload EXCEPT ![j].state = "eof"]
  /\ UNCHANGED <<conn, work, fetch, permits, asked, panics>>

(* UploadBodyStream: the first chunk, the queue, then the end; after a     *)
(* cancel only an error, which is an UploadAnswered.                       *)
BodyTakes(j) ==
  /\ upload[j].state = "sending" /\ ~work[j].cancel
  /\ \/ /\ upload[j].first
        /\ upload' = [upload EXCEPT ![j].first = FALSE]
        /\ UNCHANGED fetch
     \/ /\ ~upload[j].first /\ fetch[j].queue > 0
        /\ fetch' = [fetch EXCEPT ![j].queue = @ - 1]
        /\ UNCHANGED upload
  /\ UNCHANGED <<conn, work, permits, asked, panics>>

BodyEnds(j) ==
  /\ upload[j].state = "sending" /\ ~upload[j].first /\ ~work[j].cancel
  /\ fetch[j].queue = 0 /\ fetch[j].state # "running"
  /\ upload' = [upload EXCEPT ![j].state = "eof"]
  /\ UNCHANGED <<conn, work, fetch, permits, asked, panics>>

(* The server accepts the whole body, or the request fails.                *)
UploadAnswered(j) ==
  /\ \/ /\ upload[j].state = "eof"
        /\ upload' = [upload EXCEPT ![j].state = "success"]
        /\ UNCHANGED fetch
     \/ /\ upload[j].state \in {"sending", "eof"}
        /\ DropUpload(j)
  /\ UNCHANGED <<conn, work, permits, asked, panics>>

-----------------------------------------------------------------------------
Worker(j) ==
  \/ BadRange(j) \/ AcquirePermit(j) \/ WorkerCancelled(j) \/ FirstChunk(j) \/ NoChunk(j)
  \/ UploadEnds(j) \/ BothDone(j) \/ Stopped(j)

Supervisor(j) == Settle(j) \/ Report(j)

ChNext ==
  \/ Connect \/ ConnectionEnds \/ WriteResult
  \/ \E j \in Job :
       \/ StartJob(j) \/ CancelJob(j)
       \/ Worker(j) \/ WorkerPanics(j) \/ Supervisor(j)
       \/ PushChunk(j) \/ FetchEnds(j)
       \/ BodyTakes(j) \/ BodyEnds(j) \/ UploadAnswered(j)

ChSpec == ChInit /\ [][ChNext]_chVars

(* Tasks are polled and timers run, an extraction returns in the end, and  *)
(* a connection drains its result queue while it lasts.  Nothing obliges   *)
(* the server to answer or a connection to be made.                        *)
ChFairSpec ==
  /\ ChSpec
  /\ \A j \in Job :
       WF_chVars(Worker(j)) /\ WF_chVars(Supervisor(j)) /\ WF_chVars(FetchEnds(j))
  /\ WF_chVars(WriteResult)

-----------------------------------------------------------------------------
(* Properties.                                                             *)

Settled(j) == work[j].pc \in {"settled", "queued", "done"}

(* A published result means that the producer and its permit are gone      *)
(* ("Publishing a terminal result at that point would falsely tell the     *)
(* server that the source producer and its extraction permit were gone"),  *)
(* after a cancel, a failed upload and a worker's panic too.               *)
SettledIsStopped == \A j \in Job : Settled(j) => fetch[j].state # "running"

(* Extractions never overlap, also across connections ("a blocking         *)
(* producer can outlive the connection which started it").                 *)
OneExtraction ==
  \A i, j \in Job : fetch[i].state = "running" /\ fetch[j].state = "running" => i = j

(* What a result claims is so: complete means that the extraction finished *)
(* and that the server took all it sent, an empty one sent nothing, and a  *)
(* local failure is not told as a cancellation ("the terminal code remains *)
(* `error` rather than being misreported as a server-requested             *)
(* cancellation").                                                         *)
ResultIsHonest ==
  \A j \in Job : work[j].result # NoResult =>
    LET res == work[j].result IN
    /\ res.code = "complete" =>
         /\ fetch[j].state = "ok" /\ fetch[j].queue = 0 /\ ~upload[j].first
         /\ IF fetch[j].sent THEN res.upload = "complete" /\ upload[j].state = "success"
                             ELSE res.upload = "none" /\ upload[j].state = "none"
    /\ res.code = "empty" => res.upload = "none" /\ ~fetch[j].sent
    /\ res.code = "cancelled" => j \in asked

(* Every job ends: its result is written to its connection, or dropped     *)
(* because that connection is gone; a server that stops reading the upload *)
(* or never answers it, a cancel and a panic do not keep it alive, and a   *)
(* job that waits for the permit gets it although the extraction before it *)
(* failed or outlived its worker and its connection.                       *)
JobEnds == \A j \in Job : work[j].pc # "none" ~> work[j].pc = "done"

=============================================================================
