------------------------------ MODULE RemotePcap ------------------------------
(***************************************************************************)
(* A packet capture served by a remote agent: the browser's request, the   *)
(* job in the task registry, the agent's upload and terminal result, and   *)
(* the response body, over the connections of AgentRegistry.               *)
(*                                                                         *)
(* The agent is external: it may upload and answer anything, in any order, *)
(* but only for jobs it has been sent.  A chunk is one unit of MaxBytes.   *)
(***************************************************************************)
EXTENDS AgentRegistry, Sequences, FiniteSets

CONSTANTS
  Req,              \* browser requests
  MaxConcurrent,    \* permits of PcapService.global
  MaxBytes,         \* limits.max_bytes
  BodyCapacity,     \* BODY_CHANNEL_CAPACITY
  FrameCapacity,    \* capacity of the frame channel
  OutboundCapacity, \* OUTBOUND_CAPACITY
  AgentResults      \* the terminal results an agent may report

Result ==
  [code : {"complete", "empty", "failed"}, upload : {"none", "complete", "failed"},
   bytes : 0 .. MaxBytes, stats : BOOLEAN, truncated : BOOLEAN]

ASSUME PcapAssumption ==
  /\ MaxBytes \in Nat /\ BodyCapacity \in Nat \ {0} /\ FrameCapacity \in Nat \ {0}
  /\ OutboundCapacity \in Nat /\ MaxConcurrent \in Nat
  /\ AgentResults \subseteq Result
  /\ None \notin Result /\ None \notin Req

(* What fail_pending answers for an agent that is gone.                    *)
DisconnectResult ==
  [code |-> "failed", upload |-> "failed", bytes |-> 0, stats |-> FALSE, truncated |-> FALSE]

VARIABLES
  req,    \* stream_agent and its supervisor task
  task,   \* the job in tasks::Registry
  up,     \* upload_pcap, receive_upload and the body channel
  resp,   \* the frame channel and the browser's end of the body
  lane,   \* permits taken from each PCAP slot (AgentEntry.pcap_busy)
  outq,   \* AgentEntry.outbound
  ajob    \* the job at the agent

pcapVars == <<req, task, up, resp, lane, outq, ajob>>
allVars  == <<regVars, pcapVars>>

ReqPcs == {"idle", "probing", "probed", "registered", "check", "select",
           "scheck", "sselect", "forward", "ending", "over"}

UploadStates == {"pending", "streaming", "complete", "failed"}

Outcomes == {"none", "refused", "complete", "empty", "failed", "protocol", "timeout", "client"}

Messages == {"request", "cancel"} \X Req

ReqType ==
  [pc : ReqPcs, via : Conn \cup {None}, terminal : Result \cup {None},
   snap : UploadStates, open : BOOLEAN, streamed : 0 .. MaxBytes, outcome : Outcomes]

TaskType ==
  [listed : BOOLEAN, held : BOOLEAN, allowed : BOOLEAN, waiting : BOOLEAN,
   result : Result \cup {None}]

UpType ==
  [found : BOOLEAN, state : UploadStates, sent : 0 .. MaxBytes, queue : 0 .. BodyCapacity]

RespType ==
  [frames : 0 .. FrameCapacity, done : {"none", "clean", "dirty"}, got : 0 .. MaxBytes,
   browser : {"open", "clean", "error", "gone"}]

PcapTypeOK ==
  /\ req \in [Req -> ReqType]
  /\ task \in [Req -> TaskType]
  /\ up \in [Req -> UpType]
  /\ resp \in [Req -> RespType]
  /\ lane \in [Conn -> SUBSET Req]
  /\ outq \in [Conn -> Seq(Messages)]
  /\ \A c \in Conn : Len(outq[c]) <= OutboundCapacity
  /\ ajob \in [Req -> {"none", "running", "cancelled", "done"}]

PcapInit ==
  /\ RegInit
  /\ req = [r \in Req |-> [pc |-> "idle", via |-> None, terminal |-> None, snap |-> "pending",
                           open |-> TRUE, streamed |-> 0, outcome |-> "none"]]
  /\ task = [r \in Req |-> [listed |-> FALSE, held |-> FALSE, allowed |-> FALSE,
                            waiting |-> FALSE, result |-> None]]
  /\ up = [r \in Req |-> [found |-> FALSE, state |-> "pending", sent |-> 0, queue |-> 0]]
  /\ resp = [r \in Req |-> [frames |-> 0, done |-> "none", got |-> 0, browser |-> "open"]]
  /\ lane = [c \in Conn |-> {}]
  /\ outq = [c \in Conn |-> <<>>]
  /\ ajob = [r \in Req |-> "none"]

-----------------------------------------------------------------------------
(* Helpers: where a request stands, and what its end does.                 *)

Goes(r, label) == req' = [req EXCEPT ![r].pc = label]

(* The handler returns, or the supervisor's last await is over.            *)
Finishes(r, outcome) == req' = [req EXCEPT ![r].pc = "over", ![r].outcome = outcome]

FreeLane(r) == lane' = [s \in Conn |-> lane[s] \ {r}]

(* try_send on a control queue: a message that finds no room is lost.      *)
TrySend(c, message) ==
  outq' = [outq EXCEPT ![c] = IF Len(@) < OutboundCapacity THEN Append(@, message) ELSE @]

(* Variant: no cancel is sent.                                             *)
DropGuardSilent(r, cancel) == task' = [task EXCEPT ![r].listed = FALSE] /\ UNCHANGED outq

(* RemoteTaskGuard::drop: unlist the job, with or without a cancel.        *)
DropGuard(r, cancel) ==
  /\ task' = [task EXCEPT ![r].listed = FALSE]
  /\ IF cancel THEN TrySend(req[r].via, <<"cancel", r>>) ELSE UNCHANGED outq

(* A sender of the body channel exists.                                    *)
BodySender(r) == task[r].held \/ up[r].state = "streaming"

(* classify_result: the meaning of a terminal result against the upload.   *)
Classify(res, state, open, streamed, sent) ==
  CASE res.code = "complete" ->
         IF "failed" \in {res.upload, state} THEN "failed"
         ELSE IF ~res.stats THEN "protocol"
         ELSE IF res.upload = "none"
           THEN IF state = "pending" /\ streamed = 0 /\ res.bytes = 0 /\ res.truncated
                THEN "complete" ELSE "protocol"
         ELSE IF state # "complete" \/ open THEN "wait"
         ELSE IF sent = streamed /\ res.bytes = streamed THEN "complete" ELSE "protocol"
    [] res.code = "empty" ->
         IF res.upload = "none" /\ state = "pending" /\ streamed = 0 THEN "empty" ELSE "protocol"
    [] OTHER ->
         IF res.upload = "none" /\ state # "pending" THEN "protocol" ELSE "failed"

(* The outcome of the request's own result, "wait" without one.            *)
Verdict(r, state) ==
  IF req[r].terminal = None THEN "wait"
  ELSE Classify(req[r].terminal, state, req[r].open, req[r].streamed, up[r].sent)

-----------------------------------------------------------------------------
(* The request up to the dispatch.                                         *)

(* Requests with a permit; the global one is held as long as the lane.     *)
Admitted == UNION {lane[s] : s \in Conn}

(* get_pcap: the agent is looked up and both permits are taken, or the     *)
(* request is refused: no source, too many requests, or a busy source.     *)
Route(r) ==
  /\ req[r].pc = "idle"
  /\ \E n \in Name :
       LET c == agents[n] IN
       IF c = None \/ Cardinality(Admitted) >= MaxConcurrent \/ lane[slot[c]] # {}
       THEN Finishes(r, "refused") /\ UNCHANGED lane
       ELSE /\ req' = [req EXCEPT ![r].pc = "probing", ![r].via = c]
            /\ lane' = [lane EXCEPT ![slot[c]] = {r}]
  /\ UNCHANGED <<regVars, task, up, resp, outq, ajob>>

(* probe_liveness: a pong arrives, or the probe times out.                 *)
ProbeOk(r) ==
  /\ req[r].pc = "probing" /\ cpc[req[r].via] = "live" /\ peer[req[r].via] = "up"
  /\ Goes(r, "probed")
  /\ UNCHANGED <<regVars, task, up, resp, lane, outq, ajob>>

ProbeFails(r) ==
  /\ req[r].pc = "probing"
  /\ Finishes(r, "refused") /\ FreeLane(r)
  /\ UNCHANGED <<regVars, task, up, resp, outq, ajob>>

(* tasks::Registry::register, before the dispatch.                         *)
RegisterTask(r) ==
  /\ req[r].pc = "probed"
  /\ task' = [task EXCEPT ![r] = [listed |-> TRUE, held |-> TRUE, allowed |-> TRUE,
                                  waiting |-> TRUE, result |-> None]]
  /\ Goes(r, "registered")
  /\ UNCHANGED <<regVars, up, resp, lane, outq, ajob>>

(* Variant: the queue of a connection is enough, current or not.           *)
CanSendStale(c) == Len(outq[c]) < OutboundCapacity

(* try_send_current: only on the name's current connection.                *)
CanSend(c) == agents[cname[c]] = c /\ Len(outq[c]) < OutboundCapacity

Dispatch(r) ==
  /\ req[r].pc = "registered"
  /\ IF CanSend(req[r].via)
     THEN /\ TrySend(req[r].via, <<"request", r>>)
          /\ Goes(r, "check")
          /\ UNCHANGED <<task, lane>>
     ELSE Finishes(r, "refused") /\ DropGuard(r, FALSE) /\ FreeLane(r)
  /\ UNCHANGED <<regVars, up, resp, ajob>>

-----------------------------------------------------------------------------
(* Waiting for the first byte.                                             *)

(* The top of the loop reads the upload's state afresh.                    *)
WaitCheck(r) ==
  LET verdict == Verdict(r, up[r].state) IN
  /\ req[r].pc = "check"
  /\ IF up[r].state = "failed"
     THEN Finishes(r, "failed") /\ DropGuard(r, TRUE) /\ FreeLane(r)
     ELSE IF verdict # "wait"
     THEN Finishes(r, verdict) /\ DropGuard(r, FALSE) /\ FreeLane(r)
     ELSE req' = [req EXCEPT ![r].pc = "select", ![r].snap = up[r].state]
          /\ UNCHANGED <<task, outq, lane>>
  /\ UNCHANGED <<regVars, up, resp, ajob>>

(* The first chunk: the response is built and the supervisor spawned.      *)
FirstChunk(r) ==
  /\ req[r].pc = "select" /\ req[r].open /\ up[r].queue > 0
  /\ up' = [up EXCEPT ![r].queue = @ - 1]
  /\ req' = [req EXCEPT ![r].pc = "scheck", ![r].streamed = 1, ![r].snap = up[r].state]
  /\ resp' = [resp EXCEPT ![r].got = 1]
  /\ UNCHANGED <<regVars, task, lane, outq, ajob>>

(* request_timeout runs over the whole wait.                               *)
WaitTimeout(r) ==
  /\ req[r].pc \in {"check", "select"}
  /\ Finishes(r, "timeout") /\ DropGuard(r, TRUE) /\ FreeLane(r)
  /\ UNCHANGED <<regVars, up, resp, ajob>>

(* The browser goes away before the response: the handler is dropped.      *)
ClientAbandons(r) ==
  /\ req[r].pc \in {"probing", "check", "select"}
  /\ Finishes(r, "client") /\ FreeLane(r)
  /\ IF req[r].pc = "probing" THEN UNCHANGED <<task, outq>> ELSE DropGuard(r, TRUE)
  /\ UNCHANGED <<regVars, up, resp, ajob>>

(* The events both loops select on, and the loop top they return to.       *)
Top(r) == IF req[r].pc = "select" THEN "check" ELSE "scheck"

BodyCloses(r) ==
  /\ req[r].pc \in {"select", "sselect"} /\ req[r].open
  /\ up[r].queue = 0 /\ ~BodySender(r)
  /\ req' = [req EXCEPT ![r].pc = Top(r), ![r].open = FALSE]
  /\ UNCHANGED <<regVars, task, up, resp, lane, outq, ajob>>

TakeResult(r) ==
  /\ req[r].pc \in {"select", "sselect"} /\ task[r].result # None
  /\ req' = [req EXCEPT ![r].pc = Top(r), ![r].terminal = task[r].result]
  /\ task' = [task EXCEPT ![r].result = None]
  /\ UNCHANGED <<regVars, up, resp, lane, outq, ajob>>

UploadChanged(r) ==
  /\ req[r].pc \in {"select", "sselect"} /\ up[r].state # req[r].snap
  /\ req' = [req EXCEPT ![r].pc = Top(r),
                        ![r].snap = IF req[r].pc = "select" THEN @ ELSE up[r].state]
  /\ UNCHANGED <<regVars, task, up, resp, lane, outq, ajob>>

-----------------------------------------------------------------------------
(* The supervisor, once the response body is streaming.                    *)

Ends(r, outcome) == req' = [req EXCEPT ![r].pc = "ending", ![r].outcome = outcome]

(* The top of the loop uses the last state it was told of.                 *)
StreamCheck(r) ==
  LET verdict == Verdict(r, req[r].snap) IN
  /\ req[r].pc = "scheck"
  /\ IF req[r].snap = "failed" THEN Ends(r, "failed") /\ DropGuard(r, TRUE)
     ELSE IF verdict = "complete" THEN Ends(r, "complete") /\ DropGuard(r, FALSE)
     ELSE IF verdict # "wait" THEN Ends(r, verdict) /\ DropGuard(r, TRUE)
     ELSE Goes(r, "sselect") /\ UNCHANGED <<task, outq>>
  /\ UNCHANGED <<regVars, up, resp, lane, ajob>>

NextChunk(r) ==
  /\ req[r].pc = "sselect" /\ req[r].open /\ up[r].queue > 0
  /\ up' = [up EXCEPT ![r].queue = @ - 1]
  /\ IF req[r].streamed < MaxBytes
     THEN Goes(r, "forward") /\ UNCHANGED <<task, outq>>
     ELSE Ends(r, "protocol") /\ DropGuard(r, TRUE)
  /\ UNCHANGED <<regVars, resp, lane, ajob>>

Forward(r) ==
  /\ req[r].pc = "forward" /\ resp[r].browser = "open" /\ resp[r].frames < FrameCapacity
  /\ resp' = [resp EXCEPT ![r].frames = @ + 1]
  /\ req' = [req EXCEPT ![r].pc = "scheck", ![r].streamed = @ + 1]
  /\ UNCHANGED <<regVars, task, up, lane, outq, ajob>>

(* The browser is gone, has cancelled or does not drain (stall_timeout).   *)
StreamAborts(r) ==
  /\ \/ req[r].pc = "sselect" /\ resp[r].browser # "open"
     \/ req[r].pc = "forward"
  /\ Ends(r, "client") /\ DropGuard(r, TRUE)
  /\ UNCHANGED <<regVars, up, resp, lane, ajob>>

(* Variant: the agent's terminal result is waited for without a bound.     *)
StreamIdleOpen(r) ==
  /\ req[r].pc = "sselect" /\ req[r].open
  /\ Ends(r, "timeout") /\ DropGuard(r, TRUE)
  /\ UNCHANGED <<regVars, up, resp, lane, ajob>>

(* stall_timeout without any event.                                        *)
StreamIdle(r) ==
  /\ req[r].pc = "sselect"
  /\ Ends(r, "timeout") /\ DropGuard(r, TRUE)
  /\ UNCHANGED <<regVars, up, resp, lane, ajob>>

(* Frame::Done is queued, or given up after stall_timeout.                 *)
SendDone(r) ==
  /\ req[r].pc = "ending"
  /\ Goes(r, "over") /\ FreeLane(r)
  /\ \/ /\ resp[r].browser = "open" /\ resp[r].frames < FrameCapacity
        /\ resp' = [resp EXCEPT ![r].done = IF req[r].outcome = "complete" THEN "clean" ELSE "dirty"]
     \/ UNCHANGED resp
  /\ UNCHANGED <<regVars, task, up, outq, ajob>>

Supervisor(r) ==
  \/ StreamCheck(r) \/ NextChunk(r) \/ Forward(r) \/ StreamAborts(r) \/ StreamIdle(r) \/ SendDone(r)

-----------------------------------------------------------------------------
(* The browser's end of the response body.                                 *)

Streaming(r) == req[r].streamed > 0 /\ resp[r].browser = "open"

BrowserReads(r) ==
  /\ Streaming(r) /\ resp[r].frames > 0
  /\ resp' = [resp EXCEPT ![r].frames = @ - 1, ![r].got = @ + 1]
  /\ UNCHANGED <<regVars, req, task, up, lane, outq, ajob>>

(* Variant: a channel that closes without a terminal frame ends cleanly.   *)
BrowserEndsQuietly(r) ==
  /\ Streaming(r) /\ resp[r].frames = 0 /\ req[r].pc = "over"
  /\ resp' = [resp EXCEPT ![r].browser = IF resp[r].done = "dirty" THEN "error" ELSE "clean"]
  /\ UNCHANGED <<regVars, req, task, up, lane, outq, ajob>>

(* body_stream: the terminal frame, or the producer vanished without one.  *)
BrowserEnds(r) ==
  /\ Streaming(r) /\ resp[r].frames = 0 /\ req[r].pc = "over"
  /\ resp' = [resp EXCEPT ![r].browser = IF resp[r].done = "clean" THEN "clean" ELSE "error"]
  /\ UNCHANGED <<regVars, req, task, up, lane, outq, ajob>>

BrowserGone(r) ==
  /\ Streaming(r)
  /\ resp' = [resp EXCEPT ![r].browser = "gone"]
  /\ UNCHANGED <<regVars, req, task, up, lane, outq, ajob>>

-----------------------------------------------------------------------------
(* The agent's upload.                                                     *)

(* begin_upload finds the job in the map, ...                              *)
FindTask(r) ==
  /\ ajob[r] # "none" /\ ~up[r].found /\ task[r].listed
  /\ up' = [up EXCEPT ![r].found = TRUE]
  /\ UNCHANGED <<regVars, req, task, resp, lane, outq, ajob>>

(* ... and claims the body sender, unless a result or a disconnect came    *)
(* first.                                                                  *)
BeginUpload(r) ==
  /\ up[r].found /\ task[r].allowed /\ task[r].held
  /\ up' = [up EXCEPT ![r].state = "streaming"]
  /\ task' = [task EXCEPT ![r].held = FALSE]
  /\ UNCHANGED <<regVars, req, resp, lane, outq, ajob>>

SendChunk(r) ==
  /\ up[r].state = "streaming" /\ up[r].sent < MaxBytes
  /\ up[r].queue < BodyCapacity /\ req[r].pc # "over"
  /\ up' = [up EXCEPT ![r].queue = @ + 1, ![r].sent = @ + 1]
  /\ UNCHANGED <<regVars, req, task, resp, lane, outq, ajob>>

CompleteUpload(r) ==
  /\ up[r].state = "streaming"
  /\ up' = [up EXCEPT ![r].state = "complete"]
  /\ UNCHANGED <<regVars, req, task, resp, lane, outq, ajob>>

(* A body error, a stall, too many bytes, a closed receiver or a dropped   *)
(* handler.                                                                *)
FailUpload(r) ==
  /\ up[r].state = "streaming"
  /\ up' = [up EXCEPT ![r].state = "failed"]
  /\ UNCHANGED <<regVars, req, task, resp, lane, outq, ajob>>

Upload(r) ==
  FindTask(r) \/ BeginUpload(r) \/ SendChunk(r) \/ CompleteUpload(r) \/ FailUpload(r)

-----------------------------------------------------------------------------
(* The control channel.                                                    *)

(* The connection's loop writes the next queued message; a peer that is    *)
(* not there loses it, or the write fails and ends the loop.               *)
WriteControl(c) ==
  /\ cpc[c] = "live" /\ outq[c] # <<>>
  /\ LET kind == Head(outq[c])[1]
         r == Head(outq[c])[2] IN
     /\ outq' = [outq EXCEPT ![c] = Tail(@)]
     /\ \/ /\ peer[c] = "up"
           /\ ajob' = [ajob EXCEPT ![r] = IF kind = "request" THEN "running"
                                          ELSE IF @ = "running" THEN "cancelled" ELSE @]
           /\ UNCHANGED regVars
        \/ peer[c] # "up" /\ UNCHANGED <<ajob, regVars>>
        \/ SendFails(c) /\ UNCHANGED ajob
  /\ UNCHANGED <<req, task, up, resp, lane>>

PromisesUpload(res) == res.code = "complete" /\ res.upload = "complete"

(* deliver_result on the job's own connection.                             *)
Deliver(r, res) ==
  [task[r] EXCEPT !.allowed = @ /\ PromisesUpload(res),
                  !.result  = IF task[r].waiting THEN res ELSE @,
                  !.waiting = FALSE]

AgentResult(r, res) ==
  /\ ajob[r] \in {"running", "cancelled"}
  /\ cpc[req[r].via] = "live" /\ peer[req[r].via] = "up"
  /\ ajob' = [ajob EXCEPT ![r] = "done"]
  /\ task' = IF task[r].listed THEN [task EXCEPT ![r] = Deliver(r, res)] ELSE task
  /\ UNCHANGED <<regVars, req, up, resp, lane, outq>>

PendingOn(c) == {r \in Req : task[r].listed /\ req[r].via = c}

FailedTask(r) ==
  [task[r] EXCEPT !.allowed = FALSE,
                  !.result  = IF task[r].waiting THEN DisconnectResult ELSE @,
                  !.waiting = FALSE]

(* disconnected: fail_pending ends the connection's jobs.                  *)
FailPending(c) ==
  /\ Disconnected(c)
  /\ task' = [r \in Req |-> IF r \in PendingOn(c) THEN FailedTask(r) ELSE task[r]]
  /\ UNCHANGED <<req, up, resp, lane, outq, ajob>>

-----------------------------------------------------------------------------
Request(r) ==
  \/ Route(r) \/ ProbeOk(r) \/ ProbeFails(r) \/ RegisterTask(r) \/ Dispatch(r)
  \/ WaitCheck(r) \/ FirstChunk(r) \/ WaitTimeout(r)
  \/ BodyCloses(r) \/ TakeResult(r) \/ UploadChanged(r)
  \/ Supervisor(r)

Environment(r) ==
  \/ ClientAbandons(r) \/ BrowserReads(r) \/ BrowserEnds(r) \/ BrowserGone(r)
  \/ Upload(r) \/ \E res \in AgentResults : AgentResult(r, res)

PcapNext ==
  \/ \E r \in Req : Request(r) \/ Environment(r)
  \/ \E c \in Conn : WriteControl(c) \/ FailPending(c)
  \/ /\ \/ \E k \in Key : Admin(k)
        \/ \E c \in Conn : Connection(c)
     /\ UNCHANGED pcapVars

PcapSpec == PcapInit /\ [][PcapNext]_allVars

(* Handlers and supervisors are polled and their timers run; connection    *)
(* loops write their queues (select! picks ready branches at random).      *)
PcapFairness ==
  /\ \A r \in Req : WF_allVars(req[r].pc # "idle" /\ Request(r))
  /\ \A c \in Conn : SF_allVars(WriteControl(c))

-----------------------------------------------------------------------------
(* Properties.                                                             *)

(* Dispatched, and not at its end.                                         *)
InProgress(r) == req[r].pc \in {"check", "select", "scheck", "sselect", "forward"}

(* A body that ends cleanly is the whole upload, of the size the agent     *)
(* reported ("a clean chunked EOF" is never written "over a truncated      *)
(* pcap"), whatever order chunks, end of upload, result and frames took.   *)
CleanEndIsWhole ==
  \A r \in Req : resp[r].browser = "clean" =>
    /\ up[r].state = "complete"
    /\ resp[r].got = up[r].sent
    /\ req[r].terminal.code = "complete" /\ req[r].terminal.bytes = resp[r].got

(* Every request ends, by result, failure or timeout.                      *)
RequestEnds == \A r \in Req : req[r].pc # "idle" ~> req[r].pc = "over"

(* An agent does not work on for a request that has ended: it has          *)
(* answered, is told to cancel, or has lost its connection.                *)
CancelReaches ==
  \A r \in Req :
    req[r].pc = "over" /\ ajob[r] = "running"
      ~> ajob[r] # "running" \/ cpc[req[r].via] # "live" \/ peer[req[r].via] # "up"

-----------------------------------------------------------------------------
(* The inductive invariant behind the safety properties.                   *)

Early(r) == req[r].pc \in {"idle", "probing", "probed", "registered"}

Unregistered(r) == req[r].pc \in {"idle", "probing", "probed"}

(* Nothing of a job exists before it is registered, and no agent knows it  *)
(* before it is dispatched.                                                *)
JobStarts(r) ==
  /\ Unregistered(r) => ~task[r].listed /\ ~task[r].held
  /\ Early(r) => /\ up[r].state = "pending" /\ up[r].sent = 0 /\ ~up[r].found
                 /\ ajob[r] = "none" /\ req[r].terminal = None
  /\ ~(Early(r) \/ InProgress(r)) => ~task[r].listed
  /\ InProgress(r) \/ req[r].pc = "registered" => task[r].listed
  /\ req[r].pc \notin {"idle", "over"} => req[r].via \in Conn
  /\ up[r].state # "pending" => ~task[r].held

(* Every chunk that was sent is queued, being forwarded or streamed, until *)
(* the request ends; every streamed chunk is in a frame or was received.   *)
ChunksAccounted(r) ==
  LET inHand == IF req[r].pc = "forward" THEN 1 ELSE 0 IN
  /\ req[r].streamed + up[r].queue + inHand <= up[r].sent
  /\ req[r].pc \notin {"ending", "over"} => req[r].streamed + up[r].queue + inHand = up[r].sent
  /\ resp[r].got + resp[r].frames = req[r].streamed
  /\ req[r].pc \in {"scheck", "sselect", "forward", "ending"} => req[r].streamed > 0
  /\ Early(r) \/ req[r].pc \in {"check", "select"} => req[r].streamed = 0

(* What the supervisor knows is true, and what it announces is verified.   *)
EndVerified(r) ==
  /\ req[r].snap = "complete" => up[r].state = "complete"
  /\ req[r].pc \notin {"ending", "over"} => req[r].outcome = "none"
  /\ req[r].outcome = "complete" /\ req[r].streamed > 0 =>
       /\ up[r].state = "complete" /\ up[r].sent = req[r].streamed
       /\ req[r].terminal \in Result
       /\ req[r].terminal.code = "complete" /\ req[r].terminal.bytes = req[r].streamed
  /\ resp[r].done = "clean" => req[r].pc = "over" /\ req[r].outcome = "complete" /\ req[r].streamed > 0
  /\ resp[r].browser = "clean" => resp[r].done = "clean" /\ resp[r].frames = 0

(* A result that promises no upload has closed the door to one.            *)
DoorClosed(r) ==
  /\ \A res \in {req[r].terminal, task[r].result} :
       res # None /\ ~PromisesUpload(res) => ~task[r].allowed
  /\ req[r].outcome = "empty" => up[r].state = "pending" /\ ~task[r].allowed

(* A job's connection was registered; once it is gone, the job was failed. *)
Bound(r) ==
  LET c == req[r].via IN
  c # None =>
    /\ cpc[c] \in {"live", "closing", "removed", "gone"}
    /\ task[r].listed /\ ~Early(r) /\ cpc[c] = "gone" => ~task[r].allowed /\ ~task[r].waiting

LaneHeld(r) == \A s \in Conn : r \in lane[s] => req[r].pc \notin {"idle", "over"}

JobInv(r) ==
  JobStarts(r) /\ ChunksAccounted(r) /\ EndVerified(r) /\ DoorClosed(r) /\ Bound(r) /\ LaneHeld(r)

(* Only dispatched jobs are on a control queue.                            *)
QueuedIsDispatched ==
  \A c \in Conn : \A i \in 1 .. Len(outq[c]) : ~Early(outq[c][i][2])

(* Whatever order requests, uploads, results, timers and disconnects take: *)
(* chunks are neither lost nor invented on their way, a result that        *)
(* promises no upload shuts the door to one, a disconnect leaves no listed *)
(* job waiting or open to an upload, and a request that is over has left   *)
(* the task registry and its lane.                                         *)
PcapInv == PcapTypeOK /\ QueuedIsDispatched /\ \A r \in Req : JobInv(r)

=============================================================================
