------------------------------ MODULE LocalPcap ------------------------------
(***************************************************************************)
(* A packet capture served from the server's own spool: the request        *)
(* handler and its response body, the blocking extraction thread that      *)
(* frames its output into a bounded channel, and the supervisor task that  *)
(* owns the thread and the request's permits.  A thread stuck in a read    *)
(* never returns; the supervisor gives up on it and leaves it detached.    *)
(* Timers are actions that may fire whenever what they watch is pending.   *)
(* A request routed to an agent leaves here (RemotePcap).                  *)
(***************************************************************************)
EXTENDS PcapRouting

CONSTANTS
  Requests,        \* capture requests
  Inputs,          \* what a client may ask for
  MaxConcurrent,   \* PcapSettings.max_concurrent
  Capacity,        \* frames the channel holds
  MaxFrames        \* bound on the data frames of one extraction

ASSUME LocalAssumption ==
  /\ MaxConcurrent \in Nat \ {0} /\ Capacity \in Nat \ {0} /\ MaxFrames \in Nat
  /\ \A i \in Inputs : /\ i.native \in BOOLEAN /\ i.dryRun \in BOOLEAN /\ i.large \in BOOLEAN
                       /\ i.bad \in {"none", "bad-request", "bad-event", "bad-max-size"}

VARIABLES
  input,     \* the request's parameters
  route,     \* the live table and the answer when it was resolved (history)
  handler,   \* stream_local and the body: idle, waiting, reading, gone, over
  answer,    \* what the client was given
  marked,    \* x-evebox-pcap-truncated was sent
  got,       \* data frames the client received
  queued,    \* data frames the handler took before the body started
  chan,      \* the frame channel
  rx,        \* its receiver exists
  thread,    \* the blocking extraction
  made,      \* data frames it handed over
  result,    \* how it ended
  super,     \* await_outcome
  outcome,   \* the outcome the supervisor logs
  cancel,    \* the cancellation token
  cause,     \* CancelReason
  remote,    \* requests handed to an agent that hold its slot
  inflight   \* PcapService.inflight

serveVars == <<input, route, handler, answer, marked, got, queued, chan, rx, thread, made,
               result, super, outcome, cancel, cause, remote, inflight>>
localVars == <<routeVars, serveVars>>

Ok     == {"complete", "truncated", "cancelled"}
Faults == {"format", "io"}
Pipe   == {"broken", "stalled"}

LocalInit ==
  /\ RoutingInit
  /\ input \in [Requests -> Inputs]
  /\ route = [r \in Requests |-> [table |-> EmptyTable, to |-> None]]
  /\ handler = [r \in Requests |-> "idle"]
  /\ answer = [r \in Requests |-> "none"]
  /\ marked = [r \in Requests |-> FALSE]
  /\ got = [r \in Requests |-> 0]
  /\ queued = [r \in Requests |-> 0]
  /\ chan = [r \in Requests |-> <<>>]
  /\ rx = [r \in Requests |-> FALSE]
  /\ thread = [r \in Requests |-> "none"]
  /\ made = [r \in Requests |-> 0]
  /\ result = [r \in Requests |-> "none"]
  /\ super = [r \in Requests |-> "none"]
  /\ outcome = [r \in Requests |-> "none"]
  /\ cancel = [r \in Requests |-> FALSE]
  /\ cause = [r \in Requests |-> "none"]
  /\ remote = {}
  /\ inflight = 0

-----------------------------------------------------------------------------
(* Permits are held by the supervisor, or by the agent's task.             *)

Holds(r)   == super[r] \in {"watching", "grace"}
Holders    == {r \in Requests : Holds(r)} \cup remote
GlobalFree == Cardinality(Holders) < MaxConcurrent

SourceFree(name) ==
  IF name = Local THEN \A r \in Requests : ~Holds(r)
  ELSE \A r \in remote : route[r].to # name

(* The backlog of threads at which the local spool counts as wedged.       *)
Backlog == IF 2 * MaxConcurrent > 2 THEN 2 * MaxConcurrent ELSE 2

Refuse(r, code) ==
  /\ handler' = [handler EXCEPT ![r] = "over"]
  /\ answer' = [answer EXCEPT ![r] = code]
  /\ UNCHANGED <<routeVars, input, marked, got, queued, chan, rx, thread, made, result, super,
                 outcome, cancel, cause, remote, inflight>>

(* handle_inner up to the routing decision: the event that is not there or *)
(* cannot be loaded, a bad window, filter or size, an oversized POST.      *)
RefuseEarly(r) ==
  /\ handler[r] = "idle" /\ input[r].event.present
  /\ \E code \in {"event-not-found", "internal"} : Refuse(r, code)
  /\ UNCHANGED route

RefuseRequest(r) ==
  /\ handler[r] = "idle" /\ input[r].bad # "none"
  /\ Refuse(r, input[r].bad)
  /\ UNCHANGED route

Oversized(r) == ~input[r].dryRun /\ ~input[r].native /\ input[r].large

Proper(r) == handler[r] = "idle" /\ input[r].bad = "none"

RefuseSize(r) ==
  /\ Proper(r) /\ Oversized(r)
  /\ Refuse(r, "max-size-too-large")
  /\ UNCHANGED route

Resolved(r) == ResolveSource(input[r].event, input[r].source)

RefuseRoute(r) ==
  /\ Proper(r) /\ ~Oversized(r)
  /\ Resolved(r).kind # "source"
  /\ Refuse(r, Resolved(r).kind)
  /\ UNCHANGED route

(* The pre-flight stops here: no permit, no extraction.                    *)
Validated(r) ==
  /\ Proper(r) /\ ~Oversized(r) /\ input[r].dryRun
  /\ Resolved(r).kind = "source"
  /\ Refuse(r, "ok")
  /\ UNCHANGED route

Routed(r, name) ==
  /\ Proper(r) /\ ~Oversized(r) /\ ~input[r].dryRun
  /\ Resolved(r) = Source(name)

RefuseBusy(r) ==
  /\ \E name \in Available :
       /\ Routed(r, name)
       /\ Refuse(r, IF ~GlobalFree THEN "busy"
                    ELSE IF ~SourceFree(name) THEN "source-busy"
                    ELSE "wedged")
       /\ ~GlobalFree \/ ~SourceFree(name) \/ (name = Local /\ inflight >= Backlog)
  /\ UNCHANGED route

(* Both permits are taken; the thread and its supervisor are spawned and   *)
(* the handler waits for the first frame.                                  *)
StartLocal(r) ==
  /\ Routed(r, Local) /\ GlobalFree /\ SourceFree(Local) /\ inflight < Backlog
  /\ route' = [route EXCEPT ![r] = [table |-> live, to |-> Local]]
  /\ handler' = [handler EXCEPT ![r] = "waiting"]
  /\ rx' = [rx EXCEPT ![r] = TRUE]
  /\ thread' = [thread EXCEPT ![r] = "spawned"]
  /\ super' = [super EXCEPT ![r] = "watching"]
  /\ UNCHANGED <<routeVars, input, answer, marked, got, queued, chan, made, result, outcome,
                 cancel, cause, remote, inflight>>

StartAgent(r) ==
  /\ \E name \in agents :
       /\ Routed(r, name) /\ GlobalFree /\ SourceFree(name)
       /\ route' = [route EXCEPT ![r] = [table |-> live, to |-> name]]
  /\ remote' = remote \cup {r}
  /\ handler' = [handler EXCEPT ![r] = "over"]
  /\ answer' = [answer EXCEPT ![r] = "remote"]
  /\ UNCHANGED <<routeVars, input, marked, got, queued, chan, rx, thread, made, result, super,
                 outcome, cancel, cause, inflight>>

AgentRequestEnds(r) ==
  /\ r \in remote
  /\ remote' = remote \ {r}
  /\ UNCHANGED <<routeVars, input, route, handler, answer, marked, got, queued, chan, rx, thread,
                 made, result, super, outcome, cancel, cause, inflight>>

-----------------------------------------------------------------------------
(* The extraction thread: run_extraction over ChannelWriter, then          *)
(* finish_producer.                                                        *)

threadRest == <<routeVars, input, route, handler, answer, marked, got, queued, rx, super,
                outcome, cancel, cause, remote>>

ThreadStarts(r) ==
  /\ thread[r] = "spawned"
  /\ thread' = [thread EXCEPT ![r] = "scanning"]
  /\ inflight' = inflight + 1
  /\ UNCHANGED <<threadRest, chan, made, result>>

(* The next 64 KiB, or what a periodic flush pushes out.                   *)
ChunkReady(r) ==
  /\ thread[r] = "scanning" /\ ~cancel[r] /\ made[r] < MaxFrames
  /\ thread' = [thread EXCEPT ![r] = "sending"]
  /\ UNCHANGED <<threadRest, chan, made, result, inflight>>

(* How fetch returns.  It sees a cancelled token between packets and then  *)
(* returns success with what it has; errors that mean "nothing found" come *)
(* only before the first chunk.                                            *)
FetchEnds(r, end) ==
  /\ thread[r] = "scanning"
  /\ IF cancel[r] THEN end = "cancelled"
     ELSE \/ end = "complete" /\ made[r] > 0
          \/ end \in {"truncated", "io"}
          \/ end \in {"no-match", "no-candidate-files", "format"} /\ made[r] = 0
  /\ thread' = [thread EXCEPT ![r] = "finishing"]
  /\ result' = [result EXCEPT ![r] = end]
  /\ UNCHANGED <<threadRest, chan, made, inflight>>

(* A read of the spool that does not return, and perhaps later does.       *)
ReadHangs(r) ==
  /\ thread[r] = "scanning"
  /\ thread' = [thread EXCEPT ![r] = "stuck"]
  /\ UNCHANGED <<threadRest, chan, made, result, inflight>>

ReadReturns(r) ==
  /\ thread[r] = "stuck"
  /\ thread' = [thread EXCEPT ![r] = "scanning"]
  /\ UNCHANGED <<threadRest, chan, made, result, inflight>>

(* send_frame: why a frame cannot be handed over.                          *)
SendFault(r, kind) ==
  \/ ~rx[r] /\ kind = "broken"
  \/ rx[r] /\ Len(chan[r]) >= Capacity /\ cancel[r] /\ kind = "broken"
  \/ rx[r] /\ Len(chan[r]) >= Capacity /\ ~cancel[r] /\ kind = "stalled"

SendData(r) ==
  /\ thread[r] = "sending" /\ rx[r] /\ Len(chan[r]) < Capacity
  /\ chan' = [chan EXCEPT ![r] = Append(@, "data")]
  /\ made' = [made EXCEPT ![r] = @ + 1]
  /\ thread' = [thread EXCEPT ![r] = "scanning"]
  /\ UNCHANGED <<threadRest, result, inflight>>

SendDataFails(r) ==
  /\ thread[r] = "sending"
  /\ \E kind \in Pipe : SendFault(r, kind) /\ result' = [result EXCEPT ![r] = kind]
  /\ thread' = [thread EXCEPT ![r] = "finishing"]
  /\ UNCHANGED <<threadRest, chan, made, inflight>>

ThreadEnds(r) ==
  /\ thread' = [thread EXCEPT ![r] = "ended"]
  /\ inflight' = inflight - 1

(* finish_producer: a client-caused error ships no terminal frame.         *)
FinishClientGone(r) ==
  /\ thread[r] = "finishing" /\ result[r] \in Pipe
  /\ ThreadEnds(r)
  /\ UNCHANGED <<threadRest, chan, made, result>>

SendDone(r) ==
  /\ thread[r] = "finishing" /\ result[r] \notin Pipe
  /\ rx[r] /\ Len(chan[r]) < Capacity
  /\ chan' = [chan EXCEPT ![r] = Append(@, "done")]
  /\ ThreadEnds(r)
  /\ UNCHANGED <<threadRest, made, result>>

(* A success whose terminal frame cannot be delivered is downgraded.       *)
SendDoneFails(r) ==
  /\ thread[r] = "finishing" /\ result[r] \notin Pipe
  /\ \E kind \in Pipe :
       /\ SendFault(r, kind)
       /\ result' = [result EXCEPT ![r] = IF @ \in Ok THEN kind ELSE @]
  /\ ThreadEnds(r)
  /\ UNCHANGED <<threadRest, chan, made>>

(* A panic unwinds the closure: no terminal frame, the guard still counts. *)
ThreadPanics(r) ==
  /\ thread[r] = "scanning"
  /\ result' = [result EXCEPT ![r] = "panic"]
  /\ ThreadEnds(r)
  /\ UNCHANGED <<threadRest, chan, made>>

-----------------------------------------------------------------------------
(* The supervisor: await_outcome, the audit line and the permits.          *)

superRest == <<routeVars, input, route, handler, answer, marked, got, queued, chan, rx, thread,
               made, result, cancel, cause, remote, inflight>>

Logged(r) ==
  IF result[r] = "panic" THEN "join-error"
  ELSE IF cause[r] = "timeout" THEN "timeout"
  ELSE IF result[r] \notin Ok THEN result[r]
  ELSE IF cancel[r] \/ cause[r] = "client" THEN "aborted"
  ELSE "ok"

(* Variant: the permits live in the request, not in the supervisor.        *)
JoinedAtAnswer(r) ==
  /\ Holds(r) /\ (thread[r] = "ended" \/ handler[r] \in {"gone", "over"})
  /\ super' = [super EXCEPT ![r] = "over"]
  /\ outcome' = [outcome EXCEPT ![r] = Logged(r)]
  /\ UNCHANGED superRest

Joined(r) ==
  /\ Holds(r) /\ thread[r] = "ended"
  /\ super' = [super EXCEPT ![r] = "over"]
  /\ outcome' = [outcome EXCEPT ![r] = Logged(r)]
  /\ UNCHANGED superRest

SeesCancel(r) ==
  /\ super[r] = "watching" /\ cancel[r]
  /\ super' = [super EXCEPT ![r] = "grace"]
  /\ UNCHANGED <<superRest, outcome>>

GivesUp(r) ==
  /\ super' = [super EXCEPT ![r] = "over"]
  /\ outcome' = [outcome EXCEPT ![r] = "wedged"]
  /\ UNCHANGED superRest

GraceExpires(r) == super[r] = "grace" /\ thread[r] # "ended" /\ GivesUp(r)

(* Variant: the watchdog only watches a request nobody has answered yet.   *)
IdleExpiresEarly(r) ==
  /\ super[r] = "watching" /\ thread[r] \in {"spawned", "stuck"} /\ handler[r] = "waiting"
  /\ GivesUp(r)

(* No frame for the whole idle bound.  A scanning thread is stopped by the *)
(* engine's deadline and a sending one by the stall timeout, both shorter; *)
(* what is left is a thread in a read that does not return, or one the     *)
(* blocking pool has not started.                                          *)
IdleExpires(r) ==
  /\ super[r] = "watching" /\ thread[r] \in {"spawned", "stuck"}
  /\ GivesUp(r)

-----------------------------------------------------------------------------
(* The handler before the response, then the body.                         *)

clientRest == <<routeVars, input, route, thread, made, result, super, outcome, remote, inflight>>

(* The guard's drop, or the first-frame deadline: the first cause stays.   *)
Cancels(r, why) ==
  /\ cancel' = [cancel EXCEPT ![r] = TRUE]
  /\ cause' = [cause EXCEPT ![r] = IF @ = "none" THEN why ELSE @]

Responds(r, code, truncatedHeader) ==
  /\ handler' = [handler EXCEPT ![r] = "over"]
  /\ answer' = [answer EXCEPT ![r] = code]
  /\ marked' = [marked EXCEPT ![r] = truncatedHeader]
  /\ rx' = [rx EXCEPT ![r] = FALSE]

FirstFrameTimeout(r) ==
  /\ handler[r] = "waiting" /\ chan[r] = <<>>
  /\ Responds(r, "timeout", FALSE)
  /\ Cancels(r, "timeout")
  /\ UNCHANGED <<clientRest, got, queued, chan>>

(* The channel closed without a terminal frame.                            *)
ProducerDied(r) ==
  /\ handler[r] = "waiting" /\ chan[r] = <<>> /\ thread[r] = "ended"
  /\ Responds(r, "internal", FALSE)
  /\ UNCHANGED <<clientRest, got, queued, chan, cancel, cause>>

(* empty_response: nothing was written before the end.  A native download  *)
(* becomes an empty capture unless the extraction failed.                  *)
EmptyResponse(r) ==
  CASE result[r] \in Faults -> <<result[r], FALSE>>
    [] result[r] \notin Faults /\ input[r].native -> <<"empty", FALSE>>
    [] result[r] \in Ok /\ ~input[r].native -> <<"empty", result[r] = "truncated">>
    [] OTHER -> <<result[r], FALSE>>

FirstIsDone(r) ==
  /\ handler[r] = "waiting" /\ chan[r] # <<>> /\ Head(chan[r]) = "done"
  /\ Responds(r, EmptyResponse(r)[1], EmptyResponse(r)[2])
  /\ chan' = [chan EXCEPT ![r] = <<>>]
  /\ UNCHANGED <<clientRest, got, queued, cancel, cause>>

FirstIsData(r) == handler[r] = "waiting" /\ chan[r] # <<>> /\ Head(chan[r]) = "data"

(* The terminal frame is right behind the only chunk: the outcome is known *)
(* before the headers are sent.                                            *)
OneChunk(r) ==
  /\ FirstIsData(r) /\ Len(chan[r]) > 1 /\ chan[r][2] = "done"
  /\ IF result[r] \in Faults
     THEN Responds(r, result[r], FALSE) /\ UNCHANGED got
     ELSE Responds(r, "clean", result[r] = "truncated") /\ got' = [got EXCEPT ![r] = 1]
  /\ chan' = [chan EXCEPT ![r] = <<>>]
  /\ UNCHANGED <<clientRest, queued, cancel, cause>>

StreamStarts(r) ==
  /\ FirstIsData(r)
  /\ \/ Len(chan[r]) = 1 /\ queued' = [queued EXCEPT ![r] = 1]
     \/ Len(chan[r]) > 1 /\ chan[r][2] = "data" /\ queued' = [queued EXCEPT ![r] = 2]
  /\ chan' = [chan EXCEPT ![r] = SubSeq(@, queued'[r] + 1, Len(@))]
  /\ handler' = [handler EXCEPT ![r] = "reading"]
  /\ UNCHANGED <<clientRest, answer, marked, got, rx, cancel, cause>>

(* body_stream.  Data first: what was queued, then what the channel has.   *)
BodyData(r) ==
  /\ handler[r] = "reading"
  /\ \/ queued[r] > 0 /\ queued' = [queued EXCEPT ![r] = @ - 1] /\ UNCHANGED chan
     \/ /\ queued[r] = 0 /\ chan[r] # <<>> /\ Head(chan[r]) = "data"
        /\ chan' = [chan EXCEPT ![r] = Tail(@)] /\ UNCHANGED queued
  /\ got' = [got EXCEPT ![r] = @ + 1]
  /\ UNCHANGED <<clientRest, handler, answer, marked, rx, cancel, cause>>

(* A failure ends the body with an error, which buffer_post_body turns     *)
(* into a status and hyper into a broken transfer.                         *)
BodyDone(r) ==
  /\ handler[r] = "reading" /\ queued[r] = 0 /\ chan[r] # <<>> /\ Head(chan[r]) = "done"
  /\ IF result[r] \in Faults THEN Responds(r, "torn", FALSE)
     ELSE Responds(r, "clean", result[r] = "truncated" /\ ~input[r].native)
  /\ chan' = [chan EXCEPT ![r] = <<>>]
  /\ UNCHANGED <<clientRest, got, queued, cancel, cause>>

(* Variant: a channel that just closes is taken for the end of the data.   *)
BodyClosedClean(r) ==
  /\ handler[r] = "reading" /\ queued[r] = 0 /\ chan[r] = <<>> /\ thread[r] = "ended"
  /\ Responds(r, "clean", FALSE)
  /\ UNCHANGED <<clientRest, got, queued, chan, cancel, cause>>

BodyClosed(r) ==
  /\ handler[r] = "reading" /\ queued[r] = 0 /\ chan[r] = <<>> /\ thread[r] = "ended"
  /\ Responds(r, "torn", FALSE)
  /\ UNCHANGED <<clientRest, got, queued, chan, cancel, cause>>

(* The client goes away: the request future, or the body, is dropped.      *)
ClientLeaves(r) ==
  /\ handler[r] \in {"waiting", "reading"}
  /\ handler' = [handler EXCEPT ![r] = "gone"]
  /\ rx' = [rx EXCEPT ![r] = FALSE]
  /\ chan' = [chan EXCEPT ![r] = <<>>]
  /\ Cancels(r, "client")
  /\ UNCHANGED <<clientRest, answer, marked, got, queued>>

-----------------------------------------------------------------------------
Arrives(r) ==
  \/ RefuseEarly(r) \/ RefuseRequest(r) \/ RefuseSize(r) \/ RefuseRoute(r) \/ Validated(r)
  \/ RefuseBusy(r) \/ StartLocal(r) \/ StartAgent(r) \/ AgentRequestEnds(r)

Ends == Ok \cup Faults \cup {"no-match", "no-candidate-files"}

ThreadSteps(r) ==
  \/ ThreadStarts(r) \/ ChunkReady(r) \/ \E end \in Ends : FetchEnds(r, end)
  \/ SendData(r) \/ SendDataFails(r) \/ FinishClientGone(r) \/ SendDone(r) \/ SendDoneFails(r)

ThreadFaults(r) == ReadHangs(r) \/ ReadReturns(r) \/ ThreadPanics(r)

SupervisorSteps(r) == Joined(r) \/ SeesCancel(r) \/ GraceExpires(r) \/ IdleExpires(r)

HandlerSteps(r) ==
  \/ FirstFrameTimeout(r) \/ ProducerDied(r) \/ FirstIsDone(r) \/ OneChunk(r) \/ StreamStarts(r)

BodySteps(r) == BodyData(r) \/ BodyDone(r) \/ BodyClosed(r) \/ ClientLeaves(r)

RequestNext(r) ==
  \/ Arrives(r) \/ ThreadSteps(r) \/ ThreadFaults(r) \/ SupervisorSteps(r)
  \/ HandlerSteps(r) \/ BodySteps(r)

LocalNext == (\E r \in Requests : RequestNext(r)) \/ (RoutingNext /\ UNCHANGED serveVars)

(* The runtime runs the supervisor, and a thread that is not stuck makes   *)
(* progress.  The idle clock runs on while reads hang and return, so the   *)
(* supervisor acts although its timer is not enabled throughout.  The      *)
(* client and the handler owe nothing.                                     *)
LocalFairness ==
  \A r \in Requests : SF_localVars(SupervisorSteps(r)) /\ WF_localVars(ThreadSteps(r))

LocalSpec == LocalInit /\ [][LocalNext]_localVars /\ LocalFairness

-----------------------------------------------------------------------------
LocalTypeOK ==
  /\ got \in [Requests -> 0 .. MaxFrames] /\ made \in [Requests -> 0 .. MaxFrames]
  /\ chan \in [Requests -> Seq({"data", "done"})]
  /\ inflight \in 0 .. Cardinality(Requests)
  /\ remote \subseteq Requests

(* A response that ends cleanly carries everything the extraction wrote,   *)
(* and the extraction ran to its end or to a limit: an abandoned, failed   *)
(* or cancelled one never looks complete, although fetch itself returns    *)
(* success when it is cancelled.  A limit is announced in the headers of   *)
(* every response whose headers could still be changed.                    *)
CleanIsWhole ==
  \A r \in Requests : answer[r] = "clean" =>
    /\ result[r] \in {"complete", "truncated"} /\ thread[r] = "ended"
    /\ got[r] = made[r]
    /\ marked[r] => result[r] = "truncated"
    /\ result[r] = "truncated" /\ ~input[r].native => marked[r]

(* The local spool is read by one extraction at a time, except for threads *)
(* the supervisor has reported as wedged, and each permit is with exactly  *)
(* one request: no abort, timeout or panic loses one or frees one early.   *)
OneLocalExtraction ==
  /\ Cardinality({r \in Requests : thread[r] \notin {"none", "ended"} /\ outcome[r] # "wedged"}) <= 1
  /\ Cardinality(Holders) <= MaxConcurrent
  /\ \A r \in Requests : super[r] = "over" /\ outcome[r] # "wedged" => thread[r] = "ended"

(* "Stamped events whose agent is gone are never quietly served from the   *)
(* local spool": unless the request or the operator's table names another  *)
(* source, only the sensor's own agent or the one that imported the event. *)
StampedStaysHome ==
  \A r \in Requests :
    LET event == input[r].event
    IN  (route[r].to # None /\ event.stamp # None /\ input[r].source = None
           /\ route[r].table = EmptyTable) => route[r].to \in {event.identity, event.stamp}

(* Whatever the client and the spool do, a request's permits come back.    *)
SlotsComeBack == \A r \in Requests : Holds(r) ~> ~Holds(r)

=============================================================================
