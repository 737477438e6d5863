--------------------------- MODULE LocalPcapProofs ---------------------------
(* The two copies of the routing table, for any number of operators saving *)
(* tables and any number of capture requests beside them.                  *)
EXTENDS LocalPcap, FiniteSetTheorems, TLAPS

Saver == [pc : SaverPcs, table : Tables]

(* At the start the live table is the stored one and nobody saves.         *)
LEMMA RoutingInitInv == RoutingInit => RoutingInv
<1> SUFFICES ASSUME RoutingInit PROVE RoutingInv
  OBVIOUS
<1> DEFINE idle == [pc |-> "idle", table |-> EmptyTable]
<1>1. idle \in Saver
  BY RoutingAssumption DEF Saver, SaverPcs
<1>2. saver = [s \in Savers |-> idle] /\ live = stored /\ unsettled = FALSE
  BY DEF RoutingInit
<1>3. idle.pc = "idle"
  OBVIOUS
<1> HIDE DEF idle
<1>4. \A s \in Savers : saver[s].pc = "idle"
  BY <1>2, <1>3
<1>5. RoutingTypeOK
  BY <1>1, <1>2 DEF RoutingTypeOK, Saver
<1> QED
  BY <1>2, <1>4, <1>5 DEF RoutingInv, SaveHoldsLock, WrittenIsStored, SettledAgrees

(* A step of one save that only moves its control point.                   *)
LEMMA SaverMoves ==
  ASSUME NEW s \in Savers, NEW label \in SaverPcs, RoutingTypeOK,
         saver' = [saver EXCEPT ![s].pc = label]
  PROVE  /\ saver' \in [Savers -> Saver]
         /\ \A t \in Savers : /\ saver'[t].table = saver[t].table
                             /\ saver'[t].pc = IF t = s THEN label ELSE saver[t].pc
<1>1. \A t \in Savers : saver[t] \in Saver
  BY DEF RoutingTypeOK, Saver
<1>2. [saver[s] EXCEPT !.pc = label] \in Saver
  BY <1>1 DEF Saver
<1>3. saver' = [saver EXCEPT ![s] = [saver[s] EXCEPT !.pc = label]]
  OBVIOUS
<1>4. \A t \in Savers : saver'[t] = IF t = s THEN [saver[s] EXCEPT !.pc = label] ELSE saver[t]
  BY <1>3 DEF RoutingTypeOK
<1>5. saver' \in [Savers -> Saver]
  BY <1>1, <1>2, <1>3 DEF RoutingTypeOK, Saver
<1>6. /\ [saver[s] EXCEPT !.pc = label].pc = label
      /\ [saver[s] EXCEPT !.pc = label].table = saver[s].table
  BY <1>1 DEF Saver
<1> QED
  BY <1>4, <1>5, <1>6

(* Every step of a save, of a restart and of an agent keeps the invariant. *)
LEMMA RoutingStepInv == RoutingInv /\ [RoutingNext]_routeVars => RoutingInv'
<1> SUFFICES ASSUME RoutingInv, [RoutingNext]_routeVars PROVE RoutingInv'
  OBVIOUS
<1>a. RoutingTypeOK
  BY DEF RoutingInv
<1> DEFINE Keeps == SaveHoldsLock' /\ WrittenIsStored' /\ SettledAgrees'
<1>b. ASSUME saver' \in [Savers -> Saver], unsettled' \in BOOLEAN, Keeps PROVE RoutingInv'
  BY <1>b DEF RoutingInv, RoutingTypeOK, Saver
<1>c. unsettled \in BOOLEAN
  BY <1>a DEF RoutingTypeOK
<1> USE DEF RoutingInv, SaveHoldsLock, WrittenIsStored, SettledAgrees
<1>1. ASSUME NEW s \in Savers, NEW table \in Tables, PostRouting(s, table) PROVE RoutingInv'
  <2> DEFINE label == IF Valid(table) THEN "locking" ELSE "refused"
             post  == [pc |-> label, table |-> table]
  <2>1. post \in Saver /\ post.pc \notin {"writing", "written"}
    BY DEF Saver, SaverPcs
  <2>2. saver' = [saver EXCEPT ![s] = post] /\ UNCHANGED <<live, stored, lock, unsettled>>
        /\ saver[s].pc = "idle"
    BY <1>1 DEF PostRouting
  <2> HIDE DEF post
  <2>3. \A t \in Savers : saver'[t] = IF t = s THEN post ELSE saver[t]
    BY <2>2, <1>a DEF RoutingTypeOK
  <2>4. saver' \in [Savers -> Saver]
    BY <2>1, <2>2, <1>a DEF RoutingTypeOK, Saver
  <2>5. Keeps
    BY <2>1, <2>2, <2>3
  <2> QED
    BY <2>2, <2>4, <2>5, <1>b, <1>c
<1>2. ASSUME NEW s \in Savers, TakeSaveLock(s) PROVE RoutingInv'
  <2>1. saver' = [saver EXCEPT ![s].pc = "writing"] /\ UNCHANGED <<live, stored, unsettled>>
        /\ saver[s].pc = "locking" /\ lock = None /\ lock' = s
    BY <1>2 DEF TakeSaveLock
  <2>2. "writing" \in SaverPcs
    BY DEF SaverPcs
  <2>3. /\ saver' \in [Savers -> Saver]
        /\ \A t \in Savers : /\ saver'[t].table = saver[t].table
                            /\ saver'[t].pc = IF t = s THEN "writing" ELSE saver[t].pc
    BY <2>1, <2>2, <1>a, SaverMoves, ZenonT(60)
  <2>4. \A t \in Savers : saver[t].pc \notin {"writing", "written"}
    BY <2>1, RoutingAssumption
  <2>5. Keeps
    BY <2>1, <2>3, <2>4
  <2> QED
    BY <2>1, <2>3, <2>5, <1>b, <1>c
<1>3. ASSUME NEW s \in Savers, WriteRow(s) PROVE RoutingInv'
  <2>1. saver' = [saver EXCEPT ![s].pc = "written"] /\ UNCHANGED <<live, lock, unsettled>>
        /\ saver[s].pc = "writing" /\ stored' = saver[s].table
    BY <1>3 DEF WriteRow
  <2>2. "written" \in SaverPcs
    BY DEF SaverPcs
  <2>3. /\ saver' \in [Savers -> Saver]
        /\ \A t \in Savers : /\ saver'[t].table = saver[t].table
                            /\ saver'[t].pc = IF t = s THEN "written" ELSE saver[t].pc
    BY <2>1, <2>2, <1>a, SaverMoves, ZenonT(60)
  <2>4. \A t \in Savers : t # s => saver[t].pc \notin {"writing", "written"}
    BY <2>1
  <2>5. Keeps
    BY <2>1, <2>3, <2>4
  <2> QED
    BY <2>1, <2>3, <2>5, <1>b, <1>c
<1>4. ASSUME NEW s \in Savers, WriteFails(s) PROVE RoutingInv'
  <2>1. saver' = [saver EXCEPT ![s].pc = "failed"] /\ UNCHANGED <<live, stored, unsettled>>
        /\ saver[s].pc = "writing"
    BY <1>4 DEF WriteFails
  <2>2. "failed" \in SaverPcs
    BY DEF SaverPcs
  <2>3. /\ saver' \in [Savers -> Saver]
        /\ \A t \in Savers : /\ saver'[t].table = saver[t].table
                            /\ saver'[t].pc = IF t = s THEN "failed" ELSE saver[t].pc
    BY <2>1, <2>2, <1>a, SaverMoves, ZenonT(60)
  <2>4. \A t \in Savers : t # s => saver[t].pc \notin {"writing", "written"}
    BY <2>1
  <2>5. Keeps
    BY <2>1, <2>3, <2>4
  <2> QED
    BY <2>1, <2>3, <2>5, <1>b, <1>c
<1>5. ASSUME NEW s \in Savers, SetRouting(s) PROVE RoutingInv'
  <2>1. saver' = [saver EXCEPT ![s].pc = "saved"] /\ UNCHANGED stored
        /\ saver[s].pc = "written" /\ live' = saver[s].table /\ unsettled' = FALSE
    BY <1>5 DEF SetRouting
  <2>2. "saved" \in SaverPcs
    BY DEF SaverPcs
  <2>3. /\ saver' \in [Savers -> Saver]
        /\ \A t \in Savers : /\ saver'[t].table = saver[t].table
                            /\ saver'[t].pc = IF t = s THEN "saved" ELSE saver[t].pc
    BY <2>1, <2>2, <1>a, SaverMoves, ZenonT(60)
  <2>4. \A t \in Savers : t # s => saver[t].pc \notin {"writing", "written"}
    BY <2>1
  <2>5. Keeps
    BY <2>1, <2>3, <2>4
  <2> QED
    BY <2>1, <2>3, <2>5, <1>b
<1>6. ASSUME NEW s \in Savers, SaverDropped(s) PROVE RoutingInv'
  <2>1. saver' = [saver EXCEPT ![s].pc = "dropped"] /\ UNCHANGED <<live, stored>>
        /\ lock' = (IF lock = s THEN None ELSE lock)
        /\ unsettled' = (unsettled \/ saver[s].pc = "written")
    BY <1>6 DEF SaverDropped
  <2>2. "dropped" \in SaverPcs
    BY DEF SaverPcs
  <2>3. /\ saver' \in [Savers -> Saver]
        /\ \A t \in Savers : /\ saver'[t].table = saver[t].table
                            /\ saver'[t].pc = IF t = s THEN "dropped" ELSE saver[t].pc
    BY <2>1, <2>2, <1>a, SaverMoves
  <2>4. SaveHoldsLock' /\ WrittenIsStored'
    BY <2>1, <2>3
  <2>5. SettledAgrees'
    BY <2>1, <2>3
  <2> QED
    BY <2>1, <2>3, <2>4, <2>5, <1>b
<1>7. CASE Restart
  <2>1. \A s \in Savers : saver'[s] = IF saver[s].pc = "idle" THEN saver[s]
                                       ELSE [saver[s] EXCEPT !.pc = "dropped"]
    BY <1>7 DEF Restart
  <2>2. \A s \in Savers : saver'[s] \in Saver /\ saver'[s].pc \in {"idle", "dropped"}
    <3> SUFFICES ASSUME NEW s \in Savers
                 PROVE  saver'[s] \in Saver /\ saver'[s].pc \in {"idle", "dropped"}
      OBVIOUS
    <3>1. saver[s] \in Saver
      BY <1>a DEF RoutingTypeOK, Saver
    <3>2. [saver[s] EXCEPT !.pc = "dropped"] \in Saver
          /\ [saver[s] EXCEPT !.pc = "dropped"].pc = "dropped"
      BY <3>1 DEF Saver, SaverPcs
    <3> QED
      BY <2>1, <3>1, <3>2
  <2>3. saver' \in [Savers -> Saver]
    BY <2>2, <1>7 DEF Restart
  <2>4. Keeps
    BY <2>2, <1>7 DEF Restart
  <2> QED
    BY <2>3, <2>4, <1>7, <1>b DEF Restart
<1>8. ASSUME NEW n \in Names, AgentConnects(n) \/ AgentLeaves(n) PROVE RoutingInv'
  BY <1>8, <1>a DEF AgentConnects, AgentLeaves, RoutingTypeOK
<1>9. CASE UNCHANGED routeVars
  BY <1>9, <1>a DEF routeVars, RoutingTypeOK
<1> QED
  BY <1>1, <1>2, <1>3, <1>4, <1>5, <1>6, <1>7, <1>8, <1>9 DEF RoutingNext

(* The routing table in force is the one a restart would load whenever no  *)
(* save is under way and none was cut off after its row was written.       *)
THEOREM RoutingConsistent == RoutingSpec => []RoutingAgrees
<1>1. RoutingInv => RoutingAgrees
  BY DEF RoutingInv, SettledAgrees, RoutingAgrees
<1> QED
  BY <1>1, RoutingInitInv, RoutingStepInv, PTL DEF RoutingSpec

(* No step of a request touches the table or the agents it is routed by.   *)
LEMMA ServingKeepsRoutes == \A r \in Requests : RequestNext(r) => UNCHANGED routeVars
<1> SUFFICES ASSUME NEW r \in Requests, RequestNext(r) PROVE UNCHANGED routeVars
  OBVIOUS
<1> USE DEF routeVars
<1>1. CASE Arrives(r)
  BY <1>1 DEF Arrives, RefuseEarly, RefuseRequest, RefuseSize, RefuseRoute, Validated,
              RefuseBusy, StartLocal, StartAgent, AgentRequestEnds, Refuse
<1>2. CASE ThreadSteps(r)
  BY <1>2 DEF ThreadSteps, ThreadStarts, ChunkReady, FetchEnds, SendData, SendDataFails,
              SendFault, ThreadEnds, FinishClientGone, SendDone, SendDoneFails, threadRest
<1>3. CASE ThreadFaults(r)
  BY <1>3 DEF ThreadFaults, ReadHangs, ReadReturns, ThreadPanics, threadRest
<1>4. CASE SupervisorSteps(r)
  BY <1>4 DEF SupervisorSteps, Joined, Logged, SeesCancel, GraceExpires, GivesUp, IdleExpires,
              superRest
<1>5. CASE HandlerSteps(r)
  BY <1>5 DEF HandlerSteps, FirstFrameTimeout, ProducerDied, FirstIsDone, EmptyResponse,
              OneChunk, StreamStarts, Responds, Cancels, clientRest
<1>6. CASE BodySteps(r)
  BY <1>6 DEF BodySteps, BodyData, BodyDone, BodyClosed, ClientLeaves, Cancels, Responds,
              clientRest
<1> QED
  BY <1>1, <1>2, <1>3, <1>4, <1>5, <1>6 DEF RequestNext

(* The capture service implements the routing of its requests: what is     *)
(* proved of RoutingSpec holds while any number of requests are served.    *)
THEOREM LocalImplementsRouting == LocalSpec => RoutingSpec
<1>1. LocalInit => RoutingInit
  BY DEF LocalInit
<1>2. [LocalNext]_localVars => [RoutingNext]_routeVars
  BY ServingKeepsRoutes DEF LocalNext, localVars
<1> QED
  BY <1>1, <1>2, PTL DEF LocalSpec, RoutingSpec

(* The routing table agrees with its stored copy in the whole service.     *)
THEOREM LocalRoutingConsistent == LocalSpec => []RoutingAgrees
  BY LocalImplementsRouting, RoutingConsistent, PTL


-----------------------------------------------------------------------------
(* One request: the handler and its body, the thread, the supervisor.      *)

Serving(r) == handler[r] \in {"waiting", "reading"}

(* The data frames in the channel; only the last frame may be terminal.    *)
DataIn(c) == IF Len(c) > 0 /\ c[Len(c)] = "done" THEN Len(c) - 1 ELSE Len(c)

Whole(r) ==
  /\ result[r] \in {"complete", "truncated"} /\ thread[r] = "ended"
  /\ got[r] = made[r]
  /\ marked[r] => result[r] = "truncated"
  /\ result[r] = "truncated" /\ ~input[r].native => marked[r]

(* The client's end: no frame is lost or invented while it reads, and a    *)
(* request with a reader was not cancelled.                                *)
ClientInv(r) ==
  /\ rx[r] <=> Serving(r)
  /\ Serving(r) => ~cancel[r] /\ answer[r] = "none" /\ made[r] = got[r] + queued[r] + DataIn(chan[r])
  /\ handler[r] = "waiting" => got[r] = 0 /\ queued[r] = 0
  /\ handler[r] = "reading" => got[r] + queued[r] > 0
  /\ handler[r] = "idle" => /\ thread[r] = "none" /\ answer[r] = "none" /\ ~cancel[r]
                            /\ chan[r] = <<>> /\ made[r] = 0 /\ got[r] = 0 /\ queued[r] = 0
  /\ answer[r] = "clean" => handler[r] = "over" /\ Whole(r)

(* The thread: a terminal frame is its last act, and its result is fixed   *)
(* when it leaves the scan.                                                *)
ThreadInv(r) ==
  /\ \A k \in 1 .. Len(chan[r]) :
       chan[r][k] = "done" => k = Len(chan[r]) /\ thread[r] = "ended" /\ result[r] \in Ends
  /\ thread[r] \notin {"finishing", "ended"} => result[r] = "none"
  /\ thread[r] = "finishing" => result[r] \in Ends \union Pipe
  /\ result[r] \in {"no-match", "no-candidate-files"} => made[r] = 0
  /\ result[r] = "cancelled" => cancel[r]

(* The supervisor: it holds the permits until the thread ended, or until   *)
(* it has reported the thread as wedged.                                   *)
SuperInv(r) ==
  /\ super[r] = "none" => thread[r] = "none"
  /\ handler[r] = "idle" => super[r] = "none" /\ outcome[r] = "none"
  /\ Holds(r) => outcome[r] = "none" /\ handler[r] # "idle"
  /\ super[r] = "over" /\ outcome[r] # "wedged" => thread[r] = "ended"

Exclusive == \A i, j \in Requests : Holds(i) /\ Holds(j) => i = j

PermitsOK == IsFiniteSet(Holders) /\ Cardinality(Holders) <= MaxConcurrent

Active == {"scanning", "sending", "finishing", "stuck"}

(* The threads that PcapService.inflight counts.                           *)
Running == {r \in Requests : thread[r] \in Active}
InflightCounts == IsFiniteSet(Running) /\ inflight = Cardinality(Running)

HandlerPcs == {"idle", "waiting", "reading", "gone", "over"}
ThreadPcs  == {"none", "spawned", "ended"} \union Active
SuperPcs   == {"none", "watching", "grace", "over"}
Results    == Ends \union Pipe \union {"none", "panic"}
Frames     == {"data", "done"}

ServeTypes ==
  /\ input \in [Requests -> Inputs]
  /\ route = [r \in Requests |-> route[r]]
  /\ handler \in [Requests -> HandlerPcs]
  /\ answer = [r \in Requests |-> answer[r]]
  /\ marked \in [Requests -> BOOLEAN]
  /\ got \in [Requests -> Nat] /\ queued \in [Requests -> Nat] /\ made \in [Requests -> Nat]
  /\ chan \in [Requests -> Seq(Frames)]
  /\ rx \in [Requests -> BOOLEAN]
  /\ thread \in [Requests -> ThreadPcs]
  /\ result \in [Requests -> Results]
  /\ super \in [Requests -> SuperPcs]
  /\ outcome = [r \in Requests |-> outcome[r]]
  /\ cancel \in [Requests -> BOOLEAN]
  /\ cause = [r \in Requests |-> cause[r]]
  /\ remote \subseteq Requests

ServeInv ==
  /\ ServeTypes /\ Exclusive /\ PermitsOK /\ InflightCounts /\ StampedStaysHome
  /\ \A r \in Requests : ClientInv(r) /\ ThreadInv(r) /\ SuperInv(r)

-----------------------------------------------------------------------------
(* Steps that keep the permits, the count of threads or the routes.        *)

(* Permits stay where they are when no supervisor and no remote request    *)
(* moves.                                                                  *)
LEMMA SamePermits ==
  ASSUME ServeInv, UNCHANGED <<super, remote>>
  PROVE  Exclusive' /\ PermitsOK'
<1>1. Holders' = Holders
  BY DEF Holders, Holds
<1> QED
  BY <1>1 DEF ServeInv, Exclusive, PermitsOK, Holds

(* The count stays right when no thread starts or ends.                    *)
LEMMA SameCount ==
  ASSUME ServeInv, UNCHANGED <<thread, inflight>>
  PROVE  InflightCounts'
<1>1. Running' = Running
  BY DEF Running
<1> QED
  BY <1>1 DEF ServeInv, InflightCounts

(* Resolved routes are not looked at again.                                *)
LEMMA SameRoutes ==
  ASSUME ServeInv, UNCHANGED <<input, route>>
  PROVE  StampedStaysHome'
BY DEF ServeInv, StampedStaysHome

(* Nothing of the request i changes.                                       *)
Untouched(i) ==
  /\ handler'[i] = handler[i] /\ answer'[i] = answer[i] /\ marked'[i] = marked[i]
  /\ got'[i] = got[i] /\ queued'[i] = queued[i] /\ chan'[i] = chan[i] /\ rx'[i] = rx[i]
  /\ thread'[i] = thread[i] /\ made'[i] = made[i] /\ result'[i] = result[i]
  /\ super'[i] = super[i] /\ outcome'[i] = outcome[i] /\ cancel'[i] = cancel[i]

(* A step of one request leaves what is said of the others.                *)
LEMMA OneRequest ==
  ASSUME ServeInv, NEW r \in Requests, ServeTypes', UNCHANGED input,
         \A i \in Requests \ {r} : Untouched(i),
         ClientInv(r)', ThreadInv(r)', SuperInv(r)',
         Exclusive', PermitsOK', InflightCounts', StampedStaysHome'
  PROVE  ServeInv'
<1>1. ASSUME NEW i \in Requests, i # r PROVE ClientInv(i)' /\ ThreadInv(i)' /\ SuperInv(i)'
  <2>1. Untouched(i)
    BY <1>1
  <2>2. ClientInv(i) /\ ThreadInv(i) /\ SuperInv(i)
    BY DEF ServeInv
  <2>3. ClientInv(i)'
    BY <2>1, <2>2 DEF ClientInv, Serving, Whole, Untouched, DataIn
  <2>4. ThreadInv(i)'
    BY <2>1, <2>2 DEF ThreadInv, Untouched
  <2>5. SuperInv(i)'
    BY <2>1, <2>2 DEF SuperInv, Holds, Untouched
  <2> QED
    BY <2>3, <2>4, <2>5
<1>2. ASSUME NEW i \in Requests PROVE ClientInv(i)' /\ ThreadInv(i)' /\ SuperInv(i)'
  BY <1>1
<1> QED
  BY <1>2 DEF ServeInv

(* At the start no request is served, no permit taken and no thread        *)
(* running.                                                                *)
LEMMA ServeInitInv == LocalInit => ServeInv
<1> SUFFICES ASSUME LocalInit PROVE ServeInv
  OBVIOUS
<1>1. ServeTypes
  BY DEF LocalInit, ServeTypes, HandlerPcs, ThreadPcs, SuperPcs, Results, Frames, Active
<1>2. ASSUME NEW r \in Requests PROVE ClientInv(r) /\ ThreadInv(r) /\ SuperInv(r) /\ ~Holds(r)
  BY DEF LocalInit, ClientInv, ThreadInv, SuperInv, Serving, Holds
<1>3. Holders = {} /\ Running = {} /\ inflight = 0
  BY <1>2 DEF LocalInit, Holders, Running, Active
<1>4. PermitsOK /\ InflightCounts
  BY <1>3, FS_EmptySet, LocalAssumption DEF PermitsOK, InflightCounts
<1>5. Exclusive /\ StampedStaysHome
  BY <1>2 DEF Exclusive, StampedStaysHome, LocalInit
<1> QED
  BY <1>1, <1>2, <1>4, <1>5 DEF ServeInv

-----------------------------------------------------------------------------
(* A step of the extraction thread.                                        *)

(* The thread goes to t with the result x, having handed over m frames,    *)
(* and leaves c in the channel.                                            *)
LEMMA ThreadMove ==
  ASSUME ServeInv, NEW r \in Requests, NEW t \in ThreadPcs, NEW c \in Seq(Frames), NEW m \in Nat,
         NEW x \in Results, UNCHANGED threadRest,
         thread' = [thread EXCEPT ![r] = t], chan' = [chan EXCEPT ![r] = c],
         made' = [made EXCEPT ![r] = m], result' = [result EXCEPT ![r] = x],
         thread[r] \notin {"none", "ended"}, t # "none",
         Serving(r) => m = got[r] + queued[r] + DataIn(c),
         \A k \in 1 .. Len(c) : c[k] = "done" => k = Len(c) /\ t = "ended" /\ x \in Ends,
         t \notin {"finishing", "ended"} => x = "none",
         t = "finishing" => x \in Ends \union Pipe,
         x \in {"no-match", "no-candidate-files"} => m = 0,
         x = "cancelled" => cancel[r],
         \/ thread[r] \in Active /\ t \in Active /\ UNCHANGED inflight
         \/ thread[r] = "spawned" /\ t \in Active /\ inflight' = inflight + 1
         \/ thread[r] \in Active /\ t = "ended" /\ inflight' = inflight - 1
  PROVE  ServeInv'
<1>1. ServeTypes /\ ClientInv(r) /\ ThreadInv(r) /\ SuperInv(r)
  BY DEF ServeInv
<1>2. UNCHANGED <<input, route, handler, answer, marked, got, queued, rx, super, outcome, cancel, cause, remote>>
  BY DEF threadRest
<1>3. thread'[r] = t /\ chan'[r] = c /\ made'[r] = m /\ result'[r] = x
  BY <1>1 DEF ServeTypes
<1>4. ServeTypes'
  BY <1>1, <1>2 DEF ServeTypes
<1>5. ASSUME NEW i \in Requests \ {r} PROVE Untouched(i)
  BY <1>1, <1>2 DEF ServeTypes, Untouched
<1>6. ClientInv(r)'
  BY <1>1, <1>2, <1>3 DEF ClientInv, Serving, Whole
<1>7. ThreadInv(r)'
  BY <1>2, <1>3 DEF ThreadInv
<1>8. SuperInv(r)'
  BY <1>1, <1>2, <1>3 DEF SuperInv, Holds
<1>9. InflightCounts'
  <2>1. IsFiniteSet(Running) /\ inflight = Cardinality(Running) /\ Cardinality(Running) \in Nat
    BY FS_CardinalityType DEF ServeInv, InflightCounts
  <2>2. ASSUME NEW i \in Requests PROVE i \in Running' <=> IF i = r THEN t \in Active ELSE i \in Running
    BY <1>3, <1>5 DEF Running, Untouched
  <2>3. CASE thread[r] \in Active /\ t \in Active /\ UNCHANGED inflight
    <3>1. Running' = Running
      BY <2>2, <2>3 DEF Running
    <3> QED
      BY <2>1, <2>3, <3>1 DEF InflightCounts
  <2>4. CASE thread[r] = "spawned" /\ t \in Active /\ inflight' = inflight + 1
    <3>1. Running' = Running \union {r} /\ r \notin Running
      BY <2>2, <2>4 DEF Running, Active
    <3>2. IsFiniteSet(Running') /\ Cardinality(Running') = Cardinality(Running) + 1
      BY <2>1, <3>1, FS_AddElement
    <3> QED
      BY <2>1, <2>4, <3>2 DEF InflightCounts
  <2>5. CASE thread[r] \in Active /\ t = "ended" /\ inflight' = inflight - 1
    <3>1. Running' = Running \ {r} /\ r \in Running
      BY <2>2, <2>5 DEF Running, Active
    <3>2. IsFiniteSet(Running') /\ Cardinality(Running') = Cardinality(Running) - 1
      BY <2>1, <3>1, FS_RemoveElement
    <3> QED
      BY <2>1, <2>5, <3>2 DEF InflightCounts
  <2> QED
    BY <2>3, <2>4, <2>5
<1>10. Exclusive' /\ PermitsOK' /\ StampedStaysHome'
  BY <1>2, SamePermits, SameRoutes
<1> QED
  BY <1>2, <1>4, <1>5, <1>6, <1>7, <1>8, <1>9, <1>10, OneRequest

(* A thread that has not ended has only data in the channel.               *)
LEMMA ThreadNow ==
  ASSUME ServeInv, NEW r \in Requests
  PROVE  /\ ServeTypes /\ ClientInv(r) /\ ThreadInv(r) /\ SuperInv(r)
         /\ thread[r] \in ThreadPcs /\ chan[r] \in Seq(Frames) /\ made[r] \in Nat /\ got[r] \in Nat
         /\ queued[r] \in Nat /\ result[r] \in Results /\ Len(chan[r]) \in Nat
         /\ thread[r] # "ended" => /\ \A k \in 1 .. Len(chan[r]) : chan[r][k] # "done"
                                   /\ DataIn(chan[r]) = Len(chan[r])
         /\ Serving(r) => made[r] = got[r] + queued[r] + DataIn(chan[r])
<1>1. ServeTypes /\ ClientInv(r) /\ ThreadInv(r) /\ SuperInv(r)
  BY DEF ServeInv
<1>2. /\ thread[r] \in ThreadPcs /\ chan[r] \in Seq(Frames) /\ made[r] \in Nat /\ got[r] \in Nat
      /\ queued[r] \in Nat /\ result[r] \in Results
  BY <1>1 DEF ServeTypes
<1>3. Len(chan[r]) \in Nat
  BY <1>2
<1>4. ASSUME thread[r] # "ended"
      PROVE  (\A k \in 1 .. Len(chan[r]) : chan[r][k] # "done") /\ DataIn(chan[r]) = Len(chan[r])
  BY <1>1, <1>3, <1>4 DEF ThreadInv, DataIn
<1> QED
  BY <1>1, <1>2, <1>3, <1>4 DEF ClientInv

(* The thread moves between two points at which it has no result yet.      *)
NoOutput == UNCHANGED <<threadRest, chan, made, result>>

(* The thread goes on, and is counted from its start.                      *)
LEMMA ThreadGoes ==
  ASSUME ServeInv, NEW r \in Requests, NEW t \in ThreadPcs,
         t \in Active, t # "finishing",
         thread[r] \notin {"none", "ended"}, thread[r] # "finishing",
         thread' = [thread EXCEPT ![r] = t], NoOutput,
         \/ thread[r] \in Active /\ UNCHANGED inflight
         \/ thread[r] = "spawned" /\ inflight' = inflight + 1
  PROVE  ServeInv'
<1>1. /\ ServeTypes /\ ClientInv(r) /\ ThreadInv(r) /\ SuperInv(r)
      /\ thread[r] \in ThreadPcs /\ chan[r] \in Seq(Frames) /\ made[r] \in Nat /\ result[r] \in Results
      /\ \A k \in 1 .. Len(chan[r]) : chan[r][k] # "done"
      /\ Serving(r) => made[r] = got[r] + queued[r] + DataIn(chan[r])
  BY ThreadNow
<1>2. PICK c : c = chan[r]
  OBVIOUS
<1>3. PICK m : m = made[r]
  OBVIOUS
<1>4. PICK x : x = result[r]
  OBVIOUS
<1>5. /\ chan' = [chan EXCEPT ![r] = c] /\ made' = [made EXCEPT ![r] = m] /\ result' = [result EXCEPT ![r] = x]
  BY <1>1, <1>2, <1>3, <1>4 DEF ServeTypes, NoOutput
<1>6. x = "none" /\ t \notin {"none", "ended", "finishing"} /\ \A k \in 1 .. Len(c) : c[k] # "done"
  BY <1>1, <1>2, <1>4 DEF ThreadInv, Active
<1>7. /\ UNCHANGED threadRest /\ t \in Active /\ t \in ThreadPcs /\ t # "none"
      /\ c \in Seq(Frames) /\ m \in Nat /\ x \in Results
      /\ \A k \in 1 .. Len(c) : c[k] = "done" => k = Len(c) /\ t = "ended" /\ x \in Ends
      /\ t \notin {"finishing", "ended"} => x = "none"
      /\ t = "finishing" => x \in Ends \union Pipe
      /\ x \in {"no-match", "no-candidate-files"} => m = 0
      /\ x = "cancelled" => cancel[r]
      /\ Serving(r) => m = got[r] + queued[r] + DataIn(c)
  BY <1>1, <1>2, <1>3, <1>4, <1>6 DEF ThreadPcs, Active, NoOutput
<1>8. CASE thread[r] \in Active /\ UNCHANGED inflight
  BY <1>5, <1>7, <1>8, ThreadMove
<1>9. CASE thread[r] = "spawned" /\ inflight' = inflight + 1
  BY <1>5, <1>7, <1>9, ThreadMove
<1> QED
  BY <1>8, <1>9

(* A spawned thread starts and is counted.                                 *)
LEMMA ThreadStartsStep ==
  ASSUME ServeInv, NEW r \in Requests, ThreadStarts(r)
  PROVE  ServeInv'
BY ThreadGoes DEF ThreadStarts, Active, ThreadPcs, NoOutput

(* The scan produces a chunk, hangs in a read or returns from it.          *)
LEMMA ScanStep ==
  ASSUME ServeInv, NEW r \in Requests, ChunkReady(r) \/ ReadHangs(r) \/ ReadReturns(r)
  PROVE  ServeInv'
BY ThreadGoes DEF ChunkReady, ReadHangs, ReadReturns, Active, ThreadPcs, NoOutput

(* fetch returns, or a data frame cannot be handed over.                   *)
LEMMA ThreadFinishes ==
  ASSUME ServeInv, NEW r \in Requests, NEW x \in Ends \union Pipe,
         thread[r] \in {"scanning", "sending"}, thread' = [thread EXCEPT ![r] = "finishing"],
         result' = [result EXCEPT ![r] = x],
         x \in {"no-match", "no-candidate-files"} => made[r] = 0,
         x = "cancelled" => cancel[r],
         UNCHANGED <<threadRest, chan, made, inflight>>
  PROVE  ServeInv'
<1>1. /\ ServeTypes /\ chan[r] \in Seq(Frames) /\ made[r] \in Nat
      /\ \A k \in 1 .. Len(chan[r]) : chan[r][k] # "done"
      /\ Serving(r) => made[r] = got[r] + queued[r] + DataIn(chan[r])
  BY ThreadNow
<1>2. PICK c : c = chan[r]
  OBVIOUS
<1>3. PICK m : m = made[r]
  OBVIOUS
<1>4. chan' = [chan EXCEPT ![r] = c] /\ made' = [made EXCEPT ![r] = m]
  BY <1>1, <1>2, <1>3 DEF ServeTypes
<1>5. /\ c \in Seq(Frames) /\ m \in Nat /\ x \in Results /\ thread[r] \in Active /\ "finishing" \in Active
      /\ "finishing" \in ThreadPcs /\ \A k \in 1 .. Len(c) : c[k] # "done"
      /\ Serving(r) => m = got[r] + queued[r] + DataIn(c)
      /\ x \in {"no-match", "no-candidate-files"} => m = 0
  BY <1>1, <1>2, <1>3 DEF Results, ThreadPcs, Active
<1>6. UNCHANGED threadRest /\ UNCHANGED inflight
  OBVIOUS
<1> QED
  BY <1>4, <1>5, <1>6, ThreadMove

(* fetch returns; with success also when it was cancelled.                 *)
LEMMA FetchEndsStep ==
  ASSUME ServeInv, NEW r \in Requests, NEW end \in Ends, FetchEnds(r, end)
  PROVE  ServeInv'
<1>1. end = "cancelled" => cancel[r]
  BY DEF FetchEnds
<1>2. end \in {"no-match", "no-candidate-files"} => made[r] = 0
  BY DEF FetchEnds
<1> QED
  BY <1>1, <1>2, ThreadFinishes DEF FetchEnds

(* A chunk that cannot be sent ends the extraction.                        *)
LEMMA SendDataFailsStep ==
  ASSUME ServeInv, NEW r \in Requests, SendDataFails(r)
  PROVE  ServeInv'
<1>1. PICK kind \in Pipe : result' = [result EXCEPT ![r] = kind]
  BY DEF SendDataFails
<1>2. kind \notin {"no-match", "no-candidate-files", "cancelled"}
  BY DEF Pipe
<1> QED
  BY <1>1, <1>2, ThreadFinishes DEF SendDataFails

(* A chunk enters the channel while it has room and a reader.              *)
LEMMA SendDataStep ==
  ASSUME ServeInv, NEW r \in Requests, SendData(r)
  PROVE  ServeInv'
<1>1. /\ ServeTypes /\ chan[r] \in Seq(Frames) /\ made[r] \in Nat /\ Len(chan[r]) \in Nat
      /\ got[r] \in Nat /\ queued[r] \in Nat /\ result[r] \in Results /\ ThreadInv(r)
      /\ \A k \in 1 .. Len(chan[r]) : chan[r][k] # "done"
      /\ DataIn(chan[r]) = Len(chan[r])
      /\ Serving(r) => made[r] = got[r] + queued[r] + DataIn(chan[r])
  BY ThreadNow DEF SendData
<1>2. PICK c : c = Append(chan[r], "data")
  OBVIOUS
<1>3. PICK m : m = made[r] + 1
  OBVIOUS
<1>4. PICK x : x = result[r]
  OBVIOUS
<1>5. /\ chan' = [chan EXCEPT ![r] = c] /\ made' = [made EXCEPT ![r] = m] /\ result' = [result EXCEPT ![r] = x]
      /\ thread' = [thread EXCEPT ![r] = "scanning"] /\ thread[r] = "sending"
      /\ UNCHANGED threadRest /\ UNCHANGED inflight
  BY <1>1, <1>2, <1>3, <1>4 DEF SendData, ServeTypes
<1>6. c \in Seq(Frames) /\ Len(c) = Len(chan[r]) + 1 /\ m \in Nat /\ x = "none" /\ x \in Results
  BY <1>1, <1>2, <1>3, <1>4, <1>5 DEF Frames, ThreadInv
<1>7. \A k \in 1 .. Len(c) : c[k] # "done"
  BY <1>1, <1>2, <1>6
<1>8. DataIn(c) = Len(c)
  BY <1>1, <1>6, <1>7 DEF DataIn
<1>9. ASSUME Serving(r) PROVE m = got[r] + queued[r] + DataIn(c)
  <2>1. PICK n \in Nat : n = Len(chan[r])
    BY <1>1
  <2>2. made[r] = got[r] + queued[r] + n
    BY <1>1, <1>9, <2>1
  <2>3. DataIn(c) = n + 1
    BY <1>6, <1>8, <2>1
  <2>4. got[r] \in Nat /\ queued[r] \in Nat
    BY <1>1
  <2> QED
    BY <1>3, <2>1, <2>2, <2>3, <2>4
<1>10. "scanning" \in ThreadPcs /\ "scanning" \in Active /\ thread[r] \in Active
  BY <1>5 DEF ThreadPcs, Active
<1> QED
  BY <1>5, <1>6, <1>7, <1>9, <1>10, ThreadMove

(* The closure returns, with or without its terminal frame.                *)
LEMMA ThreadIsOver ==
  ASSUME ServeInv, NEW r \in Requests, NEW c \in {chan[r], Append(chan[r], "done")},
         NEW x \in Results, thread[r] \in {"scanning", "finishing"}, ThreadEnds(r),
         chan' = [chan EXCEPT ![r] = c], result' = [result EXCEPT ![r] = x],
         x \in {result[r], "panic", "broken", "stalled"},
         c # chan[r] => x \in Ends,
         UNCHANGED <<threadRest, made>>
  PROVE  ServeInv'
<1>1. /\ ServeTypes /\ chan[r] \in Seq(Frames) /\ made[r] \in Nat /\ Len(chan[r]) \in Nat
      /\ result[r] \in Results /\ ThreadInv(r)
      /\ \A k \in 1 .. Len(chan[r]) : chan[r][k] # "done"
      /\ DataIn(chan[r]) = Len(chan[r])
      /\ Serving(r) => made[r] = got[r] + queued[r] + DataIn(chan[r])
  BY ThreadNow
<1>2. PICK m : m = made[r]
  OBVIOUS
<1>3. /\ made' = [made EXCEPT ![r] = m] /\ m \in Nat /\ thread' = [thread EXCEPT ![r] = "ended"]
      /\ inflight' = inflight - 1 /\ UNCHANGED threadRest
  BY <1>1, <1>2 DEF ServeTypes, ThreadEnds
<1>4. /\ x \in {"no-match", "no-candidate-files"} => m = 0
      /\ x = "cancelled" => cancel[r]
  BY <1>1, <1>2 DEF ThreadInv
<1>5. c \in Seq(Frames) /\ DataIn(c) = DataIn(chan[r])
      /\ \A k \in 1 .. Len(c) : c[k] = "done" => k = Len(c) /\ x \in Ends
  <2>1. CASE c = chan[r]
    BY <1>1, <2>1
  <2>2. CASE c = Append(chan[r], "done") /\ c # chan[r]
    <3>1. c \in Seq(Frames) /\ Len(c) = Len(chan[r]) + 1 /\ c[Len(c)] = "done"
      BY <1>1, <2>2 DEF Frames
    <3>2. ASSUME NEW k \in 1 .. Len(c), c[k] = "done" PROVE k = Len(c)
      BY <1>1, <2>2, <3>1, <3>2
    <3>3. DataIn(c) = Len(c) - 1
      BY <1>1, <3>1 DEF DataIn
    <3> QED
      BY <1>1, <2>2, <3>1, <3>2, <3>3
  <2> QED
    BY <2>1, <2>2
<1>6. Serving(r) => m = got[r] + queued[r] + DataIn(c)
  BY <1>1, <1>2, <1>5
<1>7. "ended" \in ThreadPcs /\ thread[r] \in Active
  BY DEF ThreadPcs, Active
<1> QED
  BY <1>3, <1>4, <1>5, <1>6, <1>7, ThreadMove

(* The thread ends: its last frame is sent or not, or it panics.           *)
LEMMA FinishStep ==
  ASSUME ServeInv, NEW r \in Requests,
         FinishClientGone(r) \/ SendDone(r) \/ SendDoneFails(r) \/ ThreadPanics(r)
  PROVE  ServeInv'
<1>1. /\ ServeTypes /\ ThreadInv(r) /\ result[r] \in Results /\ chan[r] \in Seq(Frames)
  BY ThreadNow
<1>2. chan = [chan EXCEPT ![r] = chan[r]] /\ result = [result EXCEPT ![r] = result[r]]
  BY <1>1 DEF ServeTypes
<1>3. PICK c : c = chan[r]
  OBVIOUS
<1>4. PICK x : x = result[r]
  OBVIOUS
<1>5. CASE FinishClientGone(r)
  <2>1. chan' = [chan EXCEPT ![r] = c] /\ result' = [result EXCEPT ![r] = x]
    BY <1>2, <1>3, <1>4, <1>5 DEF FinishClientGone
  <2> QED
    BY <1>1, <1>3, <1>4, <1>5, <2>1, ThreadIsOver DEF FinishClientGone
<1>6. CASE SendDone(r)
  <2>1. PICK d : d = Append(chan[r], "done")
    OBVIOUS
  <2>2. chan' = [chan EXCEPT ![r] = d] /\ result' = [result EXCEPT ![r] = x]
    BY <1>2, <1>4, <1>6, <2>1 DEF SendDone
  <2>3. x \in Ends
    BY <1>1, <1>4, <1>6 DEF SendDone, ThreadInv
  <2> QED
    BY <1>1, <1>4, <1>6, <2>1, <2>2, <2>3, ThreadIsOver DEF SendDone
<1>7. CASE SendDoneFails(r)
  <2>1. PICK kind \in Pipe : result' = [result EXCEPT ![r] = IF @ \in Ok THEN kind ELSE @]
    BY <1>7 DEF SendDoneFails
  <2>2. PICK y : y = IF result[r] \in Ok THEN kind ELSE result[r]
    OBVIOUS
  <2>3. y \in Results /\ y \in {result[r], "panic", "broken", "stalled"} /\ result' = [result EXCEPT ![r] = y]
    BY <1>1, <2>1, <2>2 DEF Pipe, Results, ServeTypes
  <2>4. chan' = [chan EXCEPT ![r] = c]
    BY <1>2, <1>3, <1>7 DEF SendDoneFails
  <2> QED
    BY <1>3, <1>7, <2>3, <2>4, ThreadIsOver DEF SendDoneFails
<1>8. CASE ThreadPanics(r)
  <2>1. chan' = [chan EXCEPT ![r] = c]
    BY <1>2, <1>3, <1>8 DEF ThreadPanics
  <2> QED
    BY <1>3, <1>8, <2>1, ThreadIsOver DEF ThreadPanics, Results
<1> QED
  BY <1>5, <1>6, <1>7, <1>8

-----------------------------------------------------------------------------
(* A step of the supervisor.                                               *)

(* The supervisor ends a request only when its thread has ended or counts  *)
(* as wedged.                                                              *)
LEMMA SuperMove ==
  ASSUME ServeInv, NEW r \in Requests, NEW s \in SuperPcs, NEW o,
         super' = [super EXCEPT ![r] = s], outcome' = [outcome EXCEPT ![r] = o],
         UNCHANGED superRest, Holds(r),
         \/ s = "grace" /\ o = outcome[r]
         \/ s = "over" /\ (o # "wedged" => thread[r] = "ended")
  PROVE  ServeInv'
<1>1. ServeTypes /\ ClientInv(r) /\ ThreadInv(r) /\ SuperInv(r)
  BY DEF ServeInv
<1>2. UNCHANGED <<input, route, handler, answer, marked, got, queued, chan, rx, thread, made, result,
                  cancel, cause, remote, inflight>>
  BY DEF superRest
<1>3. super'[r] = s /\ outcome'[r] = o
  BY <1>1 DEF ServeTypes
<1>4. ServeTypes'
  BY <1>1, <1>2 DEF ServeTypes
<1>5. ASSUME NEW i \in Requests \ {r} PROVE Untouched(i)
  BY <1>1, <1>2 DEF ServeTypes, Untouched
<1>6. ClientInv(r)' /\ ThreadInv(r)'
  BY <1>1, <1>2 DEF ClientInv, ThreadInv, Serving, Whole
<1>7. SuperInv(r)'
  BY <1>1, <1>2, <1>3 DEF SuperInv, Holds
<1>8. ASSUME NEW i \in Requests, Holds(i)' PROVE Holds(i)
  BY <1>5, <1>8 DEF Holds, Untouched
<1>9. Exclusive'
  BY <1>8 DEF ServeInv, Exclusive
<1>10. PermitsOK'
  <2>1. Holders' \subseteq Holders
    BY <1>2, <1>8 DEF Holders
  <2>2. IsFiniteSet(Holders) /\ Cardinality(Holders) <= MaxConcurrent
    BY DEF ServeInv, PermitsOK
  <2>3. IsFiniteSet(Holders') /\ Cardinality(Holders') <= Cardinality(Holders)
    BY <2>1, <2>2, FS_Subset
  <2>4. Cardinality(Holders') \in Nat /\ Cardinality(Holders) \in Nat
    BY <2>2, <2>3, FS_CardinalityType
  <2> QED
    BY <2>2, <2>3, <2>4, LocalAssumption DEF PermitsOK
<1>11. InflightCounts' /\ StampedStaysHome'
  BY <1>2, SameCount, SameRoutes
<1> QED
  BY <1>2, <1>4, <1>5, <1>6, <1>7, <1>9, <1>10, <1>11, OneRequest

(* The supervisor's clocks, the grace period and the end.                  *)
LEMMA SupervisorStep ==
  ASSUME ServeInv, NEW r \in Requests, SupervisorSteps(r)
  PROVE  ServeInv'
<1>1. CASE Joined(r)
  <2>1. PICK o : o = Logged(r)
    OBVIOUS
  <2>2. /\ super' = [super EXCEPT ![r] = "over"] /\ outcome' = [outcome EXCEPT ![r] = o]
        /\ UNCHANGED superRest /\ Holds(r) /\ thread[r] = "ended" /\ "over" \in SuperPcs
    BY <1>1, <2>1 DEF Joined, SuperPcs
  <2> QED
    BY <2>2, SuperMove
<1>2. CASE SeesCancel(r)
  <2>1. PICK o : o = outcome[r]
    OBVIOUS
  <2>2. outcome = [outcome EXCEPT ![r] = outcome[r]]
    BY DEF ServeInv, ServeTypes
  <2>3. /\ super' = [super EXCEPT ![r] = "grace"] /\ outcome' = [outcome EXCEPT ![r] = o]
        /\ UNCHANGED superRest /\ Holds(r) /\ "grace" \in SuperPcs
    BY <1>2, <2>1, <2>2 DEF SeesCancel, SuperPcs, Holds
  <2> QED
    BY <2>1, <2>3, SuperMove
<1>3. CASE GraceExpires(r) \/ IdleExpires(r)
  <2>1. /\ super' = [super EXCEPT ![r] = "over"] /\ outcome' = [outcome EXCEPT ![r] = "wedged"]
        /\ UNCHANGED superRest /\ Holds(r) /\ "over" \in SuperPcs
    BY <1>3 DEF GraceExpires, IdleExpires, GivesUp, SuperPcs, Holds
  <2> QED
    BY <2>1, SuperMove
<1> QED
  BY <1>1, <1>2, <1>3 DEF SupervisorSteps

-----------------------------------------------------------------------------
(* A step of the handler or the body of a request that is served.          *)

(* A step of handler, body or client of one request, by what it may say    *)
(* and what it must know to say it.                                        *)
LEMMA ClientMove ==
  ASSUME ServeInv, NEW r \in Requests, NEW h \in HandlerPcs, NEW a, NEW mk \in BOOLEAN, NEW g \in Nat,
         NEW q \in Nat, NEW c \in Seq(Frames), NEW x \in BOOLEAN, NEW b \in BOOLEAN, NEW why,
         handler' = [handler EXCEPT ![r] = h], answer' = [answer EXCEPT ![r] = a],
         marked' = [marked EXCEPT ![r] = mk], got' = [got EXCEPT ![r] = g],
         queued' = [queued EXCEPT ![r] = q], chan' = [chan EXCEPT ![r] = c],
         rx' = [rx EXCEPT ![r] = x], cancel' = [cancel EXCEPT ![r] = b],
         cause' = [cause EXCEPT ![r] = why], UNCHANGED clientRest,
         h # "idle", h # "waiting", cancel[r] => b,
         x <=> h = "reading",
         h = "reading" => ~b /\ a = "none" /\ made[r] = g + q + DataIn(c) /\ g + q > 0,
         a = "clean" => /\ h = "over"
                        /\ result[r] \in {"complete", "truncated"} /\ thread[r] = "ended" /\ g = made[r]
                        /\ mk => result[r] = "truncated"
                        /\ result[r] = "truncated" /\ ~input[r].native => mk,
         \A k \in 1 .. Len(c) : c[k] = "done" => k = Len(c) /\ thread[r] = "ended" /\ result[r] \in Ends
  PROVE  ServeInv'
<1>1. ServeTypes /\ ClientInv(r) /\ ThreadInv(r) /\ SuperInv(r)
  BY DEF ServeInv
<1>2. UNCHANGED <<input, route, thread, made, result, super, outcome, remote, inflight>>
  BY DEF clientRest
<1>3. /\ handler'[r] = h /\ answer'[r] = a /\ marked'[r] = mk /\ got'[r] = g /\ queued'[r] = q
      /\ chan'[r] = c /\ rx'[r] = x /\ cancel'[r] = b
  BY <1>1 DEF ServeTypes
<1>4. ServeTypes'
  BY <1>1, <1>2 DEF ServeTypes
<1>5. ASSUME NEW i \in Requests \ {r} PROVE Untouched(i)
  BY <1>1, <1>2 DEF ServeTypes, Untouched
<1>6. ClientInv(r)'
  BY <1>2, <1>3 DEF ClientInv, Serving, Whole
<1>7. ThreadInv(r)'
  BY <1>1, <1>2, <1>3 DEF ThreadInv
<1>8. SuperInv(r)'
  BY <1>1, <1>2, <1>3 DEF SuperInv, Holds
<1>9. Exclusive' /\ PermitsOK' /\ InflightCounts' /\ StampedStaysHome'
  BY <1>2, SamePermits, SameCount, SameRoutes
<1> QED
  BY <1>2, <1>4, <1>5, <1>6, <1>7, <1>8, <1>9, OneRequest

(* The request is answered: the channel is empty and its receiver gone.    *)
LEMMA AnswerStep ==
  ASSUME ServeInv, NEW r \in Requests, NEW code, NEW hdr \in BOOLEAN, Responds(r, code, hdr),
         NEW g \in Nat, got' = [got EXCEPT ![r] = g],
         NEW q \in Nat, queued' = [queued EXCEPT ![r] = q],
         chan' = [chan EXCEPT ![r] = <<>>],
         NEW b \in BOOLEAN, cancel' = [cancel EXCEPT ![r] = b], cancel[r] => b,
         NEW why, cause' = [cause EXCEPT ![r] = why], UNCHANGED clientRest,
         code = "clean" => /\ result[r] \in {"complete", "truncated"} /\ thread[r] = "ended" /\ g = made[r]
                           /\ hdr => result[r] = "truncated"
                           /\ result[r] = "truncated" /\ ~input[r].native => hdr
  PROVE  ServeInv'
<1>1. /\ handler' = [handler EXCEPT ![r] = "over"] /\ answer' = [answer EXCEPT ![r] = code]
      /\ marked' = [marked EXCEPT ![r] = hdr] /\ rx' = [rx EXCEPT ![r] = FALSE]
  BY DEF Responds
<1>2. "over" \in HandlerPcs /\ <<>> \in Seq(Frames) /\ FALSE \in BOOLEAN /\ "over" # "reading"
  BY DEF HandlerPcs
<1>3. PICK e : e = <<>>
  OBVIOUS
<1>4. e \in Seq(Frames) /\ chan' = [chan EXCEPT ![r] = e] /\ \A k \in 1 .. Len(e) : FALSE
  BY <1>2, <1>3
<1> QED
  BY <1>1, <1>2, <1>4, ClientMove, ZenonT(60)

(* What a request that is served has in its channel.                       *)
LEMMA ClientNow ==
  ASSUME ServeInv, NEW r \in Requests, Serving(r)
  PROVE  /\ ServeTypes /\ ThreadInv(r)
         /\ chan[r] \in Seq(Frames) /\ Len(chan[r]) \in Nat /\ made[r] \in Nat /\ got[r] \in Nat
         /\ queued[r] \in Nat /\ result[r] \in Results /\ input[r].native \in BOOLEAN
         /\ made[r] = got[r] + queued[r] + DataIn(chan[r]) /\ ~cancel[r] /\ cancel[r] \in BOOLEAN
         /\ answer[r] = "none" /\ result[r] # "cancelled" /\ marked[r] \in BOOLEAN /\ rx[r] = TRUE
         /\ handler[r] = "waiting" => got[r] = 0 /\ queued[r] = 0
         /\ handler[r] = "reading" => got[r] + queued[r] > 0
         /\ \A k \in 1 .. Len(chan[r]) :
              chan[r][k] = "done" => k = Len(chan[r]) /\ thread[r] = "ended" /\ result[r] \in Ends
<1>1. ServeTypes /\ ClientInv(r) /\ ThreadInv(r)
  BY DEF ServeInv
<1>2. /\ chan[r] \in Seq(Frames) /\ made[r] \in Nat /\ got[r] \in Nat
      /\ queued[r] \in Nat /\ result[r] \in Results /\ input[r] \in Inputs /\ cancel[r] \in BOOLEAN
      /\ marked[r] \in BOOLEAN /\ rx[r] \in BOOLEAN
  BY <1>1 DEF ServeTypes
<1>3. Len(chan[r]) \in Nat /\ input[r].native \in BOOLEAN
  BY <1>2, LocalAssumption
<1>4. ~cancel[r] /\ answer[r] = "none" /\ made[r] = got[r] + queued[r] + DataIn(chan[r]) /\ rx[r] = TRUE
  BY <1>1, <1>2 DEF ClientInv
<1>5. result[r] # "cancelled"
  BY <1>1, <1>4 DEF ThreadInv
<1> QED
  BY <1>1, <1>2, <1>3, <1>4, <1>5 DEF ClientInv, ThreadInv

(* Without a first frame in time the request is cancelled and answered.    *)
LEMMA FirstFrameTimeoutStep ==
  ASSUME ServeInv, NEW r \in Requests, FirstFrameTimeout(r)
  PROVE  ServeInv'
<1>1. Serving(r) /\ chan[r] = <<>>
  BY DEF FirstFrameTimeout, Serving
<1>2. ServeTypes /\ got[r] \in Nat /\ queued[r] \in Nat
  BY <1>1, ClientNow
<1>3. PICK g : g = got[r]
  OBVIOUS
<1>4. PICK q : q = queued[r]
  OBVIOUS
<1>5. PICK why : why = IF cause[r] = "none" THEN "timeout" ELSE cause[r]
  OBVIOUS
<1>6. /\ got' = [got EXCEPT ![r] = g] /\ queued' = [queued EXCEPT ![r] = q] /\ chan' = [chan EXCEPT ![r] = <<>>]
      /\ g \in Nat /\ q \in Nat
  BY <1>1, <1>2, <1>3, <1>4 DEF FirstFrameTimeout, ServeTypes
<1>7. PICK b : b = TRUE
  OBVIOUS
<1>8. PICK code : code = "timeout"
  OBVIOUS
<1>9. PICK hdr : hdr = FALSE
  OBVIOUS
<1>10. /\ cancel' = [cancel EXCEPT ![r] = b] /\ cause' = [cause EXCEPT ![r] = why] /\ UNCHANGED clientRest
       /\ Responds(r, code, hdr) /\ b \in BOOLEAN /\ hdr \in BOOLEAN /\ (cancel[r] => b) /\ code # "clean"
  BY <1>2, <1>5, <1>7, <1>8, <1>9 DEF FirstFrameTimeout, Cancels, ServeTypes
<1> QED
  BY <1>6, <1>10, AnswerStep

(* An answer that neither cancels nor takes anything but the frames read.  *)
NoCancel == UNCHANGED <<clientRest, queued, cancel, cause>>

(* The request is answered without being cancelled.                        *)
LEMMA QuietAnswer ==
  ASSUME ServeInv, NEW r \in Requests, Serving(r), NEW code, NEW hdr \in BOOLEAN, Responds(r, code, hdr),
         NEW g \in Nat, got' = [got EXCEPT ![r] = g], chan' = [chan EXCEPT ![r] = <<>>],
         NoCancel,
         code = "clean" => /\ result[r] \in {"complete", "truncated"} /\ thread[r] = "ended" /\ g = made[r]
                           /\ hdr => result[r] = "truncated"
                           /\ result[r] = "truncated" /\ ~input[r].native => hdr
  PROVE  ServeInv'
<1>1. ServeTypes /\ queued[r] \in Nat /\ cancel[r] \in BOOLEAN
  BY ClientNow
<1>2. PICK q : q = queued[r]
  OBVIOUS
<1>3. PICK b : b = cancel[r]
  OBVIOUS
<1>4. PICK why : why = cause[r]
  OBVIOUS
<1>5. /\ queued' = [queued EXCEPT ![r] = q] /\ cancel' = [cancel EXCEPT ![r] = b]
      /\ cause' = [cause EXCEPT ![r] = why] /\ q \in Nat /\ b \in BOOLEAN /\ (cancel[r] => b)
  BY <1>1, <1>2, <1>3, <1>4 DEF ServeTypes, NoCancel
<1>6. UNCHANGED clientRest
  BY DEF NoCancel
<1> QED
  BY <1>5, <1>6, AnswerStep, ZenonT(60)

(* A channel that closes without a last frame is reported as a failure.    *)
LEMMA DiedStep ==
  ASSUME ServeInv, NEW r \in Requests, ProducerDied(r) \/ BodyClosed(r)
  PROVE  ServeInv'
<1>1. Serving(r) /\ chan[r] = <<>> /\ NoCancel
  BY DEF ProducerDied, BodyClosed, Serving, NoCancel
<1>2. PICK code : code = IF ProducerDied(r) THEN "internal" ELSE "torn"
  OBVIOUS
<1>3. PICK hdr : hdr = FALSE
  OBVIOUS
<1>4. Responds(r, code, hdr) /\ code # "clean" /\ hdr \in BOOLEAN
  <2>1. CASE ProducerDied(r)
    BY <1>2, <1>3, <2>1 DEF ProducerDied
  <2>2. CASE ~ProducerDied(r)
    BY <1>2, <1>3, <2>2 DEF BodyClosed
  <2> QED
    BY <2>1, <2>2
<1>5. ServeTypes /\ got[r] \in Nat
  BY <1>1, ClientNow
<1>6. PICK g : g = got[r]
  OBVIOUS
<1>7. got' = [got EXCEPT ![r] = g] /\ g \in Nat /\ chan' = [chan EXCEPT ![r] = <<>>]
  BY <1>1, <1>5, <1>6 DEF ProducerDied, BodyClosed, ServeTypes
<1> QED
  BY <1>1, <1>4, <1>7, QuietAnswer

(* The first frame is already the last: an answer without a body.          *)
LEMMA FirstIsDoneStep ==
  ASSUME ServeInv, NEW r \in Requests, FirstIsDone(r)
  PROVE  ServeInv'
<1>1. Serving(r) /\ NoCancel /\ chan' = [chan EXCEPT ![r] = <<>>]
  BY DEF FirstIsDone, Serving, NoCancel
<1>2. ServeTypes /\ got[r] \in Nat /\ result[r] \in Results
  BY <1>1, ClientNow
<1>3. PICK g : g = got[r]
  OBVIOUS
<1>4. got' = [got EXCEPT ![r] = g] /\ g \in Nat
  BY <1>2, <1>3 DEF FirstIsDone, ServeTypes
<1>5. PICK code : code = EmptyResponse(r)[1]
  OBVIOUS
<1>6. PICK hdr : hdr = EmptyResponse(r)[2]
  OBVIOUS
<1>7. code # "clean" /\ hdr \in BOOLEAN
  BY <1>2, <1>5, <1>6 DEF EmptyResponse, Results, Ends, Ok, Faults, Pipe
<1>8. Responds(r, code, hdr)
  BY <1>5, <1>6 DEF FirstIsDone
<1> QED
  BY <1>1, <1>4, <1>7, <1>8, QuietAnswer

(* Taking n data frames from the front of the channel.                     *)
LEMMA DropFrames ==
  ASSUME NEW c \in Seq(Frames), NEW n \in 1 .. Len(c), c[n] = "data",
         NEW d \in Seq(Frames), Len(d) = Len(c) - n, \A k \in 1 .. Len(d) : d[k] = c[k + n],
         NEW P, \A k \in 1 .. Len(c) : c[k] = "done" => k = Len(c) /\ P
  PROVE  /\ DataIn(c) = n + DataIn(d)
         /\ \A k \in 1 .. Len(d) : d[k] = "done" => k = Len(d) /\ P
<1>1. Len(c) \in Nat /\ Len(d) \in Nat /\ n \in Nat /\ n >= 1
  OBVIOUS
<1>2. ASSUME NEW k \in 1 .. Len(d), d[k] = "done" PROVE k = Len(d) /\ P
  <2>1. k + n \in 1 .. Len(c) /\ c[k + n] = "done"
    BY <1>1, <1>2
  <2>2. k + n = Len(c)
    BY <2>1
  <2>3. P
    BY <2>1
  <2>4. k = Len(d)
    BY <1>1, <1>2, <2>2
  <2> QED
    BY <2>3, <2>4
<1>3. CASE Len(d) = 0
  <2>1. n = Len(c)
    BY <1>1, <1>3
  <2>2. DataIn(c) = Len(c) /\ DataIn(d) = 0
    BY <1>3, <2>1 DEF DataIn
  <2> QED
    BY <1>1, <1>2, <2>1, <2>2
<1>4. CASE Len(d) > 0
  <2>1. Len(d) \in 1 .. Len(d) /\ Len(d) + n = Len(c) /\ Len(c) > 0
    BY <1>1, <1>4
  <2>2. d[Len(d)] = c[Len(c)]
    BY <2>1
  <2>3. DataIn(d) = IF c[Len(c)] = "done" THEN Len(d) - 1 ELSE Len(d)
    BY <1>4, <2>2 DEF DataIn
  <2>4. DataIn(c) = IF c[Len(c)] = "done" THEN Len(c) - 1 ELSE Len(c)
    BY <2>1 DEF DataIn
  <2>5. DataIn(c) = n + DataIn(d)
    BY <1>1, <2>1, <2>3, <2>4
  <2> QED
    BY <1>2, <2>5
<1> QED
  BY <1>1, <1>3, <1>4

(* The whole body is one chunk, and the answer knows how it ended.         *)
LEMMA OneChunkStep ==
  ASSUME ServeInv, NEW r \in Requests, OneChunk(r)
  PROVE  ServeInv'
<1>1. Serving(r) /\ NoCancel /\ chan' = [chan EXCEPT ![r] = <<>>] /\ handler[r] = "waiting"
  BY DEF OneChunk, FirstIsData, Serving, NoCancel
<1>2. /\ ServeTypes /\ ThreadInv(r) /\ chan[r] \in Seq(Frames) /\ Len(chan[r]) \in Nat
      /\ got[r] = 0 /\ queued[r] = 0 /\ made[r] = got[r] + queued[r] + DataIn(chan[r])
      /\ result[r] # "cancelled" /\ DOMAIN got = Requests
      /\ \A k \in 1 .. Len(chan[r]) :
           chan[r][k] = "done" => k = Len(chan[r]) /\ thread[r] = "ended" /\ result[r] \in Ends
  BY <1>1, ClientNow DEF ServeTypes
<1>3. Len(chan[r]) > 1 /\ chan[r][2] = "done"
  BY DEF OneChunk
<1>4. Len(chan[r]) = 2 /\ thread[r] = "ended" /\ result[r] \in Ends
  <2>1. 2 \in 1 .. Len(chan[r])
    BY <1>2, <1>3
  <2> QED
    BY <1>2, <1>3, <2>1
<1>5. made[r] = 1
  <2>1. DataIn(chan[r]) = 1
    BY <1>3, <1>4 DEF DataIn
  <2> QED
    BY <1>2, <2>1
<1>6. CASE result[r] \in Faults
  <2>1. PICK g : g = got[r]
    OBVIOUS
  <2>2. PICK code : code = result[r]
    OBVIOUS
  <2>3. PICK hdr : hdr = FALSE
    OBVIOUS
  <2>4. /\ got' = [got EXCEPT ![r] = g] /\ g \in Nat /\ Responds(r, code, hdr) /\ code # "clean"
        /\ hdr \in BOOLEAN
    BY <1>2, <1>6, <2>1, <2>2, <2>3 DEF OneChunk, Faults, ServeTypes
  <2> QED
    BY <1>1, <2>4, QuietAnswer
<1>7. CASE result[r] \notin Faults
  <2>1. PICK g : g = 1
    OBVIOUS
  <2>2. PICK hdr : hdr = (result[r] = "truncated")
    OBVIOUS
  <2>3. /\ got' = [got EXCEPT ![r] = g] /\ g \in Nat /\ Responds(r, "clean", hdr)
    BY <1>7, <2>1, <2>2 DEF OneChunk
  <2>4. result[r] \in {"complete", "truncated"}
    BY <1>2, <1>4, <1>5, <1>7 DEF Ends, Ok, ThreadInv
  <2>5. hdr \in BOOLEAN /\ (hdr <=> result[r] = "truncated") /\ g = made[r]
    BY <1>5, <2>1, <2>2
  <2> QED
    BY <1>1, <1>4, <2>3, <2>4, <2>5, QuietAnswer
<1> QED
  BY <1>6, <1>7

(* The last frame ends the body; cleanly only for a whole or marked one.   *)
LEMMA BodyDoneStep ==
  ASSUME ServeInv, NEW r \in Requests, BodyDone(r)
  PROVE  ServeInv'
<1>1. Serving(r) /\ NoCancel /\ chan' = [chan EXCEPT ![r] = <<>>] /\ handler[r] = "reading"
      /\ queued[r] = 0 /\ chan[r] # <<>> /\ Head(chan[r]) = "done"
  BY DEF BodyDone, Serving, NoCancel
<1>2. /\ ServeTypes /\ ThreadInv(r) /\ chan[r] \in Seq(Frames) /\ Len(chan[r]) \in Nat
      /\ got[r] \in Nat /\ got[r] + queued[r] > 0 /\ made[r] = got[r] + queued[r] + DataIn(chan[r])
      /\ result[r] # "cancelled" /\ input[r].native \in BOOLEAN
      /\ \A k \in 1 .. Len(chan[r]) :
           chan[r][k] = "done" => k = Len(chan[r]) /\ thread[r] = "ended" /\ result[r] \in Ends
  BY <1>1, ClientNow
<1>3. 1 \in 1 .. Len(chan[r]) /\ chan[r][1] = "done"
  BY <1>1, <1>2
<1>4. Len(chan[r]) = 1 /\ thread[r] = "ended" /\ result[r] \in Ends
  BY <1>2, <1>3
<1>5. made[r] = got[r] /\ made[r] > 0
  <2>1. DataIn(chan[r]) = 0
    BY <1>3, <1>4 DEF DataIn
  <2> QED
    BY <1>1, <1>2, <2>1
<1>6. PICK g : g = got[r]
  OBVIOUS
<1>7. got' = [got EXCEPT ![r] = g] /\ g \in Nat /\ g = made[r]
  BY <1>2, <1>5, <1>6 DEF BodyDone, ServeTypes
<1>8. CASE result[r] \in Faults
  <2>1. PICK code : code = "torn"
    OBVIOUS
  <2>2. PICK hdr : hdr = FALSE
    OBVIOUS
  <2>3. Responds(r, code, hdr) /\ code # "clean" /\ hdr \in BOOLEAN
    BY <1>8, <2>1, <2>2 DEF BodyDone
  <2> QED
    BY <1>1, <1>7, <2>3, QuietAnswer
<1>9. CASE result[r] \notin Faults
  <2>1. PICK hdr : hdr = (result[r] = "truncated" /\ ~input[r].native)
    OBVIOUS
  <2>2. Responds(r, "clean", hdr)
    BY <1>9, <2>1 DEF BodyDone
  <2>3. result[r] \in {"complete", "truncated"}
    BY <1>2, <1>4, <1>5, <1>9 DEF Ends, Ok, ThreadInv
  <2>4. hdr \in BOOLEAN /\ (hdr => result[r] = "truncated") /\ (result[r] = "truncated" /\ ~input[r].native => hdr)
    BY <1>2, <2>1
  <2> QED
    BY <1>1, <1>4, <1>7, <2>2, <2>3, <2>4, QuietAnswer
<1> QED
  BY <1>8, <1>9

(* The body is read on: g frames received, q taken ahead, c in the channel. *)
OnlyReads == UNCHANGED <<clientRest, answer, marked, rx, cancel, cause>>

(* The body takes frames from the channel, in order.                       *)
LEMMA ReadStep ==
  ASSUME ServeInv, NEW r \in Requests, Serving(r), OnlyReads,
         NEW g \in Nat, NEW q \in Nat, NEW c \in Seq(Frames),
         handler' = [handler EXCEPT ![r] = "reading"], got' = [got EXCEPT ![r] = g],
         queued' = [queued EXCEPT ![r] = q], chan' = [chan EXCEPT ![r] = c],
         made[r] = g + q + DataIn(c), g + q > 0,
         \A k \in 1 .. Len(c) : c[k] = "done" => k = Len(c) /\ thread[r] = "ended" /\ result[r] \in Ends
  PROVE  ServeInv'
<1>1. /\ ServeTypes /\ answer[r] = "none" /\ ~cancel[r] /\ cancel[r] \in BOOLEAN /\ marked[r] \in BOOLEAN
      /\ rx[r] = TRUE
  BY ClientNow
<1>2. PICK mk : mk = marked[r]
  OBVIOUS
<1>3. PICK b : b = cancel[r]
  OBVIOUS
<1>4. PICK why : why = cause[r]
  OBVIOUS
<1>5. PICK a : a = answer[r]
  OBVIOUS
<1>6. PICK x : x = rx[r]
  OBVIOUS
<1>7. PICK h : h = "reading"
  OBVIOUS
<1>8. /\ answer' = [answer EXCEPT ![r] = a] /\ marked' = [marked EXCEPT ![r] = mk]
      /\ rx' = [rx EXCEPT ![r] = x] /\ cancel' = [cancel EXCEPT ![r] = b] /\ cause' = [cause EXCEPT ![r] = why]
      /\ handler' = [handler EXCEPT ![r] = h] /\ UNCHANGED clientRest
  BY <1>1, <1>2, <1>3, <1>4, <1>5, <1>6, <1>7 DEF OnlyReads, ServeTypes
<1>9. /\ mk \in BOOLEAN /\ b \in BOOLEAN /\ x \in BOOLEAN /\ (x <=> h = "reading") /\ ~b /\ ~cancel[r]
      /\ a = "none" /\ h \in HandlerPcs /\ h # "idle" /\ h # "waiting" /\ a # "clean"
  BY <1>1, <1>2, <1>3, <1>5, <1>6, <1>7 DEF HandlerPcs
<1> QED
  BY <1>8, <1>9, ClientMove, ZenonT(60)

(* The frames read ahead are data, and a stream starts with them.          *)
LEMMA StreamStartsStep ==
  ASSUME ServeInv, NEW r \in Requests, StreamStarts(r)
  PROVE  ServeInv'
<1>1. Serving(r) /\ handler[r] = "waiting" /\ chan[r] # <<>> /\ Head(chan[r]) = "data"
  BY DEF StreamStarts, FirstIsData, Serving
<1>2. /\ ServeTypes /\ chan[r] \in Seq(Frames) /\ Len(chan[r]) \in Nat
      /\ got[r] = 0 /\ queued[r] = 0 /\ made[r] = got[r] + queued[r] + DataIn(chan[r])
      /\ \A k \in 1 .. Len(chan[r]) :
           chan[r][k] = "done" => k = Len(chan[r]) /\ thread[r] = "ended" /\ result[r] \in Ends
  BY <1>1, ClientNow
<1>3. PICK n \in {1, 2} : n \in 1 .. Len(chan[r]) /\ chan[r][n] = "data" /\ queued' = [queued EXCEPT ![r] = n]
  BY <1>1, <1>2 DEF StreamStarts
<1>4. queued'[r] = n
  BY <1>2, <1>3 DEF ServeTypes
<1>5. PICK d : d = SubSeq(chan[r], n + 1, Len(chan[r]))
  OBVIOUS
<1>6. chan' = [chan EXCEPT ![r] = d]
  BY <1>4, <1>5 DEF StreamStarts
<1>7. d \in Seq(Frames) /\ Len(d) = Len(chan[r]) - n /\ \A k \in 1 .. Len(d) : d[k] = chan[r][k + n]
  BY <1>2, <1>3, <1>5
<1>8. PICK P : P = (thread[r] = "ended" /\ result[r] \in Ends)
  OBVIOUS
<1>9. DataIn(chan[r]) = n + DataIn(d) /\ \A k \in 1 .. Len(d) : d[k] = "done" => k = Len(d) /\ P
  <2>1. \A k \in 1 .. Len(chan[r]) : chan[r][k] = "done" => k = Len(chan[r]) /\ P
    BY <1>2, <1>8
  <2> QED
    BY <1>2, <1>3, <1>7, <2>1, DropFrames
<1>10. PICK g : g = got[r]
  OBVIOUS
<1>11. /\ got' = [got EXCEPT ![r] = g] /\ g \in Nat /\ n \in Nat /\ OnlyReads
       /\ handler' = [handler EXCEPT ![r] = "reading"]
  BY <1>2, <1>10 DEF StreamStarts, OnlyReads, ServeTypes
<1>12. made[r] = g + n + DataIn(d) /\ g + n > 0
  <2>1. DataIn(d) \in Nat
    BY <1>7 DEF DataIn
  <2> QED
    BY <1>2, <1>3, <1>9, <1>10, <2>1
<1>13. \A k \in 1 .. Len(d) : d[k] = "done" => k = Len(d) /\ thread[r] = "ended" /\ result[r] \in Ends
  BY <1>8, <1>9
<1> QED
  BY <1>1, <1>3, <1>6, <1>7, <1>11, <1>12, <1>13, ReadStep

(* A frame of data passes to the client.                                   *)
LEMMA BodyDataStep ==
  ASSUME ServeInv, NEW r \in Requests, BodyData(r)
  PROVE  ServeInv'
<1>1. Serving(r) /\ handler[r] = "reading" /\ got' = [got EXCEPT ![r] = @ + 1] /\ OnlyReads
  BY DEF BodyData, Serving, OnlyReads
<1>2. /\ ServeTypes /\ chan[r] \in Seq(Frames) /\ Len(chan[r]) \in Nat /\ got[r] \in Nat
      /\ queued[r] \in Nat /\ made[r] = got[r] + queued[r] + DataIn(chan[r])
      /\ \A k \in 1 .. Len(chan[r]) :
           chan[r][k] = "done" => k = Len(chan[r]) /\ thread[r] = "ended" /\ result[r] \in Ends
  BY <1>1, ClientNow
<1>3. PICK g : g = got[r] + 1
  OBVIOUS
<1>4. /\ got' = [got EXCEPT ![r] = g] /\ g \in Nat /\ g > 0
      /\ handler' = [handler EXCEPT ![r] = "reading"] /\ DataIn(chan[r]) \in Nat
  <2>1. handler' = [handler EXCEPT ![r] = "reading"]
    BY <1>1, <1>2 DEF BodyData, ServeTypes
  <2>2. DataIn(chan[r]) \in Nat
    BY <1>2 DEF DataIn
  <2>3. got' = [got EXCEPT ![r] = g] /\ g \in Nat /\ g > 0
    BY <1>1, <1>2, <1>3 DEF ServeTypes
  <2> QED
    BY <2>1, <2>2, <2>3
<1>5. CASE queued[r] > 0 /\ queued' = [queued EXCEPT ![r] = @ - 1] /\ UNCHANGED chan
  <2>1. PICK q : q = queued[r] - 1
    OBVIOUS
  <2>2. PICK c : c = chan[r]
    OBVIOUS
  <2>3. queued' = [queued EXCEPT ![r] = q] /\ q \in Nat /\ chan' = [chan EXCEPT ![r] = c] /\ c \in Seq(Frames)
    BY <1>2, <1>5, <2>1, <2>2 DEF ServeTypes
  <2>4. made[r] = g + q + DataIn(c) /\ g + q > 0
    <3>1. DataIn(c) = DataIn(chan[r])
      BY <2>2
    <3>2. made[r] = got[r] + queued[r] + DataIn(c) /\ got[r] \in Nat /\ queued[r] \in Nat /\ DataIn(c) \in Nat
      BY <1>2, <1>4, <3>1
    <3> QED
      BY <1>3, <1>5, <2>1, <3>2
  <2>5. \A k \in 1 .. Len(c) : c[k] = "done" => k = Len(c) /\ thread[r] = "ended" /\ result[r] \in Ends
    BY <1>2, <2>2
  <2> HIDE <1>5
  <2> QED
    BY <1>1, <1>4, <2>3, <2>4, <2>5, ReadStep
<1>6. CASE queued[r] = 0 /\ chan[r] # <<>> /\ Head(chan[r]) = "data" /\ chan' = [chan EXCEPT ![r] = Tail(@)]
           /\ UNCHANGED queued
  <2>1. PICK q : q = queued[r]
    OBVIOUS
  <2>2. PICK d : d = Tail(chan[r])
    OBVIOUS
  <2>3. queued' = [queued EXCEPT ![r] = q] /\ q \in Nat /\ q = 0 /\ chan' = [chan EXCEPT ![r] = d]
    BY <1>2, <1>6, <2>1, <2>2 DEF ServeTypes
  <2>4. /\ d \in Seq(Frames) /\ Len(d) = Len(chan[r]) - 1 /\ \A k \in 1 .. Len(d) : d[k] = chan[r][k + 1]
        /\ 1 \in 1 .. Len(chan[r]) /\ chan[r][1] = "data"
    BY <1>2, <1>6, <2>2
  <2>5. PICK P : P = (thread[r] = "ended" /\ result[r] \in Ends)
    OBVIOUS
  <2>6. DataIn(chan[r]) = 1 + DataIn(d) /\ \A k \in 1 .. Len(d) : d[k] = "done" => k = Len(d) /\ P
    <3>1. \A k \in 1 .. Len(chan[r]) : chan[r][k] = "done" => k = Len(chan[r]) /\ P
      BY <1>2, <2>5
    <3> QED
      BY <1>2, <2>4, <3>1, DropFrames
  <2>7. made[r] = g + q + DataIn(d) /\ g + q > 0
    <3>1. DataIn(d) \in Nat
      BY <2>4 DEF DataIn
    <3>2. made[r] = got[r] + 0 + DataIn(chan[r]) /\ got[r] \in Nat
      BY <1>2, <1>6
    <3> QED
      BY <1>3, <2>3, <2>6, <3>1, <3>2
  <2>8. \A k \in 1 .. Len(d) : d[k] = "done" => k = Len(d) /\ thread[r] = "ended" /\ result[r] \in Ends
    BY <2>5, <2>6
  <2> HIDE <1>6
  <2> QED
    BY <1>1, <1>4, <2>3, <2>4, <2>7, <2>8, ReadStep
<1> QED
  BY <1>5, <1>6 DEF BodyData

(* A client that leaves cancels the extraction.                            *)
LEMMA ClientLeavesStep ==
  ASSUME ServeInv, NEW r \in Requests, ClientLeaves(r)
  PROVE  ServeInv'
<1>1. Serving(r)
  BY DEF ClientLeaves, Serving
<1>2. /\ ServeTypes /\ answer[r] = "none" /\ marked[r] \in BOOLEAN /\ got[r] \in Nat /\ queued[r] \in Nat
  BY <1>1, ClientNow
<1>3. PICK mk : mk = marked[r]
  OBVIOUS
<1>4. PICK g : g = got[r]
  OBVIOUS
<1>5. PICK q : q = queued[r]
  OBVIOUS
<1>6. PICK a : a = answer[r]
  OBVIOUS
<1>7. PICK why : why = IF cause[r] = "none" THEN "client" ELSE cause[r]
  OBVIOUS
<1>8. PICK c : c = <<>>
  OBVIOUS
<1>9. /\ answer' = [answer EXCEPT ![r] = a] /\ marked' = [marked EXCEPT ![r] = mk]
      /\ got' = [got EXCEPT ![r] = g] /\ queued' = [queued EXCEPT ![r] = q] /\ chan' = [chan EXCEPT ![r] = c]
      /\ rx' = [rx EXCEPT ![r] = FALSE] /\ cancel' = [cancel EXCEPT ![r] = TRUE]
      /\ cause' = [cause EXCEPT ![r] = why]
      /\ handler' = [handler EXCEPT ![r] = "gone"] /\ UNCHANGED clientRest
  BY <1>2, <1>3, <1>4, <1>5, <1>6, <1>7, <1>8 DEF ClientLeaves, Cancels, ServeTypes
<1>10. /\ mk \in BOOLEAN /\ g \in Nat /\ q \in Nat /\ c \in Seq(Frames) /\ (\A k \in 1 .. Len(c) : FALSE)
       /\ a # "clean" /\ "gone" \in HandlerPcs /\ TRUE \in BOOLEAN /\ FALSE \in BOOLEAN
  BY <1>2, <1>3, <1>4, <1>5, <1>6, <1>8 DEF HandlerPcs
<1> QED
  BY <1>9, <1>10, ClientMove

-----------------------------------------------------------------------------
(* A request arrives.                                                      *)

(* What the invariant says of a request that has not begun.                *)
LEMMA IdleNow ==
  ASSUME ServeInv, NEW r \in Requests, handler[r] = "idle"
  PROVE  /\ ServeTypes /\ ThreadInv(r) /\ SuperInv(r)
         /\ ~Holds(r) /\ thread[r] = "none" /\ answer[r] = "none" /\ ~cancel[r] /\ chan[r] = <<>>
         /\ made[r] = 0 /\ got[r] = 0 /\ queued[r] = 0 /\ result[r] = "none" /\ ~rx[r] /\ input[r] \in Inputs
BY DEF ServeInv, ServeTypes, ClientInv, ThreadInv, SuperInv, Serving, Holds

(* A request that ends at once, refused or handed to an agent.             *)
LEMMA EndsAtOnce ==
  ASSUME ServeInv, NEW r \in Requests, handler[r] = "idle", NEW code, code # "clean",
         handler' = [handler EXCEPT ![r] = "over"], answer' = [answer EXCEPT ![r] = code],
         UNCHANGED <<input, marked, got, queued, chan, rx, thread, made, result, super, outcome, cancel,
                     cause, inflight>>,
         route' = [q \in Requests |-> route'[q]], remote' \subseteq Requests,
         PermitsOK', StampedStaysHome'
  PROVE  ServeInv'
<1>1. /\ ServeTypes /\ ThreadInv(r) /\ SuperInv(r)
      /\ ~Holds(r) /\ thread[r] = "none" /\ ~rx[r]
  BY IdleNow
<1>2. handler'[r] = "over" /\ answer'[r] = code
  BY <1>1 DEF ServeTypes
<1>3. ServeTypes'
  <2>1. handler' \in [Requests -> HandlerPcs] /\ answer' = [q \in Requests |-> answer'[q]]
    BY <1>1 DEF ServeTypes, HandlerPcs
  <2> QED
    BY <1>1, <2>1 DEF ServeTypes
<1>4. ASSUME NEW i \in Requests \ {r} PROVE Untouched(i)
  BY <1>1 DEF ServeTypes, Untouched
<1>5. ClientInv(r)' /\ ThreadInv(r)' /\ SuperInv(r)'
  BY <1>1, <1>2 DEF ClientInv, ThreadInv, SuperInv, Serving, Holds
<1>6. Exclusive'
  BY DEF ServeInv, Exclusive, Holds
<1>7. InflightCounts'
  BY SameCount
<1> QED
  BY <1>3, <1>4, <1>5, <1>6, <1>7, OneRequest

(* A refused request has taken nothing.                                    *)
LEMMA RefuseStep ==
  ASSUME ServeInv, NEW r \in Requests, handler[r] = "idle", NEW code, code # "clean", Refuse(r, code),
         UNCHANGED route
  PROVE  ServeInv'
<1>1. ServeTypes
  BY IdleNow
<1>2. /\ handler' = [handler EXCEPT ![r] = "over"] /\ answer' = [answer EXCEPT ![r] = code]
      /\ UNCHANGED <<input, marked, got, queued, chan, rx, thread, made, result, super, outcome, cancel,
                     cause, inflight>> /\ UNCHANGED <<super, remote>>
  BY DEF Refuse
<1>3. route' = [q \in Requests |-> route'[q]] /\ remote' \subseteq Requests
  BY <1>1, <1>2 DEF ServeTypes
<1>4. PermitsOK' /\ StampedStaysHome'
  BY <1>2, SamePermits, SameRoutes
<1> QED
  BY <1>2, <1>3, <1>4, EndsAtOnce

(* What ResolveSource answers.                                             *)
LEMMA ResolvedKinds ==
  ASSUME NEW event, NEW explicit
  PROVE  ResolveSource(event, explicit).kind \in {"source", "no-source", "no-rule", "ambiguous"}
<1> USE DEF Source, NoSource, NoRule, Ambiguous
<1>1. \A n : SourceByName(n).kind \in {"source", "no-source"}
  BY DEF SourceByName
<1>2. ByTable(event.identity).kind \in {"source", "no-source", "no-rule"}
  BY <1>1 DEF ByTable
<1>3. \A S, n : OneOf(S, n).kind \in {"source", "no-source", "ambiguous"}
  BY DEF OneOf
<1>4. ByStamp(event).kind \in {"source", "no-source"}
  BY DEF ByStamp
<1>5. ByHostname(event).kind \in {"source", "no-source", "ambiguous"}
  BY <1>3 DEF ByHostname
<1>6. Unstamped(event).kind \in {"source", "no-source", "ambiguous"}
  BY <1>3 DEF Unstamped
<1>7. Heuristics(event).kind \in {"source", "no-source", "ambiguous"}
  BY <1>4, <1>5, <1>6 DEF Heuristics
<1> QED
  BY <1>1, <1>2, <1>7 DEF ResolveSource

(* The refusals of validation, routing and admission.                      *)
LEMMA RefusalStep ==
  ASSUME ServeInv, NEW r \in Requests,
         RefuseEarly(r) \/ RefuseRequest(r) \/ RefuseSize(r) \/ RefuseRoute(r) \/ Validated(r) \/ RefuseBusy(r)
  PROVE  ServeInv'
<1>1. handler[r] = "idle" /\ UNCHANGED route
  BY DEF RefuseEarly, RefuseRequest, RefuseSize, RefuseRoute, Validated, RefuseBusy, Proper, Routed
<1>2. input[r] \in Inputs
  BY <1>1, IdleNow
<1>3. PICK code : code # "clean" /\ Refuse(r, code)
  <2>1. CASE RefuseEarly(r)
    BY <2>1 DEF RefuseEarly
  <2>2. CASE RefuseRequest(r)
    <3>1. input[r].bad # "clean"
      BY <1>2, LocalAssumption
    <3> QED
      BY <2>2, <3>1 DEF RefuseRequest
  <2>3. CASE RefuseSize(r)
    BY <2>3 DEF RefuseSize
  <2>4. CASE RefuseRoute(r)
    <3>1. Resolved(r).kind # "clean"
      BY ResolvedKinds DEF Resolved
    <3> QED
      BY <2>4, <3>1 DEF RefuseRoute
  <2>5. CASE Validated(r)
    BY <2>5 DEF Validated
  <2>6. CASE RefuseBusy(r)
    <3>1. PICK name \in Available :
            Refuse(r, IF ~GlobalFree THEN "busy" ELSE IF ~SourceFree(name) THEN "source-busy" ELSE "wedged")
      BY <2>6 DEF RefuseBusy
    <3>2. (IF ~GlobalFree THEN "busy" ELSE IF ~SourceFree(name) THEN "source-busy" ELSE "wedged") # "clean"
      OBVIOUS
    <3> QED
      BY <3>1, <3>2
  <2> QED
    BY <2>1, <2>2, <2>3, <2>4, <2>5, <2>6
<1> QED
  BY <1>1, <1>3, RefuseStep

(* resolve_source keeps a stamped event at home while the table is empty.  *)
LEMMA HomeRoute ==
  ASSUME NEW r \in Requests, NEW name, Routed(r, name), input[r].event.stamp # None,
         input[r].source = None, live = EmptyTable
  PROVE  name \in {input[r].event.identity, input[r].event.stamp}
<1> DEFINE event == input[r].event
<1>1. ResolveSource(event, None) = Source(name)
  BY DEF Routed, Resolved
<1>2. Heuristics(event) = Source(name)
  BY <1>1 DEF ResolveSource
<1>3. CASE event.identity \in agents
  <2>1. Source(event.identity) = Source(name)
    BY <1>2, <1>3 DEF Heuristics
  <2> QED
    BY <2>1 DEF Source
<1>4. CASE event.identity \notin agents
  <2>1. ByStamp(event) = Source(name)
    BY <1>2, <1>4 DEF Heuristics
  <2> QED
    BY <2>1 DEF ByStamp, Source, NoSource
<1> QED
  BY <1>3, <1>4

(* The route that is taken down for a request.                             *)
LEMMA RouteKeepsHome ==
  ASSUME ServeInv, NEW r \in Requests, NEW name, Routed(r, name), UNCHANGED input,
         route' = [route EXCEPT ![r] = [table |-> live, to |-> name]]
  PROVE  StampedStaysHome' /\ route' = [q \in Requests |-> route'[q]]
<1>1. route = [q \in Requests |-> route[q]]
  BY DEF ServeInv, ServeTypes
<1>2. PICK x : x = [table |-> live, to |-> name]
  OBVIOUS
<1>3. x.table = live /\ x.to = name /\ route' = [route EXCEPT ![r] = x]
  BY <1>2
<1>4. ASSUME NEW q \in Requests PROVE route'[q] = IF q = r THEN x ELSE route[q]
  BY <1>1, <1>3
<1>5. StampedStaysHome'
  <2> SUFFICES ASSUME NEW q \in Requests, route'[q].to # None, input[q].event.stamp # None,
                      input[q].source = None, route'[q].table = EmptyTable
               PROVE  route'[q].to \in {input[q].event.identity, input[q].event.stamp}
    BY DEF StampedStaysHome
  <2>1. CASE q = r
    BY <1>3, <1>4, <2>1, HomeRoute
  <2>2. CASE q # r
    BY <1>4, <2>2 DEF ServeInv, StampedStaysHome
  <2> QED
    BY <2>1, <2>2
<1> QED
  BY <1>1, <1>3, <1>5

(* One more holder of a permit.                                            *)
LEMMA OneMoreHolder ==
  ASSUME ServeInv, NEW r, GlobalFree, Holders' \subseteq Holders \union {r}
  PROVE  PermitsOK'
<1>1. IsFiniteSet(Holders) /\ Cardinality(Holders) < MaxConcurrent /\ Cardinality(Holders) \in Nat
  BY FS_CardinalityType DEF ServeInv, PermitsOK, GlobalFree
<1>2. /\ IsFiniteSet(Holders \union {r})
      /\ Cardinality(Holders \union {r}) = IF r \in Holders THEN Cardinality(Holders) ELSE Cardinality(Holders) + 1
  BY <1>1, FS_AddElement
<1>3. Cardinality(Holders \union {r}) <= MaxConcurrent /\ Cardinality(Holders \union {r}) \in Nat
  BY <1>1, <1>2, LocalAssumption
<1>4. IsFiniteSet(Holders') /\ Cardinality(Holders') <= Cardinality(Holders \union {r})
  BY <1>2, FS_Subset
<1>5. Cardinality(Holders') \in Nat
  BY <1>4, FS_CardinalityType
<1> QED
  BY <1>3, <1>4, <1>5, LocalAssumption DEF PermitsOK

(* A local request takes both permits before its thread is spawned.        *)
LEMMA StartLocalStep ==
  ASSUME ServeInv, NEW r \in Requests, StartLocal(r)
  PROVE  ServeInv'
<1>1. handler[r] = "idle" /\ Routed(r, Local) /\ GlobalFree /\ SourceFree(Local)
  BY DEF StartLocal, Routed, Proper
<1>2. /\ ServeTypes /\ ThreadInv(r) /\ SuperInv(r) /\ ClientInv(r)
      /\ answer[r] = "none" /\ ~cancel[r] /\ chan[r] = <<>>
      /\ made[r] = 0 /\ got[r] = 0 /\ queued[r] = 0 /\ result[r] = "none"
  BY <1>1, IdleNow DEF ServeInv
<1>3. /\ handler' = [handler EXCEPT ![r] = "waiting"] /\ rx' = [rx EXCEPT ![r] = TRUE]
      /\ thread' = [thread EXCEPT ![r] = "spawned"] /\ super' = [super EXCEPT ![r] = "watching"]
      /\ UNCHANGED <<input, answer, marked, got, queued, chan, made, result, outcome, cancel, cause,
                     remote, inflight>>
  BY DEF StartLocal
<1>4. handler'[r] = "waiting" /\ rx'[r] = TRUE /\ thread'[r] = "spawned" /\ super'[r] = "watching"
  BY <1>2, <1>3 DEF ServeTypes
<1>5. StampedStaysHome' /\ route' = [q \in Requests |-> route'[q]]
  BY <1>1, <1>3, RouteKeepsHome DEF StartLocal
<1>6. ServeTypes'
  <2>1. /\ handler' \in [Requests -> HandlerPcs] /\ rx' \in [Requests -> BOOLEAN]
        /\ thread' \in [Requests -> ThreadPcs] /\ super' \in [Requests -> SuperPcs]
    BY <1>2, <1>3 DEF ServeTypes, HandlerPcs, ThreadPcs, SuperPcs
  <2> QED
    BY <1>2, <1>3, <1>5, <2>1 DEF ServeTypes
<1>7. ASSUME NEW i \in Requests \ {r} PROVE Untouched(i)
  BY <1>2, <1>3 DEF ServeTypes, Untouched
<1>8. ClientInv(r)'
  <2>1. DataIn(<<>>) = 0
    BY DEF DataIn
  <2> QED
    BY <1>2, <1>3, <1>4, <2>1 DEF ClientInv, Serving
<1>9. ThreadInv(r)'
  BY <1>2, <1>3, <1>4 DEF ThreadInv
<1>10. SuperInv(r)'
  <2>1. outcome[r] = "none"
    BY <1>1, <1>2 DEF SuperInv
  <2> QED
    BY <1>3, <1>4, <2>1 DEF SuperInv, Holds
<1>11. ASSUME NEW i \in Requests PROVE Holds(i)' <=> i = r
  BY <1>1, <1>4, <1>7 DEF Holds, Untouched, SourceFree
<1>12. Exclusive' /\ PermitsOK'
  <2>1. Holders' \subseteq Holders \union {r}
    BY <1>3, <1>11 DEF Holders
  <2> QED
    BY <1>1, <1>11, <2>1, OneMoreHolder DEF Exclusive
<1>13. InflightCounts'
  <2>1. Running' = Running
    BY <1>2, <1>3, <1>4, <1>7, IdleNow, <1>1 DEF Running, Active, Untouched
  <2> QED
    BY <1>3, <2>1 DEF ServeInv, InflightCounts
<1> QED
  BY <1>3, <1>5, <1>6, <1>7, <1>8, <1>9, <1>10, <1>12, <1>13, OneRequest

(* A request for an agent holds a permit of the service.                   *)
LEMMA StartAgentStep ==
  ASSUME ServeInv, NEW r \in Requests, StartAgent(r)
  PROVE  ServeInv'
<1>1. PICK name \in agents : Routed(r, name) /\ GlobalFree /\ route' = [route EXCEPT ![r] = [table |-> live, to |-> name]]
  BY DEF StartAgent
<1>2. handler[r] = "idle"
  BY <1>1 DEF Routed, Proper
<1>3. /\ handler' = [handler EXCEPT ![r] = "over"] /\ answer' = [answer EXCEPT ![r] = "remote"]
      /\ remote' = remote \union {r} /\ "remote" # "clean"
      /\ UNCHANGED <<input, marked, got, queued, chan, rx, thread, made, result, super, outcome, cancel,
                     cause, inflight>>
  BY DEF StartAgent
<1>4. StampedStaysHome' /\ route' = [q \in Requests |-> route'[q]]
  BY <1>1, <1>3, RouteKeepsHome
<1>5. remote' \subseteq Requests
  BY <1>3 DEF ServeInv, ServeTypes
<1>6. PermitsOK'
  <2>1. Holders' \subseteq Holders \union {r}
    BY <1>3 DEF Holders, Holds
  <2> QED
    BY <1>1, <2>1, OneMoreHolder
<1> QED
  BY <1>2, <1>3, <1>4, <1>5, <1>6, EndsAtOnce

(* It gives the permit back at its end.                                    *)
LEMMA AgentRequestEndsStep ==
  ASSUME ServeInv, NEW r \in Requests, AgentRequestEnds(r)
  PROVE  ServeInv'
<1>1. /\ remote' = remote \ {r}
      /\ UNCHANGED <<input, route, handler, answer, marked, got, queued, chan, rx, thread,
                     made, result, super, outcome, cancel, cause, inflight>>
  BY DEF AgentRequestEnds
<1>2. ServeTypes' /\ Exclusive'
  BY <1>1 DEF ServeInv, ServeTypes, Exclusive, Holds
<1>3. PermitsOK'
  <2>1. Holders' \subseteq Holders
    BY <1>1 DEF Holders, Holds
  <2>2. IsFiniteSet(Holders) /\ Cardinality(Holders) <= MaxConcurrent
    BY DEF ServeInv, PermitsOK
  <2>3. IsFiniteSet(Holders') /\ Cardinality(Holders') <= Cardinality(Holders)
    BY <2>1, <2>2, FS_Subset
  <2>4. Cardinality(Holders') \in Nat /\ Cardinality(Holders) \in Nat
    BY <2>2, <2>3, FS_CardinalityType
  <2> QED
    BY <2>2, <2>3, <2>4, LocalAssumption DEF PermitsOK
<1>4. InflightCounts' /\ StampedStaysHome'
  BY <1>1, SameCount, SameRoutes
<1>5. ASSUME NEW i \in Requests PROVE ClientInv(i)' /\ ThreadInv(i)' /\ SuperInv(i)'
  BY <1>1 DEF ServeInv, ClientInv, ThreadInv, SuperInv, Serving, Whole, Holds
<1> QED
  BY <1>2, <1>3, <1>4, <1>5 DEF ServeInv

-----------------------------------------------------------------------------
(* The theorems about the requests.                                        *)

(* A step of the routing table leaves the requests alone.                  *)
LEMMA ServeKept == ServeInv /\ UNCHANGED serveVars => ServeInv'
<1> SUFFICES ASSUME ServeInv, UNCHANGED serveVars PROVE ServeInv'
  OBVIOUS
<1>1. UNCHANGED <<input, route, handler, answer, marked, got, queued, chan, rx, thread,
                  made, result, super, outcome, cancel, cause, remote, inflight>>
  BY DEF serveVars
<1>2. ServeTypes'
  BY <1>1 DEF ServeInv, ServeTypes
<1>3. Exclusive' /\ PermitsOK' /\ InflightCounts' /\ StampedStaysHome'
  BY <1>1, SamePermits, SameCount, SameRoutes
<1>4. ASSUME NEW i \in Requests PROVE ClientInv(i)' /\ ThreadInv(i)' /\ SuperInv(i)'
  BY <1>1 DEF ServeInv, ClientInv, ThreadInv, SuperInv, Serving, Whole, Holds
<1> QED
  BY <1>2, <1>3, <1>4 DEF ServeInv

(* Every step of requests, threads, supervisors and savers keeps the       *)
(* invariant.                                                              *)
LEMMA ServeStepInv == ServeInv /\ [LocalNext]_localVars => ServeInv'
<1> SUFFICES ASSUME ServeInv, [LocalNext]_localVars PROVE ServeInv'
  OBVIOUS
<1>1. ASSUME NEW r \in Requests, Arrives(r) PROVE ServeInv'
  BY <1>1, RefusalStep, StartLocalStep, StartAgentStep, AgentRequestEndsStep DEF Arrives
<1>2. ASSUME NEW r \in Requests, ThreadSteps(r) PROVE ServeInv'
  BY <1>2, ThreadStartsStep, ScanStep, FetchEndsStep, SendDataStep, SendDataFailsStep, FinishStep DEF ThreadSteps
<1>3. ASSUME NEW r \in Requests, ThreadFaults(r) PROVE ServeInv'
  BY <1>3, ScanStep, FinishStep DEF ThreadFaults
<1>4. ASSUME NEW r \in Requests, SupervisorSteps(r) PROVE ServeInv'
  BY <1>4, SupervisorStep
<1>5. ASSUME NEW r \in Requests, HandlerSteps(r) PROVE ServeInv'
  BY <1>5, FirstFrameTimeoutStep, DiedStep, FirstIsDoneStep, OneChunkStep, StreamStartsStep DEF HandlerSteps
<1>6. ASSUME NEW r \in Requests, BodySteps(r) PROVE ServeInv'
  BY <1>6, BodyDataStep, BodyDoneStep, DiedStep, ClientLeavesStep DEF BodySteps
<1>7. CASE UNCHANGED serveVars
  BY <1>7, ServeKept
<1> QED
  BY <1>1, <1>2, <1>3, <1>4, <1>5, <1>6, <1>7 DEF LocalNext, RequestNext, localVars

(* The inductive invariant of the capture requests: handler, thread and    *)
(* supervisor of each fit together, the local spool's permit is with at    *)
(* most one of them, and inflight counts the threads that run.             *)
THEOREM ServeInvariant == LocalSpec => []ServeInv
BY ServeInitInv, ServeStepInv, PTL DEF LocalSpec

(* A body that ends cleanly is the whole extraction, however handler,      *)
(* thread, timers and a leaving client interleave, for any channel size.   *)
THEOREM CleanBodyIsWhole == LocalSpec => []CleanIsWhole
<1>1. ServeInv => CleanIsWhole
  BY DEF ServeInv, ClientInv, Whole, CleanIsWhole
<1> QED
  BY <1>1, ServeInvariant, PTL

(* One extraction at a time reads the local spool, apart from those        *)
(* reported as wedged, and no more than max_concurrent requests hold a     *)
(* permit.                                                                 *)
THEOREM LocalExtractionsSerialized == LocalSpec => []OneLocalExtraction
<1>1. ServeInv => OneLocalExtraction
  <2> SUFFICES ASSUME ServeInv PROVE OneLocalExtraction
    OBVIOUS
  <2> DEFINE Reading == {r \in Requests : thread[r] \notin {"none", "ended"} /\ outcome[r] # "wedged"}
  <2>1. ASSUME NEW r \in Reading PROVE Holds(r)
    <3>1. ServeTypes /\ SuperInv(r) /\ r \in Requests
      BY DEF ServeInv
    <3>2. super[r] \in SuperPcs
      BY <3>1 DEF ServeTypes
    <3> QED
      BY <3>1, <3>2 DEF SuperInv, Holds, SuperPcs
  <2>2. \A i, j \in Reading : i = j
    BY <2>1 DEF ServeInv, Exclusive
  <2>3. Cardinality(Reading) <= 1
    <3>1. CASE Reading = {}
      <4> HIDE DEF Reading
      <4> QED
        BY <3>1, FS_EmptySet
    <3>2. ASSUME NEW r \in Reading PROVE Cardinality(Reading) <= 1
      <4>1. Reading = {r}
        BY <2>2
      <4> HIDE DEF Reading
      <4> QED
        BY <4>1, FS_Singleton
    <3> QED
      BY <3>1, <3>2
  <2>4. Cardinality(Holders) <= MaxConcurrent
    BY DEF ServeInv, PermitsOK
  <2>5. \A r \in Requests : super[r] = "over" /\ outcome[r] # "wedged" => thread[r] = "ended"
    BY DEF ServeInv, SuperInv
  <2> QED
    BY <2>3, <2>4, <2>5 DEF OneLocalExtraction
<1> QED
  BY <1>1, ServeInvariant, PTL

(* resolve_source never serves a stamped event from another source than    *)
(* its sensor's agent or the one that imported it, for any set of agents   *)
(* and any events, unless the request or the table says so.                *)
THEOREM StampedNeverMoves == LocalSpec => []StampedStaysHome
<1>1. ServeInv => StampedStaysHome
  BY DEF ServeInv
<1> QED
  BY <1>1, ServeInvariant, PTL

(* PcapService.inflight is the number of extraction threads that run:      *)
(* no abort, panic or undeliverable frame leaks or loses a count, so the   *)
(* backlog at which the spool counts as wedged is the real one.            *)
THEOREM InflightIsExact == LocalSpec => []InflightCounts
<1>1. ServeInv => InflightCounts
  BY DEF ServeInv
<1> QED
  BY <1>1, ServeInvariant, PTL

=============================================================================
