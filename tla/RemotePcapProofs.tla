--------------------------- MODULE RemotePcapProofs ---------------------------
(***************************************************************************)
(* Proofs about AgentRegistry and RemotePcap for any number of             *)
(* connections, keys, names and requests.                                  *)
(*                                                                         *)
(* The registry first: one lemma per group of actions shows that it        *)
(* preserves RegInv.  Then RemotePcap implements AgentRegistry: serving    *)
(* captures over a connection adds nothing to what the registry's own      *)
(* variables may do, so what is proved of the registry holds in the        *)
(* composed system.                                                        *)
(*                                                                         *)
(* PcapInv is inductive relative to RegInv: a request is routed only over  *)
(* a connection that is registered, and dispatched only over one that is   *)
(* still the name's current one, so that the teardown of its connection is *)
(* yet to come and fail_pending will find the job.                         *)
(***************************************************************************)
EXTENDS RemotePcap, TLAPS

(* RegInv holds of an empty registry. *)
LEMMA RegInitInv == RegInit => RegInv
BY RegistryAssumption, SMTT(30)
   DEF RegInit, RegInv, RegTypeOK, KeyMatchesName, DeleteProgress, RegisteredIsLive,
       ReplacedIsStopped, RevokedIsStopped

(* AddKey preserves RegInv. *)
LEMMA AddKeyInv ==
  ASSUME RegInv, NEW k \in Key, AddKey(k)
  PROVE  RegInv'
<1> USE RegistryAssumption DEF AddKey, RegInv, admin, ident, RegTypeOK
<1>1. RegTypeOK' BY SMTT(20)
<1>2. KeyMatchesName' BY SMTT(20) DEF KeyMatchesName
<1>3. DeleteProgress' BY SMTT(20) DEF DeleteProgress
<1>4. RegisteredIsLive' BY SMTT(20) DEF RegisteredIsLive
<1>5. ReplacedIsStopped' BY SMTT(20) DEF ReplacedIsStopped
<1>6. RevokedIsStopped' BY SMTT(20) DEF RevokedIsStopped
<1> QED BY <1>1, <1>2, <1>3, <1>4, <1>5, <1>6 DEF RegInv

(* CliRemoveKey preserves RegInv. *)
LEMMA CliRemoveKeyInv ==
  ASSUME RegInv, NEW k \in Key, CliRemoveKey(k)
  PROVE  RegInv'
<1> USE RegistryAssumption DEF CliRemoveKey, RegInv, admin, ident, RegTypeOK
<1>1. RegTypeOK' BY SMTT(20)
<1>2. KeyMatchesName' BY SMTT(20) DEF KeyMatchesName
<1>3. DeleteProgress' BY SMTT(20) DEF DeleteProgress
<1>4. RegisteredIsLive' BY SMTT(20) DEF RegisteredIsLive
<1>5. ReplacedIsStopped' BY SMTT(20) DEF ReplacedIsStopped
<1>6. RevokedIsStopped' BY SMTT(20) DEF RevokedIsStopped
<1> QED BY <1>1, <1>2, <1>3, <1>4, <1>5, <1>6 DEF RegInv

(* FindKey preserves RegInv. *)
LEMMA FindKeyInv ==
  ASSUME RegInv, NEW k \in Key, FindKey(k)
  PROVE  RegInv'
<1> USE RegistryAssumption DEF FindKey, RegInv, admin, ident, RegTypeOK
<1>1. RegTypeOK' BY SMTT(20)
<1>2. KeyMatchesName' BY SMTT(20) DEF KeyMatchesName
<1>3. DeleteProgress' BY SMTT(20) DEF DeleteProgress
<1>4. RegisteredIsLive' BY SMTT(20) DEF RegisteredIsLive
<1>5. ReplacedIsStopped' BY SMTT(20) DEF ReplacedIsStopped
<1>6. RevokedIsStopped' BY SMTT(20) DEF RevokedIsStopped
<1> QED BY <1>1, <1>2, <1>3, <1>4, <1>5, <1>6 DEF RegInv

(* DeleteKeyRow preserves RegInv. *)
LEMMA DeleteKeyRowInv ==
  ASSUME RegInv, NEW k \in Key, DeleteKeyRow(k)
  PROVE  RegInv'
<1> USE RegistryAssumption DEF DeleteKeyRow, RegInv, admin, ident, RegTypeOK
<1>1. RegTypeOK' BY SMTT(20)
<1>2. KeyMatchesName' BY SMTT(20) DEF KeyMatchesName
<1>3. DeleteProgress' BY SMTT(20) DEF DeleteProgress
<1>4. RegisteredIsLive' BY SMTT(20) DEF RegisteredIsLive
<1>5. ReplacedIsStopped' BY SMTT(20) DEF ReplacedIsStopped
<1>6. RevokedIsStopped' BY SMTT(20) DEF RevokedIsStopped
<1> QED BY <1>1, <1>2, <1>3, <1>4, <1>5, <1>6 DEF RegInv

(* The revoked key's only registered connection is the one that is bumped. *)
LEMMA RevokeKeyInv ==
  ASSUME RegInv, NEW k \in Key, RevokeKey(k)
  PROVE  RegInv'
<1> USE RegistryAssumption DEF RevokeKey, Holders, RegInv, admin, ident, RegTypeOK
<1>1. RegTypeOK' BY SMTT(20)
<1>2. KeyMatchesName' BY SMTT(20) DEF KeyMatchesName
<1>3. DeleteProgress' BY SMTT(20) DEF DeleteProgress
<1>4. RegisteredIsLive' BY SMTT(20) DEF RegisteredIsLive
<1>5. ReplacedIsStopped' BY SMTT(20) DEF ReplacedIsStopped
<1>6. RevokedIsStopped' BY SMTT(20) DEF RevokedIsStopped, RegisteredIsLive, ReplacedIsStopped, KeyMatchesName, DeleteProgress
<1> QED BY <1>1, <1>2, <1>3, <1>4, <1>5, <1>6 DEF RegInv

(* BumpAgent preserves RegInv. *)
LEMMA BumpAgentInv ==
  ASSUME RegInv, NEW k \in Key, BumpAgent(k)
  PROVE  RegInv'
<1> USE RegistryAssumption DEF BumpAgent, RegInv, admin, ident, RegTypeOK
<1>1. RegTypeOK' BY SMTT(20)
<1>2. KeyMatchesName' BY SMTT(20) DEF KeyMatchesName
<1>3. DeleteProgress' BY SMTT(20) DEF DeleteProgress
<1>4. RegisteredIsLive' BY SMTT(20) DEF RegisteredIsLive
<1>5. ReplacedIsStopped' BY SMTT(20) DEF ReplacedIsStopped
<1>6. RevokedIsStopped'
  <2>1. \A d \in Conn : shutdown[d] => shutdown'[d]
    BY Zenon
  <2>2. \A d \in Conn : d = bump[k] => shutdown'[d]
    BY Zenon
  <2> HIDE DEF BumpAgent
  <2>3. /\ bump' = [bump EXCEPT ![k] = None]
        /\ UNCHANGED <<cpc, ckey, revoked>>
    BY DEF BumpAgent
  <2> QED BY <2>1, <2>2, <2>3, SMTT(20) DEF RevokedIsStopped
<1> QED BY <1>1, <1>2, <1>3, <1>4, <1>5, <1>6 DEF RegInv

(* AbortDelete preserves RegInv. *)
LEMMA AbortDeleteInv ==
  ASSUME RegInv, NEW k \in Key, AbortDelete(k)
  PROVE  RegInv'
<1> USE RegistryAssumption DEF AbortDelete, RegInv, admin, ident, RegTypeOK
<1>1. RegTypeOK' BY SMTT(20)
<1>2. KeyMatchesName' BY SMTT(20) DEF KeyMatchesName
<1>3. DeleteProgress' BY SMTT(20) DEF DeleteProgress
<1>4. RegisteredIsLive' BY SMTT(20) DEF RegisteredIsLive
<1>5. ReplacedIsStopped' BY SMTT(20) DEF ReplacedIsStopped
<1>6. RevokedIsStopped' BY SMTT(20) DEF RevokedIsStopped
<1> QED BY <1>1, <1>2, <1>3, <1>4, <1>5, <1>6 DEF RegInv

(* A connection is given the name of its key. *)
LEMMA UpgradeInv ==
  ASSUME RegInv, NEW c \in Conn, NEW k \in Key \cup {None}, Upgrade(c, k)
  PROVE  RegInv'
<1> USE RegistryAssumption DEF Upgrade, Goto, RegInv, admin, ident, RegTypeOK
<1>1. RegTypeOK' BY SMTT(20)
<1>2. KeyMatchesName' BY SMTT(20) DEF KeyMatchesName
<1>3. DeleteProgress' BY SMTT(20) DEF DeleteProgress
<1>4. RegisteredIsLive' BY SMTT(20) DEF RegisteredIsLive
<1>5. ReplacedIsStopped' BY SMTT(20) DEF ReplacedIsStopped
<1>6. RevokedIsStopped' BY SMTT(20) DEF RevokedIsStopped
<1> QED BY <1>1, <1>2, <1>3, <1>4, <1>5, <1>6 DEF RegInv

(* SendHello preserves RegInv. *)
LEMMA SendHelloInv ==
  ASSUME RegInv, NEW c \in Conn, SendHello(c)
  PROVE  RegInv'
<1> USE RegistryAssumption DEF SendHello, Goto, RegInv, admin, ident, RegTypeOK
<1>1. RegTypeOK' BY SMTT(20)
<1>2. KeyMatchesName' BY SMTT(20) DEF KeyMatchesName
<1>3. DeleteProgress' BY SMTT(20) DEF DeleteProgress
<1>4. RegisteredIsLive' BY SMTT(20) DEF RegisteredIsLive
<1>5. ReplacedIsStopped' BY SMTT(20) DEF ReplacedIsStopped
<1>6. RevokedIsStopped' BY SMTT(20) DEF RevokedIsStopped
<1> QED BY <1>1, <1>2, <1>3, <1>4, <1>5, <1>6 DEF RegInv

(* Refuse preserves RegInv. *)
LEMMA RefuseInv ==
  ASSUME RegInv, NEW c \in Conn, Refuse(c)
  PROVE  RegInv'
<1> USE RegistryAssumption DEF Refuse, Goto, RegInv, admin, ident, RegTypeOK
<1>1. RegTypeOK' BY SMTT(20)
<1>2. KeyMatchesName' BY SMTT(20) DEF KeyMatchesName
<1>3. DeleteProgress' BY SMTT(20) DEF DeleteProgress
<1>4. RegisteredIsLive' BY SMTT(20) DEF RegisteredIsLive
<1>5. ReplacedIsStopped' BY SMTT(20) DEF ReplacedIsStopped
<1>6. RevokedIsStopped' BY SMTT(20) DEF RevokedIsStopped
<1> QED BY <1>1, <1>2, <1>3, <1>4, <1>5, <1>6 DEF RegInv

(* The name's holder is stopped, and a revoked key is refused. *)
LEMMA RegisterInv ==
  ASSUME RegInv, NEW c \in Conn, Register(c)
  PROVE  RegInv'
<1> USE RegistryAssumption DEF Register, Refused, HeldByOtherKey, Goto, RegInv, admin, ident, RegTypeOK
<1>1. RegTypeOK' BY SMTT(20)
<1>2. KeyMatchesName' BY SMTT(20) DEF KeyMatchesName
<1>3. DeleteProgress' BY SMTT(20) DEF DeleteProgress
<1>4. RegisteredIsLive' BY SMTT(20) DEF RegisteredIsLive
<1>5. ReplacedIsStopped'
  <2>1. \A d \in Conn : shutdown[d] => shutdown'[d]
    BY Zenon
  <2>2. \A d \in Conn : d = agents[cname[c]] => shutdown'[d]
    BY Zenon
  <2> HIDE DEF Register
  <2>3. /\ agents' = [agents EXCEPT ![cname[c]] = c]
        /\ cpc' = [cpc EXCEPT ![c] = "live"]
        /\ UNCHANGED cname
    BY DEF Register
  <2> QED BY <2>1, <2>2, <2>3, SMTT(20) DEF ReplacedIsStopped
<1>6. RevokedIsStopped' BY SMTT(20) DEF RevokedIsStopped, RegisteredIsLive, ReplacedIsStopped, KeyMatchesName, DeleteProgress
<1> QED BY <1>1, <1>2, <1>3, <1>4, <1>5, <1>6 DEF RegInv

(* Cancelled preserves RegInv. *)
LEMMA CancelledInv ==
  ASSUME RegInv, NEW c \in Conn, Cancelled(c)
  PROVE  RegInv'
<1> USE RegistryAssumption DEF Cancelled, Goto, RegInv, admin, ident, RegTypeOK
<1>1. RegTypeOK' BY SMTT(20)
<1>2. KeyMatchesName' BY SMTT(20) DEF KeyMatchesName
<1>3. DeleteProgress' BY SMTT(20) DEF DeleteProgress
<1>4. RegisteredIsLive' BY SMTT(20) DEF RegisteredIsLive
<1>5. ReplacedIsStopped' BY SMTT(20) DEF ReplacedIsStopped
<1>6. RevokedIsStopped' BY SMTT(20) DEF RevokedIsStopped
<1> QED BY <1>1, <1>2, <1>3, <1>4, <1>5, <1>6 DEF RegInv

(* SocketEnds preserves RegInv. *)
LEMMA SocketEndsInv ==
  ASSUME RegInv, NEW c \in Conn, SocketEnds(c)
  PROVE  RegInv'
<1> USE RegistryAssumption DEF SocketEnds, Goto, RegInv, admin, ident, RegTypeOK
<1>1. RegTypeOK' BY SMTT(20)
<1>2. KeyMatchesName' BY SMTT(20) DEF KeyMatchesName
<1>3. DeleteProgress' BY SMTT(20) DEF DeleteProgress
<1>4. RegisteredIsLive' BY SMTT(20) DEF RegisteredIsLive
<1>5. ReplacedIsStopped' BY SMTT(20) DEF ReplacedIsStopped
<1>6. RevokedIsStopped' BY SMTT(20) DEF RevokedIsStopped
<1> QED BY <1>1, <1>2, <1>3, <1>4, <1>5, <1>6 DEF RegInv

(* FatalMessage preserves RegInv. *)
LEMMA FatalMessageInv ==
  ASSUME RegInv, NEW c \in Conn, FatalMessage(c)
  PROVE  RegInv'
<1> USE RegistryAssumption DEF FatalMessage, Goto, RegInv, admin, ident, RegTypeOK
<1>1. RegTypeOK' BY SMTT(20)
<1>2. KeyMatchesName' BY SMTT(20) DEF KeyMatchesName
<1>3. DeleteProgress' BY SMTT(20) DEF DeleteProgress
<1>4. RegisteredIsLive' BY SMTT(20) DEF RegisteredIsLive
<1>5. ReplacedIsStopped' BY SMTT(20) DEF ReplacedIsStopped
<1>6. RevokedIsStopped' BY SMTT(20) DEF RevokedIsStopped
<1> QED BY <1>1, <1>2, <1>3, <1>4, <1>5, <1>6 DEF RegInv

(* PingTick preserves RegInv. *)
LEMMA PingTickInv ==
  ASSUME RegInv, NEW c \in Conn, PingTick(c)
  PROVE  RegInv'
<1> USE RegistryAssumption DEF PingTick, Goto, RegInv, admin, ident, RegTypeOK
<1>1. RegTypeOK' BY SMTT(20)
<1>2. KeyMatchesName' BY SMTT(20) DEF KeyMatchesName
<1>3. DeleteProgress' BY SMTT(20) DEF DeleteProgress
<1>4. RegisteredIsLive' BY SMTT(20) DEF RegisteredIsLive
<1>5. ReplacedIsStopped' BY SMTT(20) DEF ReplacedIsStopped
<1>6. RevokedIsStopped' BY SMTT(20) DEF RevokedIsStopped
<1> QED BY <1>1, <1>2, <1>3, <1>4, <1>5, <1>6 DEF RegInv

(* SendFails preserves RegInv. *)
LEMMA SendFailsInv ==
  ASSUME RegInv, NEW c \in Conn, SendFails(c)
  PROVE  RegInv'
<1> USE RegistryAssumption DEF SendFails, Goto, RegInv, admin, ident, RegTypeOK
<1>1. RegTypeOK' BY SMTT(20)
<1>2. KeyMatchesName' BY SMTT(20) DEF KeyMatchesName
<1>3. DeleteProgress' BY SMTT(20) DEF DeleteProgress
<1>4. RegisteredIsLive' BY SMTT(20) DEF RegisteredIsLive
<1>5. ReplacedIsStopped' BY SMTT(20) DEF ReplacedIsStopped
<1>6. RevokedIsStopped' BY SMTT(20) DEF RevokedIsStopped
<1> QED BY <1>1, <1>2, <1>3, <1>4, <1>5, <1>6 DEF RegInv

(* Pong preserves RegInv. *)
LEMMA PongInv ==
  ASSUME RegInv, NEW c \in Conn, Pong(c)
  PROVE  RegInv'
<1> USE RegistryAssumption DEF Pong, Goto, RegInv, admin, ident, RegTypeOK
<1>1. RegTypeOK' BY SMTT(20)
<1>2. KeyMatchesName' BY SMTT(20) DEF KeyMatchesName
<1>3. DeleteProgress' BY SMTT(20) DEF DeleteProgress
<1>4. RegisteredIsLive' BY SMTT(20) DEF RegisteredIsLive
<1>5. ReplacedIsStopped' BY SMTT(20) DEF ReplacedIsStopped
<1>6. RevokedIsStopped' BY SMTT(20) DEF RevokedIsStopped
<1> QED BY <1>1, <1>2, <1>3, <1>4, <1>5, <1>6 DEF RegInv

(* Only the generation that leaves gives up the name. *)
LEMMA RemoveInv ==
  ASSUME RegInv, NEW c \in Conn, Remove(c)
  PROVE  RegInv'
<1> USE RegistryAssumption DEF Remove, Goto, RegInv, admin, ident, RegTypeOK
<1>1. RegTypeOK' BY SMTT(20)
<1>2. KeyMatchesName' BY SMTT(20) DEF KeyMatchesName
<1>3. DeleteProgress' BY SMTT(20) DEF DeleteProgress
<1>4. RegisteredIsLive' BY SMTT(20) DEF RegisteredIsLive
<1>5. ReplacedIsStopped' BY SMTT(20) DEF ReplacedIsStopped, RegisteredIsLive
<1>6. RevokedIsStopped' BY SMTT(20) DEF RevokedIsStopped
<1> QED BY <1>1, <1>2, <1>3, <1>4, <1>5, <1>6 DEF RegInv

(* Disconnected preserves RegInv. *)
LEMMA DisconnectedInv ==
  ASSUME RegInv, NEW c \in Conn, Disconnected(c)
  PROVE  RegInv'
<1> USE RegistryAssumption DEF Disconnected, Goto, RegInv, admin, ident, RegTypeOK
<1>1. RegTypeOK' BY SMTT(20)
<1>2. KeyMatchesName' BY SMTT(20) DEF KeyMatchesName
<1>3. DeleteProgress' BY SMTT(20) DEF DeleteProgress
<1>4. RegisteredIsLive' BY SMTT(20) DEF RegisteredIsLive
<1>5. ReplacedIsStopped' BY SMTT(20) DEF ReplacedIsStopped
<1>6. RevokedIsStopped' BY SMTT(20) DEF RevokedIsStopped
<1> QED BY <1>1, <1>2, <1>3, <1>4, <1>5, <1>6 DEF RegInv

(* PeerLost preserves RegInv. *)
LEMMA PeerLostInv ==
  ASSUME RegInv, NEW c \in Conn, PeerLost(c)
  PROVE  RegInv'
<1> USE RegistryAssumption DEF PeerLost, Goto, RegInv, admin, ident, RegTypeOK
<1>1. RegTypeOK' BY SMTT(20)
<1>2. KeyMatchesName' BY SMTT(20) DEF KeyMatchesName
<1>3. DeleteProgress' BY SMTT(20) DEF DeleteProgress
<1>4. RegisteredIsLive' BY SMTT(20) DEF RegisteredIsLive
<1>5. ReplacedIsStopped' BY SMTT(20) DEF ReplacedIsStopped
<1>6. RevokedIsStopped' BY SMTT(20) DEF RevokedIsStopped
<1> QED BY <1>1, <1>2, <1>3, <1>4, <1>5, <1>6 DEF RegInv

(* RegInv is preserved by every step. *)
LEMMA RegNextInv == RegInv /\ [RegNext]_regVars => RegInv'
<1> SUFFICES ASSUME RegInv, [RegNext]_regVars PROVE RegInv'
  OBVIOUS
<1>1. ASSUME NEW k \in Key, Admin(k) PROVE RegInv'
  BY <1>1, AddKeyInv, CliRemoveKeyInv, FindKeyInv, DeleteKeyRowInv, RevokeKeyInv, BumpAgentInv, AbortDeleteInv DEF Admin
<1>2. ASSUME NEW c \in Conn, Connection(c) \/ Disconnected(c) PROVE RegInv'
  BY <1>2, UpgradeInv, SendHelloInv, RefuseInv, RegisterInv, CancelledInv, SocketEndsInv, FatalMessageInv, PingTickInv, SendFailsInv, PongInv, RemoveInv, DisconnectedInv, PeerLostInv DEF Connection
<1>3. CASE UNCHANGED regVars
  BY <1>3 DEF regVars, admin, ident, RegInv, RegTypeOK, KeyMatchesName, DeleteProgress,
     RegisteredIsLive, ReplacedIsStopped, RevokedIsStopped
<1> QED BY <1>1, <1>2, <1>3 DEF RegNext

(* The invariant of the agent registry: types, the names keys are issued   *)
(* for, and the three safety properties below.                             *)
THEOREM RegistryInvariance == RegSpec => []RegInv
<1>1. RegInit => RegInv
  BY RegInitInv
<1>2. RegInv /\ [RegNext]_regVars => RegInv'
  BY RegNextInv
<1> QED BY <1>1, <1>2, PTL DEF RegSpec

(* AgentRegistry::remove is reached by every connection and takes away     *)
(* only its own entry.                                                     *)
THEOREM RegistryHoldsLive == RegSpec => []RegisteredIsLive
<1>1. RegInv => RegisteredIsLive
  BY DEF RegInv
<1> QED BY <1>1, RegistryInvariance, PTL

(* A connection that lost its name has been told to stop.                  *)
THEOREM ReplacedStopped == RegSpec => []ReplacedIsStopped
<1>1. RegInv => ReplacedIsStopped
  BY DEF RegInv
<1> QED BY <1>1, RegistryInvariance, PTL

(* revoke_key and register close the race between a deletion and an        *)
(* upgrade that authenticated before it.                                   *)
THEOREM RevokedStopped == RegSpec => []RevokedIsStopped
<1>1. RegInv => RevokedIsStopped
  BY DEF RegInv
<1> QED BY <1>1, RegistryInvariance, PTL

(* A completed DELETE request leaves no connection of the key running,     *)
(* provided the request is never dropped half way.                         *)
THEOREM DeletedStopped == ~ClientAborts => (RegSpec => []DeletedIsStopped)
<1> SUFFICES ASSUME ~ClientAborts PROVE RegSpec => []DeletedIsStopped
  OBVIOUS
<1>1. RegInv => DeletedIsStopped
  BY RegistryAssumption, SMTT(20)
     DEF RegInv, RegTypeOK, DeletedIsStopped, RevokedIsStopped, DeleteProgress
<1> QED BY <1>1, RegistryInvariance, PTL

(* register never takes a name from a connection of another key.           *)
THEOREM KeyedNameKept == RegSpec => NoEviction
<1> DEFINE Kept ==
      \A n \in Name :
        agents[n] # None /\ agents'[n] \notin {agents[n], None} =>
          ckey[agents[n]] = ckey[agents'[n]] \/ None \in {ckey[agents[n]], ckey[agents'[n]]}
<1>1. ASSUME RegInv, [RegNext]_regVars PROVE Kept \/ UNCHANGED regVars
  <2>1. ASSUME NEW c \in Conn, Register(c) PROVE Kept
    BY <1>1, <2>1, RegistryAssumption
       DEF Register, Refused, HeldByOtherKey, ident, RegInv, RegTypeOK
  <2>2. ASSUME NEW c \in Conn, Remove(c) PROVE Kept
    BY <2>2 DEF Remove
  <2>3. CASE UNCHANGED agents
    BY <2>3
  <2>4. ASSUME NEW k \in Key, Admin(k) PROVE UNCHANGED agents
    BY <2>4 DEF Admin, AddKey, CliRemoveKey, FindKey, DeleteKeyRow, RevokeKey, BumpAgent,
       AbortDelete
  <2>5. ASSUME NEW c \in Conn, Connection(c) \/ Disconnected(c)
        PROVE  Register(c) \/ Remove(c) \/ UNCHANGED agents
    BY <2>5 DEF Connection, Upgrade, SendHello, Refuse, Cancelled, SocketEnds, FatalMessage,
       PingTick, SendFails, Pong, Disconnected, PeerLost
  <2> QED BY <1>1, <2>1, <2>2, <2>3, <2>4, <2>5 DEF RegNext
<1>2. RegInv /\ [RegNext]_regVars => [Kept]_regVars
  BY <1>1
<1> QED BY <1>2, RegistryInvariance, PTL DEF RegSpec, NoEviction

-----------------------------------------------------------------------------
(* The composed system. *)

(* A step of a request, an upload or a browser leaves the registry alone;  *)
(* a control message that cannot be written is a failed send, and          *)
(* fail_pending runs in the teardown of its connection.                    *)
LEMMA PcapStepIsRegStep == [PcapNext]_allVars => [RegNext]_regVars
<1> SUFFICES ASSUME [PcapNext]_allVars PROVE [RegNext]_regVars
  OBVIOUS
<1>1. ASSUME NEW r \in Req, Request(r) \/ Environment(r) PROVE UNCHANGED regVars
  <2>1. CASE Supervisor(r)
    BY <2>1 DEF Supervisor, StreamCheck, NextChunk, Forward, StreamAborts, StreamIdle, SendDone
  <2>2. CASE Request(r) /\ ~Supervisor(r)
    BY <2>2 DEF Request, Route, ProbeOk, ProbeFails, RegisterTask, Dispatch, WaitCheck,
       FirstChunk, WaitTimeout, BodyCloses, TakeResult, UploadChanged
  <2>3. CASE Environment(r)
    BY <2>3 DEF Environment, ClientAbandons, BrowserReads, BrowserEnds, BrowserGone, Upload,
       FindTask, BeginUpload, SendChunk, CompleteUpload, FailUpload, AgentResult
  <2> QED BY <1>1, <2>1, <2>2, <2>3
<1>2. ASSUME NEW c \in Conn, WriteControl(c) PROVE SendFails(c) \/ UNCHANGED regVars
  BY <1>2 DEF WriteControl
<1>3. ASSUME NEW c \in Conn, FailPending(c) PROVE Disconnected(c)
  BY <1>3 DEF FailPending
<1>4. CASE UNCHANGED allVars
  BY <1>4 DEF allVars
<1> QED BY <1>1, <1>2, <1>3, <1>4 DEF PcapNext, RegNext, Connection

(* The composed system implements the registry: no request, upload or      *)
(* result ever registers, removes or revokes a connection.                 *)
THEOREM PcapImplementsRegistry == PcapSpec => RegSpec
<1>1. PcapInit => RegInit
  BY DEF PcapInit
<1> QED BY <1>1, PcapStepIsRegStep, PTL DEF PcapSpec, RegSpec

(* The registry keeps its promises while captures are served: entries      *)
(* belong to running connections, and replaced or revoked connections      *)
(* have been stopped.                                                      *)
THEOREM PcapKeepsRegistry ==
  PcapSpec => [](RegisteredIsLive /\ ReplacedIsStopped /\ RevokedIsStopped)
<1>1. RegInv => RegisteredIsLive /\ ReplacedIsStopped /\ RevokedIsStopped
  BY DEF RegInv
<1> QED BY <1>1, PcapImplementsRegistry, RegistryInvariance, PTL


-----------------------------------------------------------------------------
(* What the actions of one request leave alone for another.                *)
Untouched(q) ==
  /\ req'[q] = req[q] /\ task'[q] = task[q] /\ up'[q] = up[q] /\ resp'[q] = resp[q]
  /\ ajob'[q] = ajob[q]
  /\ \A s \in Conn : q \in lane'[s] => q \in lane[s]

(* A job no step touches stays as it is while connections stand still.     *)
LEMMA UntouchedJob ==
  ASSUME NEW q, JobInv(q), Untouched(q), UNCHANGED cpc
  PROVE  JobInv(q)'
<1>1. JobStarts(q)'
  BY DEF JobInv, Untouched, JobStarts, Unregistered, Early, InProgress
<1>2. ChunksAccounted(q)'
  BY DEF JobInv, Untouched, ChunksAccounted, Early
<1>3. EndVerified(q)'
  BY DEF JobInv, Untouched, EndVerified
<1>4. DoorClosed(q)'
  BY DEF JobInv, Untouched, DoorClosed
<1>5. Bound(q)'
  BY DEF JobInv, Untouched, Bound, Early
<1>6. LaneHeld(q)'
  BY DEF JobInv, Untouched, LaneHeld
<1> QED
  BY <1>1, <1>2, <1>3, <1>4, <1>5, <1>6 DEF JobInv

(* A step of request r leaves the control queues alone, or queues a        *)
(* message about r, which is dispatched by then.                           *)
Posts(r) ==
  \/ UNCHANGED outq
  \/ /\ ~Early(r)'
     /\ \E kind \in {"request", "cancel"}, c \in Conn : TrySend(c, <<kind, r>>)

JobTypes ==
  /\ req \in [Req -> ReqType]
  /\ task \in [Req -> TaskType]
  /\ up \in [Req -> UpType]
  /\ resp \in [Req -> RespType]
  /\ lane \in [Conn -> SUBSET Req]
  /\ ajob \in [Req -> {"none", "running", "cancelled", "done"}]

QueueTypes ==
  outq \in [Conn -> Seq(Messages)] /\ \A c \in Conn : Len(outq[c]) <= OutboundCapacity

(* A step of one request queues at most one message of its own job.        *)
LEMMA QueuesStayTyped ==
  ASSUME PcapInv, NEW r \in Req, Posts(r),
         \A q \in Req : Early(q)' => Early(q)
  PROVE  QueueTypes' /\ QueuedIsDispatched'
<1>1. QueueTypes /\ QueuedIsDispatched
  BY DEF PcapInv, PcapTypeOK, QueueTypes
<1>2. ASSUME NEW c \in Conn, NEW i \in 1 .. Len(outq[c]), NEW q, q = outq[c][i][2] PROVE ~Early(q)'
  <2>1. ~Early(q)
    BY <1>1, <1>2 DEF QueuedIsDispatched
  <2>2. outq[c][i] \in Messages
    BY <1>1, <1>2 DEF QueueTypes
  <2>3. q \in Req
    BY <1>2, <2>2 DEF Messages
  <2> QED
    BY <2>1, <2>3
<1>3. CASE UNCHANGED outq
  <2>1. QueueTypes'
    BY <1>1, <1>3 DEF QueueTypes
  <2>2. QueuedIsDispatched'
    BY <1>2, <1>3 DEF QueuedIsDispatched
  <2> QED
    BY <2>1, <2>2
<1>4. CASE ~Early(r)' /\ \E kind \in {"request", "cancel"}, c \in Conn : TrySend(c, <<kind, r>>)
  <2>1. PICK kind \in {"request", "cancel"}, c \in Conn : TrySend(c, <<kind, r>>)
    BY <1>4
  <2>2. PICK m : m = <<kind, r>>
    OBVIOUS
  <2>3. m \in Messages /\ m[2] = r
    BY <2>2 DEF Messages
  <2>4. PICK s : s = IF Len(outq[c]) < OutboundCapacity THEN Append(outq[c], m) ELSE outq[c]
    OBVIOUS
  <2>5. outq' = [outq EXCEPT ![c] = s]
    BY <2>1, <2>2, <2>4 DEF TrySend
  <2>6. outq[c] \in Seq(Messages) /\ Len(outq[c]) \in Nat /\ Len(outq[c]) <= OutboundCapacity
    BY <1>1 DEF QueueTypes
  <2>7. s \in Seq(Messages) /\ Len(s) <= OutboundCapacity
    BY <2>3, <2>4, <2>6, PcapAssumption
  <2>8. outq' \in [Conn -> Seq(Messages)] /\ outq'[c] = s /\ \A d \in Conn \ {c} : outq'[d] = outq[d]
    BY <1>1, <2>5, <2>7 DEF QueueTypes
  <2>9. QueueTypes'
    BY <1>1, <2>7, <2>8 DEF QueueTypes
  <2>10. ASSUME NEW i \in 1 .. Len(s), NEW q, q = s[i][2] PROVE ~Early(q)'
    <3>1. s[i] = m \/ (i \in 1 .. Len(outq[c]) /\ s[i] = outq[c][i])
      BY <2>4, <2>6, <2>10
    <3> QED
      BY <1>2, <1>4, <2>3, <2>10, <3>1
  <2>11. QueuedIsDispatched'
    BY <1>2, <2>8, <2>10 DEF QueuedIsDispatched
  <2> QED
    BY <2>9, <2>11
<1> QED
  BY <1>3, <1>4 DEF Posts

(* A step of one request keeps the invariant if it keeps that request's    *)
(* part of it.                                                             *)
LEMMA OneRequest ==
  ASSUME PcapInv, NEW r \in Req, JobTypes', JobInv(r)', UNCHANGED cpc, Posts(r),
         Early(r)' => Early(r),
         \A q \in Req \ {r} : Untouched(q)
  PROVE  PcapInv'
<1>1. ASSUME NEW q \in Req PROVE JobInv(q)'
  BY UntouchedJob DEF PcapInv
<1>2. ASSUME NEW q \in Req, Early(q)' PROVE Early(q)
  BY <1>2 DEF Early, Untouched
<1>3. QueueTypes' /\ QueuedIsDispatched'
  BY <1>2, QueuesStayTyped
<1> QED
  BY <1>1, <1>3 DEF PcapInv, PcapTypeOK, JobTypes, QueueTypes

(* What the invariant says of one request.                                 *)
LEMMA JobNow ==
  ASSUME PcapInv, NEW r \in Req
  PROVE  /\ JobTypes /\ JobInv(r)
         /\ req[r] \in ReqType /\ task[r] \in TaskType /\ up[r] \in UpType /\ resp[r] \in RespType
BY DEF PcapInv, PcapTypeOK, JobTypes

-----------------------------------------------------------------------------
(* The browser's end of the body.                                          *)

(* Only the response moves: frames become received chunks, and a clean end *)
(* needs a clean terminal frame behind the last chunk.                     *)
LEMMA RespStep ==
  ASSUME PcapInv, NEW r \in Req, NEW p \in RespType, resp' = [resp EXCEPT ![r] = p],
         UNCHANGED <<cpc, req, task, up, lane, outq, ajob>>,
         p.got + p.frames = req[r].streamed, p.done = resp[r].done,
         p.browser = "clean" => p.done = "clean" /\ p.frames = 0
  PROVE  PcapInv'
<1>1. /\ JobTypes /\ JobInv(r)
      /\ req[r] \in ReqType /\ task[r] \in TaskType /\ up[r] \in UpType /\ resp[r] \in RespType
  BY JobNow
<1>2. /\ JobTypes' /\ resp'[r] = p
      /\ \A q \in Req \ {r} : Untouched(q)
  BY <1>1 DEF JobTypes, Untouched
<1>3. JobStarts(r)'
  BY <1>1 DEF JobInv, JobStarts, Unregistered, Early, InProgress
<1>4. ChunksAccounted(r)'
  BY <1>1, <1>2 DEF JobInv, ChunksAccounted, Early
<1>5. EndVerified(r)' /\ DoorClosed(r)'
  BY <1>1, <1>2 DEF JobInv, EndVerified, DoorClosed
<1>6. Bound(r)' /\ LaneHeld(r)'
  BY <1>1, <1>2 DEF JobInv, Bound, LaneHeld, Early
<1>7. Posts(r) /\ (Early(r)' => Early(r))
  BY DEF Posts, Early
<1> QED
  BY <1>2, <1>3, <1>4, <1>5, <1>6, <1>7, OneRequest DEF JobInv

(* The browser takes a frame of the response.                              *)
LEMMA BrowserReadsStep ==
  ASSUME PcapInv, NEW r \in Req, BrowserReads(r)
  PROVE  PcapInv'
<1>1. /\ JobTypes /\ JobInv(r) /\ req[r] \in ReqType /\ resp[r] \in RespType
  BY JobNow
<1>2. PICK p : p = [resp[r] EXCEPT !.frames = @ - 1, !.got = @ + 1]
  OBVIOUS
<1>3. /\ resp' = [resp EXCEPT ![r] = p] /\ UNCHANGED <<cpc, req, task, up, lane, outq, ajob>>
      /\ resp[r].frames > 0 /\ resp[r].browser = "open"
  BY <1>1, <1>2 DEF BrowserReads, Streaming, regVars, JobTypes
<1>4. /\ p.frames = resp[r].frames - 1 /\ p.got = resp[r].got + 1
      /\ p.done = resp[r].done /\ p.browser = "open"
  BY <1>1, <1>2, <1>3 DEF RespType
<1>5. resp[r].got + resp[r].frames = req[r].streamed
  BY <1>1 DEF JobInv, ChunksAccounted
<1>6. p.got \in 0 .. MaxBytes /\ p.frames \in 0 .. FrameCapacity /\ p.got + p.frames = req[r].streamed
  BY <1>1, <1>3, <1>4, <1>5, PcapAssumption DEF ReqType, RespType
<1>7. p \in RespType
  BY <1>1, <1>2, <1>6 DEF RespType
<1> QED
  BY <1>3, <1>4, <1>6, <1>7, RespStep

(* The browser sees the end of the response or goes away.                  *)
LEMMA BrowserEndsStep ==
  ASSUME PcapInv, NEW r \in Req, BrowserEnds(r) \/ BrowserGone(r)
  PROVE  PcapInv'
<1>1. /\ JobTypes /\ JobInv(r) /\ req[r] \in ReqType /\ resp[r] \in RespType
  BY JobNow
<1>2. PICK how : /\ how \in {"clean", "error", "gone"}
                 /\ how = "clean" => resp[r].done = "clean" /\ resp[r].frames = 0
                 /\ resp' = [resp EXCEPT ![r].browser = how]
                 /\ UNCHANGED <<cpc, req, task, up, lane, outq, ajob>>
  BY DEF BrowserEnds, BrowserGone, regVars
<1>3. PICK p : p = [resp[r] EXCEPT !.browser = how]
  OBVIOUS
<1>4. resp' = [resp EXCEPT ![r] = p]
  BY <1>1, <1>2, <1>3 DEF JobTypes
<1>5. /\ p.frames = resp[r].frames /\ p.got = resp[r].got /\ p.done = resp[r].done
      /\ p.browser = how /\ p \in RespType
  BY <1>1, <1>2, <1>3 DEF RespType
<1>6. p.got + p.frames = req[r].streamed
  BY <1>1, <1>5 DEF JobInv, ChunksAccounted
<1> QED
  BY <1>2, <1>4, <1>5, <1>6, RespStep

-----------------------------------------------------------------------------
(* The upload.                                                             *)

(* Only the upload moves, for a dispatched job: what is added to the sent  *)
(* chunks is added to the queue, and an upload that ended stays as it is.  *)
LEMMA UpStep ==
  ASSUME PcapInv, NEW r \in Req, NEW u \in UpType, up' = [up EXCEPT ![r] = u],
         UNCHANGED <<cpc, req, task, resp, lane, outq, ajob>>,
         ~Early(r),
         u.queue + up[r].sent = up[r].queue + u.sent,
         req[r].pc \in {"ending", "over"} => u.sent >= up[r].sent,
         u.state # "pending" => ~task[r].held,
         up[r].state = "complete" => u.state = "complete" /\ u.sent = up[r].sent,
         up[r].state = "pending" => u.state = "pending"
  PROVE  PcapInv'
<1>1. /\ JobTypes /\ JobInv(r)
      /\ req[r] \in ReqType /\ task[r] \in TaskType /\ up[r] \in UpType /\ resp[r] \in RespType
  BY JobNow
<1>2. /\ JobTypes' /\ up'[r] = u
      /\ \A q \in Req \ {r} : Untouched(q)
  BY <1>1 DEF JobTypes, Untouched
<1>3. JobStarts(r)'
  BY <1>1, <1>2 DEF JobInv, JobStarts, Unregistered, Early, InProgress
<1>4. ChunksAccounted(r)'
  BY <1>1, <1>2, PcapAssumption DEF JobInv, ChunksAccounted, Early, UpType, ReqType
<1>5. EndVerified(r)' /\ DoorClosed(r)'
  BY <1>1, <1>2 DEF JobInv, EndVerified, DoorClosed
<1>6. Bound(r)' /\ LaneHeld(r)'
  BY <1>1, <1>2 DEF JobInv, Bound, LaneHeld, Early
<1>7. Posts(r) /\ (Early(r)' => Early(r))
  BY DEF Posts, Early
<1> QED
  BY <1>2, <1>3, <1>4, <1>5, <1>6, <1>7, OneRequest DEF JobInv

(* A job that an agent knows, has found or uploads for was dispatched.     *)
LEMMA KnownIsDispatched ==
  ASSUME PcapInv, NEW r \in Req,
         ajob[r] # "none" \/ up[r].found \/ up[r].state # "pending"
  PROVE  ~Early(r)
BY DEF PcapInv, JobInv, JobStarts

(* An upload finds its job in the registry, once.                          *)
LEMMA FindTaskStep ==
  ASSUME PcapInv, NEW r \in Req, FindTask(r)
  PROVE  PcapInv'
<1>1. JobTypes /\ JobInv(r) /\ up[r] \in UpType
  BY JobNow
<1>2. PICK u : u = [up[r] EXCEPT !.found = TRUE]
  OBVIOUS
<1>3. /\ up' = [up EXCEPT ![r] = u] /\ UNCHANGED <<cpc, req, task, resp, lane, outq, ajob>>
      /\ ~Early(r)
  BY <1>1, <1>2, KnownIsDispatched DEF FindTask, regVars, JobTypes
<1>4. /\ u \in UpType /\ u.state = up[r].state /\ u.sent = up[r].sent /\ u.queue = up[r].queue
  BY <1>1, <1>2 DEF UpType
<1>5. /\ u.queue + up[r].sent = up[r].queue + u.sent /\ u.sent >= up[r].sent
  BY <1>1, <1>4, PcapAssumption DEF UpType
<1>6. u.state # "pending" => ~task[r].held
  BY <1>1, <1>4 DEF JobInv, JobStarts
<1> QED
  BY <1>3, <1>4, <1>5, <1>6, UpStep

(* The upload puts a chunk into the body channel.                          *)
LEMMA SendChunkStep ==
  ASSUME PcapInv, NEW r \in Req, SendChunk(r)
  PROVE  PcapInv'
<1>1. JobTypes /\ JobInv(r) /\ up[r] \in UpType
  BY JobNow
<1>2. PICK u : u = [up[r] EXCEPT !.queue = @ + 1, !.sent = @ + 1]
  OBVIOUS
<1>3. /\ up' = [up EXCEPT ![r] = u] /\ UNCHANGED <<cpc, req, task, resp, lane, outq, ajob>>
      /\ ~Early(r)
      /\ up[r].state = "streaming" /\ up[r].sent < MaxBytes /\ up[r].queue < BodyCapacity
  BY <1>1, <1>2, KnownIsDispatched DEF SendChunk, regVars, JobTypes
<1>4. u.state = "streaming" /\ u.sent = up[r].sent + 1 /\ u.queue = up[r].queue + 1
  BY <1>1, <1>2, <1>3 DEF UpType
<1>5. /\ u.queue + up[r].sent = up[r].queue + u.sent /\ u.sent >= up[r].sent
      /\ u.sent \in 0 .. MaxBytes /\ u.queue \in 0 .. BodyCapacity
  BY <1>1, <1>3, <1>4, PcapAssumption DEF UpType
<1>6. u \in UpType
  BY <1>1, <1>2, <1>5 DEF UpType
<1>7. ~task[r].held
  BY <1>1, <1>3 DEF JobInv, JobStarts
<1> QED
  BY <1>3, <1>4, <1>5, <1>6, <1>7, UpStep

(* The upload ends or breaks off, and says which.                          *)
LEMMA UploadEndsStep ==
  ASSUME PcapInv, NEW r \in Req, CompleteUpload(r) \/ FailUpload(r)
  PROVE  PcapInv'
<1>1. JobTypes /\ JobInv(r) /\ up[r] \in UpType
  BY JobNow
<1>2. PICK end : /\ end \in {"complete", "failed"} /\ up' = [up EXCEPT ![r].state = end]
                 /\ up[r].state = "streaming"
                 /\ UNCHANGED <<cpc, req, task, resp, lane, outq, ajob>>
  BY DEF CompleteUpload, FailUpload, regVars
<1>3. PICK u : u = [up[r] EXCEPT !.state = end]
  OBVIOUS
<1>4. up' = [up EXCEPT ![r] = u] /\ ~Early(r)
  BY <1>1, <1>2, <1>3, KnownIsDispatched DEF JobTypes
<1>5. u \in UpType /\ u.state = end /\ u.sent = up[r].sent /\ u.queue = up[r].queue
  BY <1>1, <1>2, <1>3 DEF UpType, UploadStates
<1>6. u.queue + up[r].sent = up[r].queue + u.sent /\ u.sent >= up[r].sent
  BY <1>1, <1>5, PcapAssumption DEF UpType
<1>7. ~task[r].held
  BY <1>1, <1>2 DEF JobInv, JobStarts
<1> QED
  BY <1>2, <1>4, <1>5, <1>6, <1>7, UpStep

(* begin_upload: the body sender is claimed once, and never after a result *)
(* that promised no upload.                                                *)
LEMMA BeginUploadStep ==
  ASSUME PcapInv, NEW r \in Req, BeginUpload(r)
  PROVE  PcapInv'
<1>1. /\ JobTypes /\ JobInv(r)
      /\ req[r] \in ReqType /\ task[r] \in TaskType /\ up[r] \in UpType /\ resp[r] \in RespType
  BY JobNow
<1>2. PICK u : u = [up[r] EXCEPT !.state = "streaming"]
  OBVIOUS
<1>3. PICK t : t = [task[r] EXCEPT !.held = FALSE]
  OBVIOUS
<1>4. /\ up' = [up EXCEPT ![r] = u] /\ task' = [task EXCEPT ![r] = t]
      /\ UNCHANGED <<cpc, req, resp, lane, outq, ajob>>
      /\ task[r].held /\ task[r].allowed /\ ~Early(r)
  BY <1>1, <1>2, <1>3, KnownIsDispatched DEF BeginUpload, regVars, JobTypes
<1>5. /\ u \in UpType /\ u.state = "streaming" /\ u.found = up[r].found /\ u.sent = up[r].sent
      /\ u.queue = up[r].queue
  BY <1>1, <1>2 DEF UpType, UploadStates
<1>6. /\ t \in TaskType /\ t.held = FALSE /\ t.listed = task[r].listed /\ t.allowed = task[r].allowed
      /\ t.waiting = task[r].waiting /\ t.result = task[r].result
  BY <1>1, <1>3 DEF TaskType
<1>7. /\ JobTypes' /\ up'[r] = u /\ task'[r] = t
      /\ \A q \in Req \ {r} : Untouched(q)
  BY <1>1, <1>4, <1>5, <1>6 DEF JobTypes, Untouched
<1>8. up[r].state = "pending"
  BY <1>1, <1>4 DEF JobInv, JobStarts
<1>9. JobStarts(r)'
  BY <1>1, <1>4, <1>5, <1>6, <1>7 DEF JobInv, JobStarts, Unregistered, Early, InProgress
<1>10. ChunksAccounted(r)'
  BY <1>1, <1>4, <1>5, <1>7 DEF JobInv, ChunksAccounted, Early
<1>11. EndVerified(r)' /\ DoorClosed(r)'
  BY <1>1, <1>4, <1>5, <1>6, <1>7, <1>8 DEF JobInv, EndVerified, DoorClosed
<1>12. Bound(r)' /\ LaneHeld(r)'
  BY <1>1, <1>4, <1>6, <1>7 DEF JobInv, Bound, LaneHeld, Early
<1>13. Posts(r) /\ (Early(r)' => Early(r))
  BY <1>4 DEF Posts, Early
<1> QED
  BY <1>4, <1>7, <1>9, <1>10, <1>11, <1>12, <1>13, OneRequest DEF JobInv

-----------------------------------------------------------------------------
(* The request.                                                            *)

(* Only the control point, the snapshot and the open flag move, and the    *)
(* request stays in the same phase of its life.                            *)
SamePhase(p, q) ==
  \/ p \in {"probing", "probed"} /\ q \in {"probing", "probed"}
  \/ p \in {"check", "select"} /\ q \in {"check", "select"}
  \/ p \in {"scheck", "sselect"} /\ q \in {"scheck", "sselect"}

(* A step of the handler or supervisor within its phase.                   *)
LEMMA ReqStep ==
  ASSUME PcapInv, NEW r \in Req, NEW x \in ReqType, req' = [req EXCEPT ![r] = x],
         UNCHANGED <<cpc, task, up, resp, lane, outq, ajob>>,
         SamePhase(req[r].pc, x.pc),
         x.via = req[r].via, x.terminal = req[r].terminal, x.streamed = req[r].streamed,
         x.outcome = req[r].outcome,
         x.snap = "complete" => up[r].state = "complete"
  PROVE  PcapInv'
<1>1. /\ JobTypes /\ JobInv(r)
      /\ req[r] \in ReqType /\ task[r] \in TaskType /\ up[r] \in UpType /\ resp[r] \in RespType
  BY JobNow
<1>2. /\ JobTypes' /\ req'[r] = x
      /\ \A q \in Req \ {r} : Untouched(q)
  BY <1>1 DEF JobTypes, Untouched
<1>3. JobStarts(r)'
  BY <1>1, <1>2 DEF JobInv, JobStarts, Unregistered, Early, InProgress, SamePhase
<1>4. ChunksAccounted(r)'
  BY <1>1, <1>2 DEF JobInv, ChunksAccounted, Early, SamePhase
<1>5. EndVerified(r)' /\ DoorClosed(r)'
  BY <1>1, <1>2 DEF JobInv, EndVerified, DoorClosed, SamePhase
<1>6. Bound(r)' /\ LaneHeld(r)'
  BY <1>1, <1>2 DEF JobInv, Bound, LaneHeld, Early, SamePhase
<1>7. Posts(r) /\ (Early(r)' => Early(r))
  BY <1>2 DEF Posts, Early, SamePhase
<1> QED
  BY <1>2, <1>3, <1>4, <1>5, <1>6, <1>7, OneRequest DEF JobInv

(* The agent answered the probe, and the request goes on.                  *)
LEMMA ProbeOkStep ==
  ASSUME PcapInv, NEW r \in Req, ProbeOk(r)
  PROVE  PcapInv'
<1>1. JobTypes /\ JobInv(r) /\ req[r] \in ReqType
  BY JobNow
<1>2. PICK x : x = [req[r] EXCEPT !.pc = "probed"]
  OBVIOUS
<1>3. /\ req' = [req EXCEPT ![r] = x] /\ UNCHANGED <<cpc, task, up, resp, lane, outq, ajob>>
      /\ req[r].pc = "probing"
  BY <1>1, <1>2 DEF ProbeOk, Goes, regVars, JobTypes
<1>4. /\ x \in ReqType /\ x.pc = "probed" /\ x.via = req[r].via /\ x.terminal = req[r].terminal
      /\ x.streamed = req[r].streamed /\ x.outcome = req[r].outcome /\ x.snap = req[r].snap
  BY <1>1, <1>2 DEF ReqType, ReqPcs
<1>5. x.snap = "complete" => up[r].state = "complete"
  BY <1>1, <1>4 DEF JobInv, EndVerified
<1> QED
  BY <1>3, <1>4, <1>5, ReqStep DEF SamePhase

(* The body channel is closed and drained.                                 *)
LEMMA BodyClosesStep ==
  ASSUME PcapInv, NEW r \in Req, BodyCloses(r)
  PROVE  PcapInv'
<1>1. JobTypes /\ JobInv(r) /\ req[r] \in ReqType
  BY JobNow
<1>2. PICK x : x = [req[r] EXCEPT !.pc = Top(r), !.open = FALSE]
  OBVIOUS
<1>3. /\ req' = [req EXCEPT ![r] = x] /\ UNCHANGED <<cpc, task, up, resp, lane, outq, ajob>>
      /\ req[r].pc \in {"select", "sselect"} /\ SamePhase(req[r].pc, Top(r)) /\ Top(r) \in ReqPcs
  BY <1>1, <1>2 DEF BodyCloses, Top, regVars, JobTypes, SamePhase, ReqPcs
<1>4. /\ x \in ReqType /\ x.pc = Top(r) /\ x.via = req[r].via /\ x.terminal = req[r].terminal
      /\ x.streamed = req[r].streamed /\ x.outcome = req[r].outcome /\ x.snap = req[r].snap
  BY <1>1, <1>2, <1>3 DEF ReqType
<1>5. x.snap = "complete" => up[r].state = "complete"
  BY <1>1, <1>4 DEF JobInv, EndVerified
<1> QED
  BY <1>3, <1>4, <1>5, ReqStep

(* The handler or supervisor is told that the upload's state has changed.  *)
LEMMA UploadChangedStep ==
  ASSUME PcapInv, NEW r \in Req, UploadChanged(r)
  PROVE  PcapInv'
<1>1. JobTypes /\ JobInv(r) /\ req[r] \in ReqType /\ up[r] \in UpType
  BY JobNow
<1>2. PICK s : s = IF req[r].pc = "select" THEN req[r].snap ELSE up[r].state
  OBVIOUS
<1>3. PICK x : x = [req[r] EXCEPT !.pc = Top(r), !.snap = s]
  OBVIOUS
<1>4. /\ req' = [req EXCEPT ![r] = x] /\ UNCHANGED <<cpc, task, up, resp, lane, outq, ajob>>
      /\ req[r].pc \in {"select", "sselect"} /\ SamePhase(req[r].pc, Top(r)) /\ Top(r) \in ReqPcs
  BY <1>1, <1>2, <1>3 DEF UploadChanged, Top, regVars, JobTypes, SamePhase, ReqPcs
<1>5. s \in UploadStates /\ (s = "complete" => up[r].state = "complete")
  BY <1>1, <1>2 DEF ReqType, UpType, JobInv, EndVerified
<1>6. /\ x \in ReqType /\ x.pc = Top(r) /\ x.via = req[r].via /\ x.terminal = req[r].terminal
      /\ x.streamed = req[r].streamed /\ x.outcome = req[r].outcome /\ x.snap = s
  BY <1>1, <1>3, <1>4, <1>5 DEF ReqType
<1> QED
  BY <1>4, <1>5, <1>6, ReqStep

(* The result is taken out of the job's channel.                           *)
LEMMA TakeResultStep ==
  ASSUME PcapInv, NEW r \in Req, TakeResult(r)
  PROVE  PcapInv'
<1>1. /\ JobTypes /\ JobInv(r)
      /\ req[r] \in ReqType /\ task[r] \in TaskType /\ up[r] \in UpType /\ resp[r] \in RespType
  BY JobNow
<1>2. PICK x : x = [req[r] EXCEPT !.pc = Top(r), !.terminal = task[r].result]
  OBVIOUS
<1>3. PICK t : t = [task[r] EXCEPT !.result = None]
  OBVIOUS
<1>4. /\ req' = [req EXCEPT ![r] = x] /\ task' = [task EXCEPT ![r] = t]
      /\ UNCHANGED <<cpc, up, resp, lane, outq, ajob>>
      /\ req[r].pc \in {"select", "sselect"} /\ SamePhase(req[r].pc, Top(r)) /\ Top(r) \in ReqPcs
  BY <1>1, <1>2, <1>3 DEF TakeResult, Top, regVars, JobTypes, SamePhase, ReqPcs
<1>5. /\ x \in ReqType /\ x.pc = Top(r) /\ x.via = req[r].via /\ x.terminal = task[r].result
      /\ x.streamed = req[r].streamed /\ x.outcome = req[r].outcome /\ x.snap = req[r].snap
  BY <1>1, <1>2, <1>4 DEF ReqType, TaskType
<1>6. /\ t \in TaskType /\ t.held = task[r].held /\ t.listed = task[r].listed
      /\ t.allowed = task[r].allowed /\ t.waiting = task[r].waiting /\ t.result = None
  BY <1>1, <1>3 DEF TaskType
<1>7. /\ JobTypes' /\ req'[r] = x /\ task'[r] = t
      /\ \A q \in Req \ {r} : Untouched(q)
  BY <1>1, <1>4, <1>5, <1>6 DEF JobTypes, Untouched
<1>8. JobStarts(r)'
  BY <1>1, <1>4, <1>5, <1>6, <1>7 DEF JobInv, JobStarts, Unregistered, Early, InProgress, SamePhase
<1>9. ChunksAccounted(r)'
  BY <1>1, <1>4, <1>5, <1>7 DEF JobInv, ChunksAccounted, Early, SamePhase
<1>10. EndVerified(r)'
  BY <1>1, <1>4, <1>5, <1>7 DEF JobInv, EndVerified, SamePhase
<1>11. DoorClosed(r)'
  BY <1>1, <1>4, <1>5, <1>6, <1>7 DEF JobInv, DoorClosed
<1>12. Bound(r)' /\ LaneHeld(r)'
  BY <1>1, <1>4, <1>5, <1>6, <1>7 DEF JobInv, Bound, LaneHeld, Early, SamePhase
<1>13. Posts(r) /\ (Early(r)' => Early(r))
  BY <1>4, <1>5, <1>7 DEF Posts, Early, SamePhase
<1> QED
  BY <1>4, <1>7, <1>8, <1>9, <1>10, <1>11, <1>12, <1>13, OneRequest DEF JobInv

(* The request is over: its job is unlisted and its lane free.             *)
LEMMA FinishStep ==
  ASSUME PcapInv, NEW r \in Req, NEW outcome \in Outcomes, Finishes(r, outcome), FreeLane(r),
         task' = [task EXCEPT ![r].listed = FALSE],
         UNCHANGED <<cpc, up, resp, ajob>>, Posts(r),
         Early(r) \/ req[r].pc \in {"check", "select"},
         outcome = "empty" => up[r].state = "pending" /\ ~task[r].allowed
  PROVE  PcapInv'
<1>1. /\ JobTypes /\ JobInv(r)
      /\ req[r] \in ReqType /\ task[r] \in TaskType /\ up[r] \in UpType /\ resp[r] \in RespType
  BY JobNow
<1>2. PICK x : x = [req[r] EXCEPT !.pc = "over", !.outcome = outcome]
  OBVIOUS
<1>3. PICK t : t = [task[r] EXCEPT !.listed = FALSE]
  OBVIOUS
<1>4. req' = [req EXCEPT ![r] = x] /\ task' = [task EXCEPT ![r] = t]
  BY <1>1, <1>2, <1>3 DEF Finishes, JobTypes
<1>5. /\ x \in ReqType /\ x.pc = "over" /\ x.via = req[r].via /\ x.terminal = req[r].terminal
      /\ x.streamed = req[r].streamed /\ x.outcome = outcome /\ x.snap = req[r].snap
  BY <1>1, <1>2 DEF ReqType, ReqPcs
<1>6. /\ t \in TaskType /\ t.held = task[r].held /\ t.listed = FALSE
      /\ t.allowed = task[r].allowed /\ t.waiting = task[r].waiting /\ t.result = task[r].result
  BY <1>1, <1>3 DEF TaskType
<1>7. /\ JobTypes' /\ req'[r] = x /\ task'[r] = t
      /\ \A q \in Req \ {r} : Untouched(q)
  BY <1>1, <1>4, <1>5, <1>6 DEF JobTypes, Untouched, FreeLane
<1>8. JobStarts(r)'
  BY <1>1, <1>5, <1>6, <1>7 DEF JobInv, JobStarts, Unregistered, Early, InProgress
<1>9. req[r].streamed = 0 /\ ChunksAccounted(r)'
  BY <1>1, <1>5, <1>7 DEF JobInv, ChunksAccounted, Early
<1>10. EndVerified(r)'
  BY <1>1, <1>5, <1>7, <1>9 DEF JobInv, EndVerified
<1>11. DoorClosed(r)'
  BY <1>1, <1>5, <1>6, <1>7 DEF JobInv, DoorClosed
<1>12. Bound(r)' /\ LaneHeld(r)'
  BY <1>1, <1>5, <1>6, <1>7 DEF JobInv, JobTypes, Bound, LaneHeld, Early, FreeLane
<1>13. Early(r)' => Early(r)
  BY <1>5, <1>7 DEF Early
<1> QED
  BY <1>7, <1>8, <1>9, <1>10, <1>11, <1>12, <1>13, OneRequest DEF JobInv

(* RemoteTaskGuard::drop of a request that moves on.                       *)
LEMMA DropPosts ==
  ASSUME PcapInv, NEW r \in Req, NEW cancel \in BOOLEAN, DropGuard(r, cancel),
         cancel => ~Early(r)' /\ req[r].pc \notin {"idle", "over"}
  PROVE  task' = [task EXCEPT ![r].listed = FALSE] /\ Posts(r)
<1>1. CASE cancel
  <2>1. req[r].via \in Conn
    BY <1>1 DEF PcapInv, JobInv, JobStarts
  <2> QED
    BY <1>1, <2>1 DEF DropGuard, Posts
<1>2. CASE ~cancel
  BY <1>2 DEF DropGuard, Posts
<1> QED
  BY <1>1, <1>2

(* A job that was never registered is not listed.                          *)
LEMMA UnlistedStays ==
  ASSUME PcapInv, NEW r \in Req, Unregistered(r), UNCHANGED task
  PROVE  task' = [task EXCEPT ![r].listed = FALSE]
<1>1. task \in [Req -> TaskType] /\ task[r] \in TaskType /\ task[r].listed = FALSE
  BY JobNow DEF JobTypes, JobInv, JobStarts
<1>2. task[r] = [task[r] EXCEPT !.listed = FALSE]
  BY <1>1 DEF TaskType
<1> QED
  BY <1>1, <1>2

(* A finished request is past its dispatch.                                *)
LEMMA NotEarlyAnyMore ==
  ASSUME PcapInv, NEW r \in Req, NEW outcome, Finishes(r, outcome)
  PROVE  ~Early(r)'
BY JobNow DEF Finishes, Early, JobTypes, ReqType

(* The probe fails: the request ends before a job is listed.               *)
LEMMA ProbeFailsStep ==
  ASSUME PcapInv, NEW r \in Req, ProbeFails(r)
  PROVE  PcapInv'
<1>1. /\ Finishes(r, "refused") /\ FreeLane(r) /\ req[r].pc = "probing"
      /\ UNCHANGED <<cpc, up, resp, ajob, outq, task>>
  BY DEF ProbeFails, regVars
<1>2. Unregistered(r) /\ Early(r) /\ Posts(r) /\ "refused" \in Outcomes
  BY <1>1 DEF Unregistered, Early, Posts, Outcomes
<1>3. task' = [task EXCEPT ![r].listed = FALSE]
  BY <1>1, <1>2, UnlistedStays
<1>4. UNCHANGED <<cpc, up, resp, ajob>>
  BY <1>1
<1> QED
  BY <1>1, <1>2, <1>3, <1>4, FinishStep

(* The first chunk did not come in time.                                   *)
LEMMA WaitTimeoutStep ==
  ASSUME PcapInv, NEW r \in Req, WaitTimeout(r)
  PROVE  PcapInv'
<1>1. /\ Finishes(r, "timeout") /\ FreeLane(r) /\ req[r].pc \in {"check", "select"}
      /\ DropGuard(r, TRUE) /\ UNCHANGED <<cpc, up, resp, ajob>>
  BY DEF WaitTimeout, regVars
<1>2. task' = [task EXCEPT ![r].listed = FALSE] /\ Posts(r)
  BY <1>1, NotEarlyAnyMore, DropPosts
<1> QED
  BY <1>1, <1>2, FinishStep DEF Outcomes

(* The browser leaves before the response has begun.                       *)
LEMMA ClientAbandonsStep ==
  ASSUME PcapInv, NEW r \in Req, ClientAbandons(r)
  PROVE  PcapInv'
<1>1. /\ Finishes(r, "client") /\ FreeLane(r) /\ req[r].pc \in {"probing", "check", "select"}
      /\ UNCHANGED <<cpc, up, resp, ajob>>
      /\ IF req[r].pc = "probing" THEN UNCHANGED <<task, outq>> ELSE DropGuard(r, TRUE)
  BY DEF ClientAbandons, regVars
<1>2. task' = [task EXCEPT ![r].listed = FALSE] /\ Posts(r)
  <2>1. CASE req[r].pc = "probing"
    BY <1>1, <2>1, UnlistedStays DEF Unregistered, Posts
  <2>2. CASE req[r].pc # "probing"
    BY <1>1, <2>2, NotEarlyAnyMore, DropPosts
  <2> QED
    BY <2>1, <2>2
<1>3. Early(r) \/ req[r].pc \in {"check", "select"}
  BY <1>1 DEF Early
<1> QED
  BY <1>1, <1>2, <1>3, FinishStep DEF Outcomes

-----------------------------------------------------------------------------
(* classify_result.                                                        *)

(* A verdict is an outcome or "wait"; "complete" confirms the upload to    *)
(* the byte once something was streamed, and "empty" needs a result that   *)
(* promises no upload.                                                     *)
LEMMA VerdictMeans ==
  ASSUME NEW r, NEW state, req[r].terminal \in Result \cup {None}
  PROVE  /\ Verdict(r, state) \in {"wait", "complete", "empty", "failed", "protocol"}
         /\ Verdict(r, state) # "wait" => req[r].terminal \in Result
         /\ Verdict(r, state) = "complete" =>
              /\ req[r].terminal.code = "complete"
              /\ \/ req[r].streamed = 0
                 \/ /\ state = "complete" /\ up[r].sent = req[r].streamed
                    /\ req[r].terminal.bytes = req[r].streamed
         /\ Verdict(r, state) = "empty" =>
              /\ state = "pending" /\ req[r].streamed = 0
              /\ ~PromisesUpload(req[r].terminal)
<1>1. CASE req[r].terminal = None
  BY <1>1 DEF Verdict
<1>2. CASE req[r].terminal # None
  <2>1. PICK res : res = req[r].terminal
    OBVIOUS
  <2>2. PICK v : v = Classify(res, state, req[r].open, req[r].streamed, up[r].sent)
    OBVIOUS
  <2>3. Verdict(r, state) = v /\ res \in Result /\ res.code \in {"complete", "empty", "failed"}
    BY <1>2, <2>1, <2>2 DEF Verdict, Result
  <2>4. CASE res.code = "complete"
    BY <2>1, <2>2, <2>3, <2>4 DEF Classify
  <2>5. CASE res.code = "empty"
    BY <2>1, <2>2, <2>3, <2>5 DEF Classify, PromisesUpload
  <2>6. CASE res.code = "failed"
    BY <2>1, <2>2, <2>3, <2>6 DEF Classify
  <2> QED
    BY <2>3, <2>4, <2>5, <2>6
<1> QED
  BY <1>1, <1>2

(* Before the first chunk a failed upload or a result ends the request.    *)
LEMMA WaitCheckStep ==
  ASSUME PcapInv, NEW r \in Req, WaitCheck(r)
  PROVE  PcapInv'
<1>1. JobTypes /\ JobInv(r) /\ req[r] \in ReqType /\ up[r] \in UpType
  BY JobNow
<1>2. PICK v : v = Verdict(r, up[r].state)
  OBVIOUS
<1>3. req[r].pc = "check" /\ UNCHANGED <<cpc, up, resp, ajob>>
  BY DEF WaitCheck, regVars
<1>4. \/ up[r].state = "failed" /\ Finishes(r, "failed") /\ DropGuard(r, TRUE) /\ FreeLane(r)
      \/ v # "wait" /\ Finishes(r, v) /\ DropGuard(r, FALSE) /\ FreeLane(r)
      \/ /\ req' = [req EXCEPT ![r].pc = "select", ![r].snap = up[r].state]
         /\ UNCHANGED <<task, outq, lane>>
  BY <1>2 DEF WaitCheck
<1>5. CASE up[r].state = "failed" /\ Finishes(r, "failed") /\ DropGuard(r, TRUE) /\ FreeLane(r)
  <2>1. task' = [task EXCEPT ![r].listed = FALSE] /\ Posts(r)
    BY <1>3, <1>5, NotEarlyAnyMore, DropPosts
  <2> QED
    BY <1>3, <1>5, <2>1, FinishStep DEF Outcomes
<1>6. CASE v # "wait" /\ Finishes(r, v) /\ DropGuard(r, FALSE) /\ FreeLane(r)
  <2>1. task' = [task EXCEPT ![r].listed = FALSE] /\ Posts(r)
    BY <1>6, DropPosts
  <2>2. req[r].terminal \in Result \cup {None}
    BY <1>1 DEF ReqType
  <2>3. /\ v \in Outcomes
        /\ v = "empty" => up[r].state = "pending" /\ req[r].terminal \in Result /\ ~PromisesUpload(req[r].terminal)
    BY <1>2, <1>6, <2>2, VerdictMeans DEF Outcomes
  <2>4. req[r].terminal \in Result /\ ~PromisesUpload(req[r].terminal) => ~task[r].allowed
    BY <1>1, PcapAssumption DEF JobInv, DoorClosed
  <2> QED
    BY <1>3, <1>6, <2>1, <2>3, <2>4, FinishStep
<1>7. CASE /\ req' = [req EXCEPT ![r].pc = "select", ![r].snap = up[r].state]
           /\ UNCHANGED <<task, outq, lane>>
  <2>1. PICK x : x = [req[r] EXCEPT !.pc = "select", !.snap = up[r].state]
    OBVIOUS
  <2>2. req' = [req EXCEPT ![r] = x] /\ UNCHANGED <<cpc, task, up, resp, lane, outq, ajob>>
    BY <1>1, <1>3, <1>7, <2>1 DEF JobTypes
  <2>3. /\ x \in ReqType /\ x.pc = "select" /\ x.via = req[r].via /\ x.terminal = req[r].terminal
        /\ x.streamed = req[r].streamed /\ x.outcome = req[r].outcome /\ x.snap = up[r].state
    BY <1>1, <2>1 DEF ReqType, ReqPcs, UpType
  <2> QED
    BY <1>3, <2>2, <2>3, ReqStep DEF SamePhase
<1> QED
  BY <1>4, <1>5, <1>6, <1>7

(* The supervisor comes to its end, having verified what it announces.     *)
LEMMA EndStep ==
  ASSUME PcapInv, NEW r \in Req, NEW outcome \in Outcomes, Ends(r, outcome),
         task' = [task EXCEPT ![r].listed = FALSE],
         UNCHANGED <<cpc, up, resp, lane, ajob>>, Posts(r),
         req[r].pc \in {"scheck", "sselect", "forward"},
         outcome # "empty",
         outcome = "complete" =>
           /\ up[r].state = "complete" /\ up[r].sent = req[r].streamed
           /\ req[r].terminal \in Result
           /\ req[r].terminal.code = "complete" /\ req[r].terminal.bytes = req[r].streamed
  PROVE  PcapInv'
<1>1. /\ JobTypes /\ JobInv(r)
      /\ req[r] \in ReqType /\ task[r] \in TaskType /\ up[r] \in UpType /\ resp[r] \in RespType
  BY JobNow
<1>2. PICK x : x = [req[r] EXCEPT !.pc = "ending", !.outcome = outcome]
  OBVIOUS
<1>3. PICK t : t = [task[r] EXCEPT !.listed = FALSE]
  OBVIOUS
<1>4. req' = [req EXCEPT ![r] = x] /\ task' = [task EXCEPT ![r] = t]
  BY <1>1, <1>2, <1>3 DEF Ends, JobTypes
<1>5. /\ x \in ReqType /\ x.pc = "ending" /\ x.via = req[r].via /\ x.terminal = req[r].terminal
      /\ x.streamed = req[r].streamed /\ x.outcome = outcome /\ x.snap = req[r].snap
  BY <1>1, <1>2 DEF ReqType, ReqPcs
<1>6. /\ t \in TaskType /\ t.held = task[r].held /\ t.listed = FALSE
      /\ t.allowed = task[r].allowed /\ t.waiting = task[r].waiting /\ t.result = task[r].result
  BY <1>1, <1>3 DEF TaskType
<1>7. /\ JobTypes' /\ req'[r] = x /\ task'[r] = t
      /\ \A q \in Req \ {r} : Untouched(q)
  BY <1>1, <1>4, <1>5, <1>6 DEF JobTypes, Untouched
<1>8. JobStarts(r)'
  BY <1>1, <1>5, <1>6, <1>7 DEF JobInv, JobStarts, Unregistered, Early, InProgress
<1>9. ChunksAccounted(r)'
  <2>1. req[r].streamed \in Nat /\ up[r].queue \in Nat /\ up[r].sent \in Nat
    BY <1>1, PcapAssumption DEF ReqType, UpType
  <2> QED
    BY <1>1, <1>5, <1>7, <2>1 DEF JobInv, ChunksAccounted, Early
<1>10. EndVerified(r)'
  BY <1>1, <1>5, <1>7 DEF JobInv, EndVerified
<1>11. DoorClosed(r)'
  BY <1>1, <1>5, <1>6, <1>7 DEF JobInv, DoorClosed
<1>12. Bound(r)' /\ LaneHeld(r)'
  BY <1>1, <1>5, <1>6, <1>7 DEF JobInv, Bound, LaneHeld, Early
<1>13. Early(r)' => Early(r)
  BY <1>5, <1>7 DEF Early
<1> QED
  BY <1>7, <1>8, <1>9, <1>10, <1>11, <1>12, <1>13, OneRequest DEF JobInv

(* A request that ends its stream is past its dispatch.                    *)
LEMMA EndingIsLate ==
  ASSUME PcapInv, NEW r \in Req, NEW outcome, Ends(r, outcome)
  PROVE  ~Early(r)'
BY JobNow DEF Ends, Early, JobTypes, ReqType

(* The stream breaks off: the browser is gone or does not drain, or        *)
(* nothing arrives.                                                        *)
LEMMA StreamAbortsStep ==
  ASSUME PcapInv, NEW r \in Req, StreamAborts(r) \/ StreamIdle(r)
  PROVE  PcapInv'
<1>1. PICK outcome : /\ outcome \in {"client", "timeout"} /\ Ends(r, outcome)
                     /\ DropGuard(r, TRUE) /\ req[r].pc \in {"sselect", "forward"}
                     /\ UNCHANGED <<cpc, up, resp, lane, ajob>>
  BY DEF StreamAborts, StreamIdle, regVars
<1>2. task' = [task EXCEPT ![r].listed = FALSE] /\ Posts(r)
  BY <1>1, EndingIsLate, DropPosts
<1>3. outcome \in Outcomes \ {"empty", "complete"}
  BY <1>1 DEF Outcomes
<1> QED
  BY <1>1, <1>2, <1>3, EndStep

(* The stream ends as result and upload say together, cleanly only when    *)
(* they agree.                                                             *)
LEMMA StreamCheckStep ==
  ASSUME PcapInv, NEW r \in Req, StreamCheck(r)
  PROVE  PcapInv'
<1>1. JobTypes /\ JobInv(r) /\ req[r] \in ReqType /\ up[r] \in UpType
  BY JobNow
<1>2. PICK v : v = Verdict(r, req[r].snap)
  OBVIOUS
<1>3. req[r].pc = "scheck" /\ UNCHANGED <<cpc, up, resp, lane, ajob>>
  BY DEF StreamCheck, regVars
<1>4. \/ Ends(r, "failed") /\ DropGuard(r, TRUE)
      \/ \E cancel \in BOOLEAN : v # "wait" /\ Ends(r, v) /\ DropGuard(r, cancel)
      \/ Goes(r, "sselect") /\ UNCHANGED <<task, outq>>
  BY <1>2 DEF StreamCheck
<1>5. CASE Ends(r, "failed") /\ DropGuard(r, TRUE)
  <2>1. task' = [task EXCEPT ![r].listed = FALSE] /\ Posts(r)
    BY <1>3, <1>5, EndingIsLate, DropPosts
  <2> QED
    BY <1>3, <1>5, <2>1, EndStep DEF Outcomes
<1>6. ASSUME NEW cancel \in BOOLEAN, v # "wait", Ends(r, v), DropGuard(r, cancel)
      PROVE  PcapInv'
  <2>1. task' = [task EXCEPT ![r].listed = FALSE] /\ Posts(r)
    BY <1>3, <1>6, EndingIsLate, DropPosts
  <2>2. req[r].terminal \in Result \cup {None}
    BY <1>1 DEF ReqType
  <2>3. req[r].streamed > 0 /\ req[r].streamed # 0
    BY <1>1, <1>3, PcapAssumption DEF JobInv, ChunksAccounted, ReqType
  <2>4. /\ v \in Outcomes /\ v # "empty"
        /\ v = "complete" =>
             /\ req[r].snap = "complete" /\ up[r].sent = req[r].streamed
             /\ req[r].terminal \in Result
             /\ req[r].terminal.code = "complete" /\ req[r].terminal.bytes = req[r].streamed
    BY <1>2, <1>6, <2>2, <2>3, VerdictMeans DEF Outcomes
  <2>5. req[r].snap = "complete" => up[r].state = "complete"
    BY <1>1 DEF JobInv, EndVerified
  <2> QED
    BY <1>3, <1>6, <2>1, <2>4, <2>5, EndStep
<1>7. CASE Goes(r, "sselect") /\ UNCHANGED <<task, outq>>
  <2>1. PICK x : x = [req[r] EXCEPT !.pc = "sselect"]
    OBVIOUS
  <2>2. req' = [req EXCEPT ![r] = x] /\ UNCHANGED <<cpc, task, up, resp, lane, outq, ajob>>
    BY <1>1, <1>3, <1>7, <2>1 DEF JobTypes, Goes
  <2>3. /\ x \in ReqType /\ x.pc = "sselect" /\ x.via = req[r].via /\ x.terminal = req[r].terminal
        /\ x.streamed = req[r].streamed /\ x.outcome = req[r].outcome /\ x.snap = req[r].snap
    BY <1>1, <2>1 DEF ReqType, ReqPcs
  <2>4. x.snap = "complete" => up[r].state = "complete"
    BY <1>1, <2>3 DEF JobInv, EndVerified
  <2> QED
    BY <1>3, <2>2, <2>3, <2>4, ReqStep DEF SamePhase
<1> QED
  BY <1>4, <1>5, <1>6, <1>7

-----------------------------------------------------------------------------
(* Routing and dispatch.                                                   *)

(* get_pcap: the connection a request is routed over is registered.        *)
LEMMA RouteStep ==
  ASSUME RegInv, PcapInv, NEW r \in Req, Route(r)
  PROVE  PcapInv'
<1>1. /\ JobTypes /\ JobInv(r)
      /\ req[r] \in ReqType /\ task[r] \in TaskType /\ up[r] \in UpType /\ resp[r] \in RespType
  BY JobNow
<1>2. req[r].pc = "idle" /\ UNCHANGED <<cpc, task, up, resp, outq, ajob>>
  BY DEF Route, regVars
<1>3. Unregistered(r) /\ Early(r) /\ Posts(r) /\ "refused" \in Outcomes
  BY <1>2 DEF Unregistered, Early, Posts, Outcomes
<1>4. CASE Finishes(r, "refused") /\ UNCHANGED lane
  <2>1. FreeLane(r)
    BY <1>1, <1>2, <1>4 DEF JobInv, LaneHeld, JobTypes, FreeLane
  <2>2. task' = [task EXCEPT ![r].listed = FALSE]
    BY <1>2, <1>3, UnlistedStays
  <2>3. UNCHANGED <<cpc, up, resp, ajob>>
    BY <1>2
  <2> QED
    BY <1>3, <1>4, <2>1, <2>2, <2>3, FinishStep
<1>5. ASSUME NEW n \in Name, agents[n] # None,
             req' = [req EXCEPT ![r].pc = "probing", ![r].via = agents[n]],
             lane' = [lane EXCEPT ![slot[agents[n]]] = {r}]
      PROVE  PcapInv'
  <2>1. PICK c : c = agents[n]
    OBVIOUS
  <2>2. c \in Conn /\ slot[c] \in Conn /\ cpc[c] \in {"live", "closing"}
    BY <1>5, <2>1 DEF RegInv, RegTypeOK, RegisteredIsLive
  <2>3. PICK x : x = [req[r] EXCEPT !.pc = "probing", !.via = c]
    OBVIOUS
  <2>4. req' = [req EXCEPT ![r] = x] /\ lane' = [lane EXCEPT ![slot[c]] = {r}]
    BY <1>1, <1>5, <2>1, <2>3 DEF JobTypes
  <2>5. /\ x \in ReqType /\ x.pc = "probing" /\ x.via = c /\ x.terminal = req[r].terminal
        /\ x.streamed = req[r].streamed /\ x.outcome = req[r].outcome /\ x.snap = req[r].snap
    BY <1>1, <2>2, <2>3 DEF ReqType, ReqPcs
  <2>6. /\ JobTypes' /\ req'[r] = x
        /\ \A q \in Req \ {r} : Untouched(q)
    BY <1>1, <1>2, <2>2, <2>4, <2>5 DEF JobTypes, Untouched
  <2>7. JobStarts(r)'
    BY <1>1, <1>2, <2>2, <2>5, <2>6 DEF JobInv, JobStarts, Unregistered, Early, InProgress
  <2>8. ChunksAccounted(r)'
    BY <1>1, <1>2, <2>5, <2>6 DEF JobInv, ChunksAccounted, Early
  <2>9. EndVerified(r)' /\ DoorClosed(r)'
    BY <1>1, <1>2, <2>5, <2>6 DEF JobInv, EndVerified, DoorClosed
  <2>10. Bound(r)' /\ LaneHeld(r)'
    BY <1>1, <1>2, <2>2, <2>5, <2>6 DEF JobInv, Bound, LaneHeld, Early
  <2> QED
    BY <1>2, <1>3, <2>6, <2>7, <2>8, <2>9, <2>10, OneRequest DEF JobInv
<1> QED
  BY <1>4, <1>5 DEF Route

(* The job is listed before its request is sent.                           *)
LEMMA RegisterTaskStep ==
  ASSUME PcapInv, NEW r \in Req, RegisterTask(r)
  PROVE  PcapInv'
<1>1. /\ JobTypes /\ JobInv(r)
      /\ req[r] \in ReqType /\ task[r] \in TaskType /\ up[r] \in UpType /\ resp[r] \in RespType
  BY JobNow
<1>2. PICK x : x = [req[r] EXCEPT !.pc = "registered"]
  OBVIOUS
<1>3. PICK t : t = [listed |-> TRUE, held |-> TRUE, allowed |-> TRUE, waiting |-> TRUE, result |-> None]
  OBVIOUS
<1>4. /\ req' = [req EXCEPT ![r] = x] /\ task' = [task EXCEPT ![r] = t]
      /\ UNCHANGED <<cpc, up, resp, lane, outq, ajob>> /\ req[r].pc = "probed"
  BY <1>1, <1>2, <1>3 DEF RegisterTask, Goes, regVars, JobTypes
<1>5. /\ x \in ReqType /\ x.pc = "registered" /\ x.via = req[r].via /\ x.terminal = req[r].terminal
      /\ x.streamed = req[r].streamed /\ x.outcome = req[r].outcome /\ x.snap = req[r].snap
  BY <1>1, <1>2 DEF ReqType, ReqPcs
<1>6. t \in TaskType /\ t.listed = TRUE /\ t.result = None
  BY <1>3 DEF TaskType
<1>7. /\ JobTypes' /\ req'[r] = x /\ task'[r] = t
      /\ \A q \in Req \ {r} : Untouched(q)
  BY <1>1, <1>4, <1>5, <1>6 DEF JobTypes, Untouched
<1>8. JobStarts(r)'
  BY <1>1, <1>4, <1>5, <1>6, <1>7 DEF JobInv, JobStarts, Unregistered, Early, InProgress
<1>9. ChunksAccounted(r)'
  BY <1>1, <1>4, <1>5, <1>7 DEF JobInv, ChunksAccounted, Early
<1>10. EndVerified(r)'
  BY <1>1, <1>4, <1>5, <1>7 DEF JobInv, EndVerified
<1>11. DoorClosed(r)'
  <2>1. req[r].terminal = None /\ req[r].outcome = "none"
    BY <1>1, <1>4 DEF JobInv, JobStarts, EndVerified, Early
  <2> QED
    BY <1>5, <1>6, <1>7, <2>1 DEF DoorClosed
<1>12. Bound(r)' /\ LaneHeld(r)'
  BY <1>1, <1>4, <1>5, <1>7 DEF JobInv, Bound, LaneHeld, Early
<1>13. Posts(r) /\ (Early(r)' => Early(r))
  BY <1>4 DEF Posts, Early
<1> QED
  BY <1>4, <1>7, <1>8, <1>9, <1>10, <1>11, <1>12, <1>13, OneRequest DEF JobInv

(* try_send_current: a connection that still holds its name has not been   *)
(* torn down, so a job that goes out over it will be failed with it.       *)
LEMMA DispatchStep ==
  ASSUME RegInv, PcapInv, NEW r \in Req, Dispatch(r)
  PROVE  PcapInv'
<1>1. /\ JobTypes /\ JobInv(r)
      /\ req[r] \in ReqType /\ task[r] \in TaskType /\ up[r] \in UpType /\ resp[r] \in RespType
  BY JobNow
<1>2. req[r].pc = "registered" /\ UNCHANGED <<cpc, up, resp, ajob>>
  BY DEF Dispatch, regVars
<1>3. CASE Finishes(r, "refused") /\ DropGuard(r, FALSE) /\ FreeLane(r)
  <2>1. task' = [task EXCEPT ![r].listed = FALSE] /\ Posts(r)
    BY <1>3, DropPosts
  <2>2. Early(r)
    BY <1>2 DEF Early
  <2> QED
    BY <1>2, <1>3, <2>1, <2>2, FinishStep DEF Outcomes
<1>4. CASE /\ CanSend(req[r].via) /\ TrySend(req[r].via, <<"request", r>>)
           /\ Goes(r, "check") /\ UNCHANGED <<task, lane>>
  <2>1. PICK x : x = [req[r] EXCEPT !.pc = "check"]
    OBVIOUS
  <2>2. req' = [req EXCEPT ![r] = x]
    BY <1>1, <1>4, <2>1 DEF JobTypes, Goes
  <2>3. /\ x \in ReqType /\ x.pc = "check" /\ x.via = req[r].via /\ x.terminal = req[r].terminal
        /\ x.streamed = req[r].streamed /\ x.outcome = req[r].outcome /\ x.snap = req[r].snap
    BY <1>1, <2>1 DEF ReqType, ReqPcs
  <2>4. /\ JobTypes' /\ req'[r] = x
        /\ \A q \in Req \ {r} : Untouched(q)
    BY <1>1, <1>2, <1>4, <2>2, <2>3 DEF JobTypes, Untouched
  <2>5. req[r].via \in Conn
    BY <1>1, <1>2 DEF JobInv, JobStarts
  <2>6. cpc[req[r].via] \in {"live", "closing"}
    <3>1. PICK c \in Conn : c = req[r].via
      BY <2>5
    <3>2. agents[cname[c]] = c /\ cname[c] \in Name /\ c # None
      BY <1>4, <3>1, RegistryAssumption DEF CanSend, RegInv, RegTypeOK
    <3> QED
      BY <3>1, <3>2 DEF RegInv, RegisteredIsLive
  <2>7. JobStarts(r)'
    BY <1>1, <1>2, <1>4, <2>3, <2>4, <2>5 DEF JobInv, JobStarts, Unregistered, Early, InProgress
  <2>8. ChunksAccounted(r)'
    BY <1>1, <1>2, <2>3, <2>4 DEF JobInv, ChunksAccounted, Early
  <2>9. EndVerified(r)' /\ DoorClosed(r)'
    BY <1>1, <1>2, <1>4, <2>3, <2>4 DEF JobInv, EndVerified, DoorClosed
  <2>10. Bound(r)' /\ LaneHeld(r)'
    BY <1>1, <1>2, <1>4, <2>3, <2>4, <2>6 DEF JobInv, Bound, LaneHeld, Early
  <2>11. ~Early(r)'
    BY <2>3, <2>4 DEF Early
  <2>12. Posts(r)
    BY <1>4, <2>5, <2>11 DEF Posts
  <2> QED
    BY <1>2, <2>4, <2>7, <2>8, <2>9, <2>10, <2>11, <2>12, OneRequest DEF JobInv
<1> QED
  BY <1>3, <1>4 DEF Dispatch

-----------------------------------------------------------------------------
(* The chunks on their way.                                                *)

(* The first chunk starts the response.                                    *)
LEMMA FirstChunkStep ==
  ASSUME PcapInv, NEW r \in Req, FirstChunk(r)
  PROVE  PcapInv'
<1>1. /\ JobTypes /\ JobInv(r)
      /\ req[r] \in ReqType /\ task[r] \in TaskType /\ up[r] \in UpType /\ resp[r] \in RespType
  BY JobNow
<1>2. PICK x : x = [req[r] EXCEPT !.pc = "scheck", !.streamed = 1, !.snap = up[r].state]
  OBVIOUS
<1>3. PICK u : u = [up[r] EXCEPT !.queue = @ - 1]
  OBVIOUS
<1>4. PICK p : p = [resp[r] EXCEPT !.got = 1]
  OBVIOUS
<1>5. /\ req' = [req EXCEPT ![r] = x] /\ up' = [up EXCEPT ![r] = u] /\ resp' = [resp EXCEPT ![r] = p]
      /\ UNCHANGED <<cpc, task, lane, outq, ajob>>
      /\ req[r].pc = "select" /\ up[r].queue > 0
  BY <1>1, <1>2, <1>3, <1>4 DEF FirstChunk, regVars, JobTypes
<1>6. /\ req[r].streamed = 0 /\ up[r].queue = up[r].sent
      /\ resp[r].got = 0 /\ resp[r].frames = 0
  <2>1. /\ req[r].streamed = 0 /\ req[r].streamed + up[r].queue + 0 = up[r].sent
        /\ resp[r].got + resp[r].frames = req[r].streamed
    BY <1>1, <1>5 DEF JobInv, ChunksAccounted
  <2> QED
    BY <1>1, <2>1, PcapAssumption DEF UpType, RespType
<1>7. 1 \in 0 .. MaxBytes /\ up[r].queue - 1 \in 0 .. BodyCapacity
  BY <1>1, <1>5, <1>6, PcapAssumption DEF UpType
<1>8. /\ x \in ReqType /\ x.pc = "scheck" /\ x.via = req[r].via /\ x.terminal = req[r].terminal
      /\ x.streamed = 1 /\ x.outcome = req[r].outcome /\ x.snap = up[r].state
  BY <1>1, <1>2, <1>7 DEF ReqType, ReqPcs, UpType
<1>9. u \in UpType /\ u.state = up[r].state /\ u.found = up[r].found /\ u.sent = up[r].sent /\ u.queue = up[r].queue - 1
  BY <1>1, <1>3, <1>7 DEF UpType
<1>10. p \in RespType /\ p.got = 1 /\ p.frames = 0 /\ p.done = resp[r].done /\ p.browser = resp[r].browser
  BY <1>1, <1>4, <1>6, <1>7 DEF RespType
<1>11. /\ JobTypes' /\ req'[r] = x /\ up'[r] = u /\ resp'[r] = p
       /\ \A q \in Req \ {r} : Untouched(q)
  BY <1>1, <1>5, <1>8, <1>9, <1>10 DEF JobTypes, Untouched
<1>12. JobStarts(r)'
  BY <1>1, <1>5, <1>8, <1>9, <1>11 DEF JobInv, JobStarts, Unregistered, Early, InProgress
<1>13. ChunksAccounted(r)'
  <2>1. up[r].sent \in Nat /\ 1 + u.queue = u.sent
    BY <1>1, <1>6, <1>9, PcapAssumption DEF UpType
  <2> QED
    BY <1>8, <1>9, <1>10, <1>11, <2>1 DEF ChunksAccounted, Early
<1>14. EndVerified(r)' /\ DoorClosed(r)'
  BY <1>1, <1>5, <1>8, <1>9, <1>10, <1>11 DEF JobInv, EndVerified, DoorClosed
<1>15. Bound(r)' /\ LaneHeld(r)'
  BY <1>1, <1>5, <1>8, <1>11 DEF JobInv, Bound, LaneHeld, Early
<1>16. Posts(r) /\ (Early(r)' => Early(r))
  BY <1>5, <1>8, <1>11 DEF Posts, Early
<1> QED
  BY <1>5, <1>11, <1>12, <1>13, <1>14, <1>15, <1>16, OneRequest DEF JobInv

(* A chunk is in the supervisor's hand.  The limit cannot be passed: the   *)
(* upload's own limit is the same.                                         *)
LEMMA NextChunkStep ==
  ASSUME PcapInv, NEW r \in Req, NextChunk(r)
  PROVE  PcapInv'
<1>1. /\ JobTypes /\ JobInv(r)
      /\ req[r] \in ReqType /\ task[r] \in TaskType /\ up[r] \in UpType /\ resp[r] \in RespType
  BY JobNow
<1>2. PICK x : x = [req[r] EXCEPT !.pc = "forward"]
  OBVIOUS
<1>3. PICK u : u = [up[r] EXCEPT !.queue = @ - 1]
  OBVIOUS
<1>4. /\ req[r].pc = "sselect" /\ up[r].queue > 0
      /\ up' = [up EXCEPT ![r] = u] /\ UNCHANGED <<cpc, resp, lane, ajob>>
  BY <1>1, <1>3 DEF NextChunk, regVars, JobTypes
<1>5. /\ req[r].streamed + up[r].queue = up[r].sent /\ req[r].streamed < MaxBytes
      /\ req[r].streamed \in Nat /\ up[r].queue \in Nat /\ up[r].sent \in Nat
  <2>1. req[r].streamed + up[r].queue + 0 = up[r].sent
    BY <1>1, <1>4 DEF JobInv, ChunksAccounted
  <2> QED
    BY <1>1, <1>4, <2>1, PcapAssumption DEF ReqType, UpType
<1>6. req' = [req EXCEPT ![r] = x] /\ UNCHANGED <<task, outq>>
  BY <1>1, <1>2, <1>5 DEF NextChunk, Goes, JobTypes
<1>7. /\ x \in ReqType /\ x.pc = "forward" /\ x.via = req[r].via /\ x.terminal = req[r].terminal
      /\ x.streamed = req[r].streamed /\ x.outcome = req[r].outcome /\ x.snap = req[r].snap
  BY <1>1, <1>2 DEF ReqType, ReqPcs
<1>8. up[r].queue - 1 \in 0 .. BodyCapacity
  BY <1>1, <1>4, PcapAssumption DEF UpType
<1>9. u \in UpType /\ u.state = up[r].state /\ u.found = up[r].found /\ u.sent = up[r].sent /\ u.queue = up[r].queue - 1
  BY <1>1, <1>3, <1>8 DEF UpType
<1>10. /\ JobTypes' /\ req'[r] = x /\ up'[r] = u
       /\ \A q \in Req \ {r} : Untouched(q)
  BY <1>1, <1>4, <1>6, <1>7, <1>9 DEF JobTypes, Untouched
<1>11. JobStarts(r)'
  BY <1>1, <1>4, <1>6, <1>7, <1>9, <1>10 DEF JobInv, JobStarts, Unregistered, Early, InProgress
<1>12. ChunksAccounted(r)'
  <2>1. x.streamed + u.queue + 1 = u.sent /\ u.sent <= u.sent
    BY <1>5, <1>7, <1>9
  <2> QED
    BY <1>1, <1>4, <1>7, <1>9, <1>10, <2>1 DEF JobInv, ChunksAccounted, Early
<1>13. EndVerified(r)' /\ DoorClosed(r)'
  BY <1>1, <1>4, <1>6, <1>7, <1>9, <1>10 DEF JobInv, EndVerified, DoorClosed
<1>14. Bound(r)' /\ LaneHeld(r)'
  BY <1>1, <1>4, <1>6, <1>7, <1>10 DEF JobInv, Bound, LaneHeld, Early
<1>15. Posts(r) /\ (Early(r)' => Early(r))
  BY <1>6, <1>7, <1>10 DEF Posts, Early
<1> QED
  BY <1>4, <1>10, <1>11, <1>12, <1>13, <1>14, <1>15, OneRequest DEF JobInv

(* A chunk goes from the upload to the response.                           *)
LEMMA ForwardStep ==
  ASSUME PcapInv, NEW r \in Req, Forward(r)
  PROVE  PcapInv'
<1>1. /\ JobTypes /\ JobInv(r)
      /\ req[r] \in ReqType /\ task[r] \in TaskType /\ up[r] \in UpType /\ resp[r] \in RespType
  BY JobNow
<1>2. /\ UNCHANGED <<cpc, outq, task, up, lane, ajob>>
      /\ req[r].pc = "forward" /\ resp[r].browser = "open" /\ resp[r].frames < FrameCapacity
  BY DEF Forward, regVars
<1>3. PICK x : x = [req[r] EXCEPT !.pc = "scheck", !.streamed = @ + 1]
  OBVIOUS
<1>4. PICK p : p = [resp[r] EXCEPT !.frames = @ + 1]
  OBVIOUS
<1>5. req' = [req EXCEPT ![r] = x] /\ resp' = [resp EXCEPT ![r] = p]
  BY <1>1, <1>3, <1>4 DEF Forward, JobTypes
<1>6. req[r].streamed + 1 \in 0 .. MaxBytes /\ resp[r].frames + 1 \in 0 .. FrameCapacity
  <2>1. req[r].streamed + up[r].queue + 1 <= up[r].sent
    BY <1>1, <1>2 DEF JobInv, ChunksAccounted
  <2> QED
    BY <1>1, <1>2, <2>1, PcapAssumption DEF ReqType, RespType, UpType
<1>7. x \in ReqType /\ p \in RespType
  BY <1>1, <1>3, <1>4, <1>6 DEF ReqType, ReqPcs, RespType
<1>8. /\ JobTypes' /\ req'[r] = x /\ resp'[r] = p
      /\ \A q \in Req \ {r} : Untouched(q)
  BY <1>1, <1>2, <1>5, <1>7 DEF JobTypes, Untouched
<1>9. JobStarts(r)'
  BY <1>1, <1>2, <1>3, <1>8 DEF JobInv, JobStarts, Unregistered, Early, InProgress, ReqType
<1>10. ChunksAccounted(r)'
  BY <1>1, <1>2, <1>3, <1>4, <1>8, PcapAssumption DEF JobInv, ChunksAccounted, Early, ReqType, RespType, UpType
<1>11. EndVerified(r)' /\ DoorClosed(r)'
  BY <1>1, <1>2, <1>3, <1>4, <1>8 DEF JobInv, EndVerified, DoorClosed, ReqType, RespType
<1>12. Bound(r)' /\ LaneHeld(r)'
  BY <1>1, <1>2, <1>3, <1>8 DEF JobInv, Bound, LaneHeld, Early, ReqType
<1>13. Posts(r) /\ (Early(r)' => Early(r))
  BY <1>2, <1>3, <1>8 DEF Posts, Early, ReqType
<1> QED
  BY <1>2, <1>8, <1>9, <1>10, <1>11, <1>12, <1>13, OneRequest DEF JobInv

(* The last frame is queued or given up, and the request is over.          *)
LEMMA SendDoneStep ==
  ASSUME PcapInv, NEW r \in Req, SendDone(r)
  PROVE  PcapInv'
<1>1. /\ JobTypes /\ JobInv(r)
      /\ req[r] \in ReqType /\ task[r] \in TaskType /\ up[r] \in UpType /\ resp[r] \in RespType
  BY JobNow
<1>2. PICK x : x = [req[r] EXCEPT !.pc = "over"]
  OBVIOUS
<1>3. /\ req[r].pc = "ending" /\ req' = [req EXCEPT ![r] = x] /\ FreeLane(r)
      /\ UNCHANGED <<cpc, task, up, outq, ajob>>
  BY <1>1, <1>2 DEF SendDone, Goes, regVars, JobTypes
<1>4. PICK d : d = IF req[r].outcome = "complete" THEN "clean" ELSE "dirty"
  OBVIOUS
<1>5. PICK p \in RespType :
        /\ resp' = [resp EXCEPT ![r] = p]
        /\ p.got = resp[r].got /\ p.frames = resp[r].frames /\ p.browser = resp[r].browser
        /\ p.done = resp[r].done \/ (p.done = d /\ resp[r].browser = "open")
  <2>1. CASE UNCHANGED resp
    BY <1>1, <2>1 DEF JobTypes
  <2>2. CASE resp[r].browser = "open" /\ resp' = [resp EXCEPT ![r].done = d]
    <3>1. PICK p : p = [resp[r] EXCEPT !.done = d]
      OBVIOUS
    <3>2. /\ p \in RespType /\ resp' = [resp EXCEPT ![r] = p] /\ p.done = d
          /\ p.got = resp[r].got /\ p.frames = resp[r].frames /\ p.browser = resp[r].browser
      BY <1>1, <1>4, <2>2, <3>1 DEF RespType, JobTypes
    <3> QED
      BY <2>2, <3>2
  <2> QED
    BY <1>4, <2>1, <2>2 DEF SendDone
<1>6. /\ x \in ReqType /\ x.pc = "over" /\ x.via = req[r].via /\ x.terminal = req[r].terminal
      /\ x.streamed = req[r].streamed /\ x.outcome = req[r].outcome /\ x.snap = req[r].snap
  BY <1>1, <1>2 DEF ReqType, ReqPcs
<1>7. /\ JobTypes' /\ req'[r] = x /\ resp'[r] = p
      /\ \A q \in Req \ {r} : Untouched(q)
  BY <1>1, <1>3, <1>5, <1>6 DEF JobTypes, Untouched, FreeLane
<1>8. JobStarts(r)'
  BY <1>1, <1>3, <1>6, <1>7 DEF JobInv, JobStarts, Unregistered, Early, InProgress
<1>9. ChunksAccounted(r)' /\ req[r].streamed > 0
  BY <1>1, <1>3, <1>5, <1>6, <1>7 DEF JobInv, ChunksAccounted, Early
<1>10. EndVerified(r)'
  BY <1>1, <1>3, <1>4, <1>5, <1>6, <1>7, <1>9 DEF JobInv, EndVerified
<1>11. DoorClosed(r)'
  BY <1>1, <1>3, <1>6, <1>7 DEF JobInv, DoorClosed
<1>12. Bound(r)' /\ LaneHeld(r)'
  BY <1>1, <1>3, <1>6, <1>7 DEF JobInv, JobTypes, Bound, LaneHeld, Early, FreeLane
<1>13. Posts(r) /\ (Early(r)' => Early(r))
  BY <1>3, <1>6, <1>7 DEF Posts, Early
<1> QED
  BY <1>3, <1>7, <1>8, <1>9, <1>10, <1>11, <1>12, <1>13, OneRequest DEF JobInv

-----------------------------------------------------------------------------
(* The agent's answer, the control channel and the registry.               *)

(* deliver_result, for a listed job or too late.                           *)
LEMMA AgentResultStep ==
  ASSUME PcapInv, NEW r \in Req, NEW res \in AgentResults, AgentResult(r, res)
  PROVE  PcapInv'
<1>1. /\ JobTypes /\ JobInv(r)
      /\ req[r] \in ReqType /\ task[r] \in TaskType /\ up[r] \in UpType /\ resp[r] \in RespType
  BY JobNow
<1>2. /\ ajob' = [ajob EXCEPT ![r] = "done"] /\ UNCHANGED <<cpc, req, up, resp, lane, outq>>
      /\ ~Early(r)
  BY KnownIsDispatched DEF AgentResult, regVars
<1>3. res \in Result /\ res # None
  BY PcapAssumption
<1>4. PICK t \in TaskType :
        /\ task' = [task EXCEPT ![r] = t] /\ t.listed = task[r].listed /\ t.held = task[r].held
        /\ t.allowed => task[r].allowed
        /\ t.waiting => task[r].waiting
        /\ t.result = task[r].result \/ (t.result = res /\ (t.allowed => PromisesUpload(res)))
  <2>1. CASE task[r].listed
    <3>1. PICK t : t = Deliver(r, res)
      OBVIOUS
    <3>2. t \in TaskType
      BY <1>1, <1>3, <3>1 DEF Deliver, TaskType, PromisesUpload
    <3>3. task' = [task EXCEPT ![r] = t]
      BY <2>1, <3>1 DEF AgentResult
    <3>4. /\ t.listed = task[r].listed /\ t.held = task[r].held
          /\ t.allowed = (task[r].allowed /\ PromisesUpload(res))
          /\ t.waiting = FALSE
          /\ t.result = IF task[r].waiting THEN res ELSE task[r].result
      BY <1>1, <3>1 DEF Deliver, TaskType
    <3> QED
      BY <3>2, <3>3, <3>4
  <2>2. CASE ~task[r].listed
    BY <1>1, <2>2 DEF AgentResult, JobTypes
  <2> QED
    BY <2>1, <2>2
<1>5. /\ JobTypes' /\ task'[r] = t /\ ajob'[r] = "done"
      /\ \A q \in Req \ {r} : Untouched(q)
  BY <1>1, <1>2, <1>4 DEF JobTypes, Untouched
<1>6. JobStarts(r)'
  BY <1>1, <1>2, <1>4, <1>5 DEF JobInv, JobStarts, Unregistered, Early, InProgress
<1>7. ChunksAccounted(r)' /\ EndVerified(r)' /\ LaneHeld(r)'
  BY <1>1, <1>2 DEF JobInv, ChunksAccounted, EndVerified, LaneHeld, Early
<1>8. DoorClosed(r)'
  BY <1>1, <1>2, <1>4, <1>5 DEF JobInv, DoorClosed
<1>9. Bound(r)'
  BY <1>1, <1>2, <1>4, <1>5 DEF JobInv, Bound, Early
<1>10. Posts(r) /\ (Early(r)' => Early(r))
  BY <1>2 DEF Posts, Early
<1> QED
  BY <1>2, <1>5, <1>6, <1>7, <1>8, <1>9, <1>10, OneRequest DEF JobInv

(* A registered connection only winds down, and ends in disconnected.      *)
Registered == {"live", "closing", "removed", "gone"}

WindsDown ==
  \A c \in Conn : cpc[c] \in Registered => cpc'[c] \in Registered /\ (cpc'[c] = "gone" => cpc[c] = "gone")

(* Connections move, and an agent may learn of a dispatched job.           *)
LEMMA ConnectionsMove ==
  ASSUME PcapInv, WindsDown, UNCHANGED <<req, task, up, resp, lane>>,
         NEW q \in Req, ajob'[q] = ajob[q] \/ ~Early(q)
  PROVE  JobInv(q)'
<1>1. JobInv(q) /\ req[q] \in ReqType
  BY JobNow
<1>2. JobStarts(q)'
  BY <1>1 DEF JobInv, JobStarts, Unregistered, Early, InProgress
<1>3. ChunksAccounted(q)' /\ EndVerified(q)' /\ DoorClosed(q)' /\ LaneHeld(q)'
  BY <1>1 DEF JobInv, ChunksAccounted, EndVerified, DoorClosed, LaneHeld, Early
<1>4. Bound(q)'
  <2>1. req[q].via \in Conn \cup {None}
    BY <1>1 DEF ReqType
  <2> QED
    BY <1>1, <2>1 DEF JobInv, Bound, WindsDown, Registered, Early
<1> QED
  BY <1>2, <1>3, <1>4 DEF JobInv

(* The steps of the registry itself.                                       *)
LEMMA RegistryWindsDown ==
  ASSUME RegInv, NEW c \in Conn, Connection(c)
  PROVE  WindsDown
<1>1. cpc \in [Conn -> {"idle", "authed", "greeted", "live", "closing", "removed", "gone"}]
  BY DEF RegInv, RegTypeOK
<1>2. \/ UNCHANGED cpc
      \/ /\ cpc[c] \in {"idle", "authed", "greeted"}
         /\ \E label \in {"authed", "greeted", "live", "gone"} : Goto(c, label)
      \/ cpc[c] = "live" /\ Goto(c, "closing")
      \/ cpc[c] = "closing" /\ Goto(c, "removed")
  BY DEF Connection, Upgrade, SendHello, Refuse, Register, Cancelled, SocketEnds, FatalMessage,
         PingTick, SendFails, Pong, Remove, PeerLost
<1> QED
  BY <1>1, <1>2 DEF WindsDown, Registered, Goto

(* Connections and keys move without touching a job.                       *)
LEMMA RegistryStep ==
  ASSUME RegInv, PcapInv, UNCHANGED pcapVars,
         (\E k \in Key : Admin(k)) \/ (\E c \in Conn : Connection(c)) \/ UNCHANGED regVars
  PROVE  PcapInv'
<1>1. WindsDown
  <2>1. CASE \E c \in Conn : Connection(c)
    BY <2>1, RegistryWindsDown
  <2>2. CASE (\E k \in Key : Admin(k)) \/ UNCHANGED regVars
    <3>1. UNCHANGED cpc
      BY <2>2 DEF Admin, AddKey, CliRemoveKey, FindKey, DeleteKeyRow, RevokeKey, BumpAgent, AbortDelete, regVars
    <3> QED
      BY <3>1 DEF WindsDown
  <2> QED
    BY <2>1, <2>2
<1>2. UNCHANGED <<req, task, up, resp, lane>> /\ UNCHANGED <<outq, ajob>>
  BY DEF pcapVars
<1>3. ASSUME NEW q \in Req PROVE JobInv(q)'
  BY <1>1, <1>2, ConnectionsMove
<1>4. PcapTypeOK' /\ QueuedIsDispatched'
  BY <1>2 DEF PcapInv, PcapTypeOK, QueuedIsDispatched, Early
<1> QED
  BY <1>3, <1>4 DEF PcapInv

(* The head of a control queue is written, lost, or ends the connection.   *)
LEMMA WriteControlStep ==
  ASSUME RegInv, PcapInv, NEW c \in Conn, WriteControl(c)
  PROVE  PcapInv'
<1>1. JobTypes /\ QueueTypes /\ QueuedIsDispatched
  BY DEF PcapInv, PcapTypeOK, JobTypes, QueueTypes
<1>2. outq[c] # <<>> /\ UNCHANGED <<req, task, up, resp, lane>> /\ outq' = [outq EXCEPT ![c] = Tail(@)]
  BY DEF WriteControl
<1>3. PICK s : s = outq[c]
  OBVIOUS
<1>4. s \in Seq(Messages) /\ s # <<>> /\ Len(s) <= OutboundCapacity /\ Len(s) \in Nat
  BY <1>1, <1>2, <1>3 DEF QueueTypes
<1>5. Head(s) = s[1] /\ 1 \in 1 .. Len(s) /\ s[1] \in Messages
  BY <1>4
<1>6. PICK r \in Req : r = Head(s)[2] /\ ~Early(r)
  BY <1>1, <1>3, <1>5 DEF QueuedIsDispatched, Messages
<1>7. WindsDown
  <2>1. CASE SendFails(c)
    BY <2>1, RegistryWindsDown DEF Connection
  <2>2. CASE UNCHANGED regVars
    <3>1. UNCHANGED cpc
      BY <2>2 DEF regVars
    <3> QED
      BY <3>1 DEF WindsDown
  <2> QED
    BY <2>1, <2>2 DEF WriteControl
<1>8. PICK a \in {"none", "running", "cancelled", "done"} : ajob' = [ajob EXCEPT ![r] = a]
  <2>1. ajob[r] \in {"none", "running", "cancelled", "done"} /\ ajob \in [Req -> {"none", "running", "cancelled", "done"}]
    BY <1>1 DEF JobTypes
  <2>2. CASE UNCHANGED ajob
    BY <2>1, <2>2
  <2>3. CASE ~UNCHANGED ajob
    BY <1>3, <1>6, <2>1, <2>3 DEF WriteControl
  <2> QED
    BY <2>2, <2>3
<1>9. ASSUME NEW q \in Req PROVE JobInv(q)'
  <2>1. ajob'[q] = ajob[q] \/ q = r
    BY <1>1, <1>8 DEF JobTypes
  <2> QED
    BY <1>2, <1>6, <1>7, <2>1, ConnectionsMove
<1>10. JobTypes'
  BY <1>1, <1>2, <1>8 DEF JobTypes
<1>11. /\ Tail(s) \in Seq(Messages) /\ Len(Tail(s)) <= OutboundCapacity
       /\ \A i \in 1 .. Len(Tail(s)) : i + 1 \in 1 .. Len(s) /\ Tail(s)[i] = s[i + 1]
  BY <1>4, PcapAssumption
<1>12. /\ outq' \in [Conn -> Seq(Messages)] /\ outq'[c] = Tail(s)
       /\ \A d \in Conn \ {c} : outq'[d] = outq[d]
  BY <1>1, <1>2, <1>3, <1>11 DEF QueueTypes
<1>13. QueueTypes'
  BY <1>1, <1>11, <1>12 DEF QueueTypes
<1>14. QueuedIsDispatched'
  <2>1. ASSUME NEW d \in Conn, NEW i \in 1 .. Len(outq'[d]), NEW q, q = outq'[d][i][2] PROVE ~Early(q)
    <3>1. CASE d = c
      <4>1. i \in 1 .. Len(Tail(s)) /\ q = Tail(s)[i][2]
        BY <1>12, <2>1, <3>1
      <4>2. PICK j : j = i + 1
        OBVIOUS
      <4>3. j \in 1 .. Len(outq[c]) /\ q = outq[c][j][2]
        BY <1>3, <1>11, <4>1, <4>2
      <4> QED
        BY <1>1, <4>3 DEF QueuedIsDispatched
    <3>2. CASE d # c
      BY <1>1, <1>12, <2>1, <3>2 DEF QueuedIsDispatched
    <3> QED
      BY <3>1, <3>2
  <2>2. ASSUME NEW q, Early(q)' PROVE Early(q)
    BY <1>2, <2>2 DEF Early
  <2> QED
    BY <2>1, <2>2 DEF QueuedIsDispatched
<1> QED
  BY <1>9, <1>10, <1>13, <1>14 DEF PcapInv, PcapTypeOK, JobTypes, QueueTypes

(* fail_pending: every listed job of the connection gets its end.          *)
LEMMA FailPendingStep ==
  ASSUME RegInv, PcapInv, NEW c \in Conn, FailPending(c)
  PROVE  PcapInv'
<1>1. JobTypes
  BY DEF PcapInv, PcapTypeOK, JobTypes
<1>2. /\ cpc[c] = "removed" /\ cpc' = [cpc EXCEPT ![c] = "gone"]
      /\ task' = [r \in Req |-> IF r \in PendingOn(c) THEN FailedTask(r) ELSE task[r]]
      /\ UNCHANGED <<req, up, resp, lane, outq, ajob>>
  BY DEF FailPending, Disconnected, Goto
<1>3. cpc'[c] = "gone" /\ \A d \in Conn \ {c} : cpc'[d] = cpc[d]
  BY <1>2 DEF RegInv, RegTypeOK
<1>4. DisconnectResult \in Result /\ DisconnectResult # None /\ ~PromisesUpload(DisconnectResult)
  <2>1. 0 \in 0 .. MaxBytes
    BY PcapAssumption
  <2>2. DisconnectResult \in Result
    BY <2>1 DEF DisconnectResult, Result
  <2>3. ~PromisesUpload(DisconnectResult)
    BY DEF DisconnectResult, PromisesUpload
  <2> QED
    BY <2>2, <2>3, PcapAssumption
<1>5. ASSUME NEW q \in Req
      PROVE  /\ task'[q] \in TaskType
             /\ task'[q].listed = task[q].listed /\ task'[q].held = task[q].held
             /\ task'[q].allowed => task[q].allowed
             /\ task'[q].waiting => task[q].waiting
             /\ \/ task'[q].result = task[q].result
                \/ task'[q].result = DisconnectResult /\ ~task'[q].allowed
             /\ q \in PendingOn(c) => ~task'[q].allowed /\ ~task'[q].waiting
  <2>1. task[q] \in TaskType
    BY <1>1 DEF JobTypes
  <2>2. CASE q \in PendingOn(c)
    <3>1. PICK t : t = FailedTask(q)
      OBVIOUS
    <3>2. task'[q] = t
      BY <1>2, <2>2, <3>1
    <3>3. /\ t \in TaskType /\ t.listed = task[q].listed /\ t.held = task[q].held
          /\ t.allowed = FALSE /\ t.waiting = FALSE
          /\ t.result = IF task[q].waiting THEN DisconnectResult ELSE task[q].result
      BY <1>4, <2>1, <3>1 DEF FailedTask, TaskType
    <3> QED
      BY <3>2, <3>3
  <2>3. CASE q \notin PendingOn(c)
    BY <1>2, <2>1, <2>3
  <2> QED
    BY <2>2, <2>3
<1>6. ASSUME NEW q \in Req PROVE JobInv(q)'
  <2>1. JobInv(q) /\ req[q] \in ReqType
    BY JobNow
  <2>2. JobStarts(q)'
    BY <1>2, <1>5, <2>1 DEF JobInv, JobStarts, Unregistered, Early, InProgress
  <2>3. ChunksAccounted(q)' /\ EndVerified(q)' /\ LaneHeld(q)'
    BY <1>2, <2>1 DEF JobInv, ChunksAccounted, EndVerified, LaneHeld, Early
  <2>4. DoorClosed(q)'
    BY <1>2, <1>4, <1>5, <2>1 DEF JobInv, DoorClosed
  <2>5. Bound(q)'
    <3>1. req[q].via \in Conn \cup {None}
      BY <2>1 DEF ReqType
    <3>2. task[q].listed /\ req[q].via = c => q \in PendingOn(c)
      BY DEF PendingOn
    <3> QED
      BY <1>2, <1>3, <1>5, <2>1, <3>1, <3>2 DEF JobInv, Bound, Early
  <2> QED
    BY <2>2, <2>3, <2>4, <2>5 DEF JobInv
<1>7. task' \in [Req -> TaskType]
  BY <1>2, <1>5
<1>8. PcapTypeOK' /\ QueuedIsDispatched'
  BY <1>2, <1>7 DEF PcapInv, PcapTypeOK, QueuedIsDispatched, Early
<1> QED
  BY <1>6, <1>8 DEF PcapInv

-----------------------------------------------------------------------------
(* The invariant.                                                          *)

(* At the start there is no request.                                       *)
LEMMA PcapStarts == PcapInit => PcapInv
<1> SUFFICES ASSUME PcapInit PROVE PcapInv
  OBVIOUS
<1>1. JobTypes
  BY PcapAssumption DEF PcapInit, JobTypes, ReqType, ReqPcs, UploadStates, Outcomes, TaskType, UpType, RespType
<1>2. QueueTypes /\ QueuedIsDispatched
  BY PcapAssumption DEF PcapInit, QueueTypes, QueuedIsDispatched
<1>3. ASSUME NEW r \in Req PROVE JobInv(r)
  <2>1. JobStarts(r)
    BY DEF PcapInit, JobStarts, Unregistered, Early, InProgress
  <2>2. ChunksAccounted(r)
    BY DEF PcapInit, ChunksAccounted, Early
  <2>3. EndVerified(r) /\ DoorClosed(r)
    BY DEF PcapInit, EndVerified, DoorClosed
  <2>4. Bound(r) /\ LaneHeld(r)
    BY DEF PcapInit, Bound, LaneHeld
  <2> QED
    BY <2>1, <2>2, <2>3, <2>4 DEF JobInv
<1> QED
  BY <1>1, <1>2, <1>3 DEF PcapInv, PcapTypeOK, JobTypes, QueueTypes

(* Every step of the composed system keeps the invariant.                  *)
LEMMA PcapStep == RegInv /\ PcapInv /\ [PcapNext]_allVars => PcapInv'
<1> SUFFICES ASSUME RegInv, PcapInv, [PcapNext]_allVars PROVE PcapInv'
  OBVIOUS
<1>1. ASSUME NEW r \in Req, Request(r) PROVE PcapInv'
  <2>1. CASE Supervisor(r)
    BY <2>1, StreamCheckStep, NextChunkStep, ForwardStep, StreamAbortsStep, SendDoneStep DEF Supervisor
  <2>2. CASE ~Supervisor(r)
    BY <1>1, <2>2, RouteStep, ProbeOkStep, ProbeFailsStep, RegisterTaskStep, DispatchStep, WaitCheckStep,
       FirstChunkStep, WaitTimeoutStep, BodyClosesStep, TakeResultStep, UploadChangedStep DEF Request
  <2> QED
    BY <2>1, <2>2
<1>2. ASSUME NEW r \in Req, Environment(r) PROVE PcapInv'
  BY <1>2, ClientAbandonsStep, BrowserReadsStep, BrowserEndsStep, FindTaskStep, BeginUploadStep,
     SendChunkStep, UploadEndsStep, AgentResultStep DEF Environment, Upload
<1>3. ASSUME NEW c \in Conn, WriteControl(c) \/ FailPending(c) PROVE PcapInv'
  BY <1>3, WriteControlStep, FailPendingStep
<1>4. CASE /\ (\E k \in Key : Admin(k)) \/ (\E c \in Conn : Connection(c))
           /\ UNCHANGED pcapVars
  BY <1>4, RegistryStep
<1>5. CASE UNCHANGED allVars
  BY <1>5, RegistryStep DEF allVars
<1> QED
  BY <1>1, <1>2, <1>3, <1>4, <1>5 DEF PcapNext

(* Whatever the agents, browsers and connections do: chunks are neither    *)
(* lost nor invented, a result that promises no upload shuts the door to   *)
(* one, a disconnect leaves no listed job waiting, and a request that is   *)
(* over has left the task registry and its lane.                           *)
THEOREM PcapInvariance == PcapSpec => []PcapInv
<1>1. PcapInit => PcapInv
  BY PcapStarts
<1>2. RegInv /\ PcapInv /\ [PcapNext]_allVars => PcapInv'
  BY PcapStep
<1>3. PcapSpec => []RegInv
  BY PcapImplementsRegistry, RegistryInvariance, PTL
<1> QED
  BY <1>1, <1>2, <1>3, PTL DEF PcapSpec

(* A response body that ends cleanly is the agent's whole upload, of the   *)
(* size its result reported: stream_agent never closes a truncated capture *)
(* as if it were complete.                                                 *)
THEOREM CleanEndWhole == PcapSpec => []CleanEndIsWhole
<1>1. PcapInv => CleanEndIsWhole
  <2> SUFFICES ASSUME PcapInv, NEW r \in Req, resp[r].browser = "clean"
               PROVE  /\ up[r].state = "complete" /\ resp[r].got = up[r].sent
                      /\ req[r].terminal.code = "complete" /\ req[r].terminal.bytes = resp[r].got
    BY DEF CleanEndIsWhole
  <2>1. JobInv(r) /\ resp[r] \in RespType /\ req[r] \in ReqType
    BY JobNow
  <2>2. resp[r].done = "clean" /\ resp[r].frames = 0
    BY <2>1 DEF JobInv, EndVerified
  <2>3. /\ up[r].state = "complete" /\ up[r].sent = req[r].streamed
        /\ req[r].terminal.code = "complete" /\ req[r].terminal.bytes = req[r].streamed
    BY <2>1, <2>2 DEF JobInv, EndVerified
  <2>4. resp[r].got = req[r].streamed
    BY <2>1, <2>2, PcapAssumption DEF JobInv, ChunksAccounted, RespType, ReqType
  <2> QED
    BY <2>3, <2>4
<1> QED
  BY <1>1, PcapInvariance, PTL
=============================================================================
