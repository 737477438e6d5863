---------------------------- MODULE AgentRegistry ----------------------------
(***************************************************************************)
(* The server's registry of connected agents, the WebSocket task of each   *)
(* connection and the administration of agent keys.                        *)
(*                                                                         *)
(* A connection is a member of Conn.  The registry's generation number is  *)
(* unique per registration, so it is the identity of the connection: two   *)
(* generations are equal exactly when the connections are.  Messages that  *)
(* concern packet captures are in module RemotePcap.                       *)
(***************************************************************************)
EXTENDS Naturals

CONSTANTS
  Conn,                  \* connection attempts
  Key,                   \* agent key rows; ids are never reused (AUTOINCREMENT)
  Name,                  \* agent names
  KeyName,               \* the name each key is issued for
  AllowUnauthenticated,  \* agents.allow-unauthenticated
  ClientAborts,          \* an administrator's request may be dropped half way
  MaxMissedPongs,        \* MAX_MISSED_PONGS
  None                   \* no key, no connection

ASSUME RegistryAssumption ==
  /\ KeyName \in [Key -> Name]
  /\ AllowUnauthenticated \in BOOLEAN /\ ClientAborts \in BOOLEAN
  /\ MaxMissedPongs \in Nat
  /\ None \notin Conn /\ None \notin Key

VARIABLES
  keys,       \* rows of the agent_keys table
  issued,     \* keys ever added
  dpc,        \* control point of the DELETE request for each key
  dropped,    \* keys whose row such a request has deleted
  bump,       \* the connection revoke_key found and is about to cancel
  revoked,    \* RegistryState.revoked_key_ids
  agents,     \* RegistryState.agents: name -> connection
  cpc,        \* control point of each connection task
  cname,      \* its handshake name
  ckey,       \* the key it authenticated with
  shutdown,   \* AgentEntry.shutdown is cancelled
  slot,       \* AgentEntry.pcap_busy, named by the connection that created it
  missed,     \* missed_pongs
  peer        \* the agent's end: up, silent (half-open) or closed

admin   == <<keys, issued, dpc, dropped, bump, revoked>>
ident   == <<cname, ckey>>
regVars == <<admin, agents, cpc, ident, shutdown, slot, missed, peer>>

RegTypeOK ==
  /\ keys \subseteq Key /\ issued \subseteq Key
  /\ dropped \subseteq Key /\ revoked \subseteq Key
  /\ dpc \in [Key -> {"idle", "found", "deleted", "revoking"}]
  /\ bump \in [Key -> Conn \cup {None}]
  /\ agents \in [Name -> Conn \cup {None}]
  /\ cpc \in [Conn -> {"idle", "authed", "greeted", "live", "closing", "removed", "gone"}]
  /\ cname \in [Conn -> Name]
  /\ ckey \in [Conn -> Key \cup {None}]
  /\ shutdown \in [Conn -> BOOLEAN]
  /\ slot \in [Conn -> Conn]
  /\ missed \in [Conn -> 0 .. MaxMissedPongs]
  /\ peer \in [Conn -> {"up", "silent", "closed"}]

RegInit ==
  /\ keys = {} /\ issued = {} /\ dropped = {} /\ revoked = {}
  /\ dpc = [k \in Key |-> "idle"]
  /\ bump = [k \in Key |-> None]
  /\ agents = [n \in Name |-> None]
  /\ cpc = [c \in Conn |-> "idle"]
  /\ cname \in [Conn -> Name]
  /\ ckey = [c \in Conn |-> None]
  /\ shutdown = [c \in Conn |-> FALSE]
  /\ slot = [c \in Conn |-> c]
  /\ missed = [c \in Conn |-> 0]
  /\ peer = [c \in Conn |-> "up"]

Goto(c, label) == cpc' = [cpc EXCEPT ![c] = label]

-----------------------------------------------------------------------------
(* Administration of keys.                                                 *)

(* add_agent_key: one key per name.                                        *)
AddKey(k) ==
  /\ k \notin issued
  /\ \A j \in keys : KeyName[j] # KeyName[k]
  /\ keys' = keys \cup {k} /\ issued' = issued \cup {k}
  /\ UNCHANGED <<dpc, dropped, bump, revoked, agents, cpc, ident, shutdown, slot, missed, peer>>

(* `evebox config agents remove`: another process deletes the row; a live  *)
(* connection is not told.                                                 *)
CliRemoveKey(k) ==
  /\ k \in keys
  /\ keys' = keys \ {k}
  /\ UNCHANGED <<issued, dpc, dropped, bump, revoked, agents, cpc, ident, shutdown, slot, missed, peer>>

(* DELETE /api/agents/keys/{id}: look the row up, delete it, revoke the id *)
(* in the registry, cancel the connection.                                 *)
FindKey(k) ==
  /\ dpc[k] = "idle" /\ k \in keys
  /\ dpc' = [dpc EXCEPT ![k] = "found"]
  /\ UNCHANGED <<keys, issued, dropped, bump, revoked, agents, cpc, ident, shutdown, slot, missed, peer>>

DeleteKeyRow(k) ==
  /\ dpc[k] = "found"
  /\ keys' = keys \ {k} /\ dropped' = dropped \cup {k}
  /\ dpc' = [dpc EXCEPT ![k] = "deleted"]
  /\ UNCHANGED <<issued, bump, revoked, agents, cpc, ident, shutdown, slot, missed, peer>>

Holders(k) == {c \in Conn : agents[cname[c]] = c /\ ckey[c] = k}

(* revoke_key under the lock: the first entry found with the key, if any.  *)
RevokeKey(k) ==
  /\ dpc[k] = "deleted"
  /\ dpc' = [dpc EXCEPT ![k] = "revoking"]
  /\ revoked' = revoked \cup {k}
  /\ \/ Holders(k) = {} /\ UNCHANGED bump
     \/ \E c \in Holders(k) : bump' = [bump EXCEPT ![k] = c]
  /\ UNCHANGED <<keys, issued, dropped, agents, cpc, ident, shutdown, slot, missed, peer>>

(* revoke_key after the lock is dropped.                                   *)
BumpAgent(k) ==
  /\ dpc[k] = "revoking"
  /\ dpc' = [dpc EXCEPT ![k] = "idle"]
  /\ bump' = [bump EXCEPT ![k] = None]
  /\ shutdown' = [c \in Conn |-> shutdown[c] \/ c = bump[k]]
  /\ UNCHANGED <<keys, issued, dropped, revoked, agents, cpc, ident, slot, missed, peer>>

(* The handler's future is dropped at one of its awaits.                   *)
AbortDelete(k) ==
  /\ ClientAborts /\ dpc[k] \in {"found", "deleted"}
  /\ dpc' = [dpc EXCEPT ![k] = "idle"]
  /\ UNCHANGED <<keys, issued, dropped, bump, revoked, agents, cpc, ident, shutdown, slot, missed, peer>>

-----------------------------------------------------------------------------
(* One connection, from the HTTP upgrade to its teardown.                  *)

(* websocket, authenticate_agent: a presented key must exist and be issued *)
(* for the claimed name.                                                   *)
Upgrade(c, k) ==
  /\ cpc[c] = "idle"
  /\ \/ k = None /\ AllowUnauthenticated
     \/ k \in keys /\ KeyName[k] = cname[c]
  /\ ckey' = [ckey EXCEPT ![c] = k]
  /\ Goto(c, "authed")
  /\ UNCHANGED <<admin, agents, cname, shutdown, slot, missed, peer>>

(* Hello is sent before registration, or the connection is lost.           *)
SendHello(c) ==
  /\ cpc[c] = "authed"
  /\ Goto(c, "greeted") \/ Goto(c, "gone")
  /\ UNCHANGED <<admin, agents, ident, shutdown, slot, missed, peer>>

HeldByOtherKey(c) ==
  LET held == agents[cname[c]] IN
  held # None /\ {ckey[held], ckey[c]} \subseteq Key /\ ckey[held] # ckey[c]

(* Variants: only one of the two refusals.                                 *)
RefusedByHolder(c) == HeldByOtherKey(c)

RefusedIfRevoked(c) == ckey[c] \in revoked

Refused(c) == ckey[c] \in revoked \/ HeldByOtherKey(c)

Refuse(c) ==
  /\ cpc[c] = "greeted" /\ Refused(c)
  /\ Goto(c, "gone")
  /\ UNCHANGED <<admin, agents, ident, shutdown, slot, missed, peer>>

(* register: take the name, its PCAP slot with it, and stop the connection *)
(* that held it.                                                           *)
Register(c) ==
  LET held == agents[cname[c]] IN
  /\ cpc[c] = "greeted" /\ ~Refused(c)
  /\ agents' = [agents EXCEPT ![cname[c]] = c]
  /\ slot' = [slot EXCEPT ![c] = IF held = None THEN c ELSE slot[held]]
  /\ shutdown' = [d \in Conn |-> shutdown[d] \/ d = held]
  /\ Goto(c, "live")
  /\ UNCHANGED <<admin, ident, missed, peer>>

(* The loop ends on cancellation, on a closed socket, on a message that    *)
(* does not parse, or when a send fails.                                   *)
Cancelled(c) ==
  /\ cpc[c] = "live" /\ shutdown[c]
  /\ Goto(c, "closing")
  /\ UNCHANGED <<admin, agents, ident, shutdown, slot, missed, peer>>

SocketEnds(c) ==
  /\ cpc[c] = "live" /\ peer[c] = "closed"
  /\ Goto(c, "closing")
  /\ UNCHANGED <<admin, agents, ident, shutdown, slot, missed, peer>>

FatalMessage(c) ==
  /\ cpc[c] = "live" /\ peer[c] = "up"
  /\ Goto(c, "closing")
  /\ UNCHANGED <<admin, agents, ident, shutdown, slot, missed, peer>>

(* Variant: the missed pongs are not counted.                              *)
PingTickUncounted(c) ==
  /\ cpc[c] = "live"
  /\ \/ missed[c] >= MaxMissedPongs /\ Goto(c, "closing")
     \/ missed[c] < MaxMissedPongs /\ UNCHANGED cpc
  /\ UNCHANGED <<admin, agents, ident, shutdown, slot, missed, peer>>

(* Every PING_INTERVAL; the ping itself may fail.                          *)
PingTick(c) ==
  /\ cpc[c] = "live"
  /\ \/ missed[c] >= MaxMissedPongs /\ Goto(c, "closing") /\ UNCHANGED missed
     \/ /\ missed[c] < MaxMissedPongs
        /\ missed' = [missed EXCEPT ![c] = @ + 1]
        /\ UNCHANGED cpc \/ (peer[c] # "up" /\ Goto(c, "closing"))
  /\ UNCHANGED <<admin, agents, ident, shutdown, slot, peer>>

(* A ping that a liveness probe asked for, or a queued message, cannot be  *)
(* sent.                                                                   *)
SendFails(c) ==
  /\ cpc[c] = "live" /\ peer[c] # "up"
  /\ Goto(c, "closing")
  /\ UNCHANGED <<admin, agents, ident, shutdown, slot, missed, peer>>

Pong(c) ==
  /\ cpc[c] = "live" /\ peer[c] = "up" /\ missed[c] > 0
  /\ missed' = [missed EXCEPT ![c] = 0]
  /\ UNCHANGED <<admin, agents, cpc, ident, shutdown, slot, peer>>

(* remove: only this generation.                                           *)
Remove(c) ==
  /\ cpc[c] = "closing"
  /\ agents' = [n \in Name |-> IF n = cname[c] /\ agents[n] = c THEN None ELSE agents[n]]
  /\ Goto(c, "removed")
  /\ UNCHANGED <<admin, ident, shutdown, slot, missed, peer>>

(* disconnected: pending work of this generation is failed (RemotePcap).   *)
Disconnected(c) ==
  /\ cpc[c] = "removed"
  /\ Goto(c, "gone")
  /\ UNCHANGED <<admin, agents, ident, shutdown, slot, missed, peer>>

(* The agent's host vanishes, or its process closes the socket.            *)
PeerLost(c) ==
  /\ cpc[c] \in {"authed", "greeted", "live"} /\ peer[c] = "up"
  /\ \E how \in {"silent", "closed"} : peer' = [peer EXCEPT ![c] = how]
  /\ UNCHANGED <<admin, agents, cpc, ident, shutdown, slot, missed>>

-----------------------------------------------------------------------------
Admin(k) ==
  \/ AddKey(k) \/ CliRemoveKey(k)
  \/ FindKey(k) \/ DeleteKeyRow(k) \/ RevokeKey(k) \/ BumpAgent(k) \/ AbortDelete(k)

(* The steps of a connection except the teardown.                          *)
Connection(c) ==
  \/ \E k \in Key \cup {None} : Upgrade(c, k)
  \/ SendHello(c) \/ Refuse(c) \/ Register(c)
  \/ Cancelled(c) \/ SocketEnds(c) \/ FatalMessage(c) \/ PingTick(c) \/ SendFails(c)
  \/ Pong(c) \/ Remove(c) \/ PeerLost(c)

RegNext ==
  \/ \E k \in Key : Admin(k)
  \/ \E c \in Conn : Connection(c) \/ Disconnected(c)

RegSpec == RegInit /\ [][RegNext]_regVars

(* What a connection's task does by itself once it is upgraded.            *)
Task(c) ==
  \/ SendHello(c) \/ Refuse(c) \/ Register(c)
  \/ Cancelled(c) \/ SocketEnds(c) \/ PingTick(c)
  \/ Remove(c) \/ Disconnected(c)

(* The runtime polls every task and the ping interval ticks.               *)
RegFairness == \A c \in Conn : WF_regVars(Task(c))

-----------------------------------------------------------------------------
(* Properties.                                                             *)

(* The registry never keeps an entry whose connection task has ended:      *)
(* AgentRegistry::remove is reached on every way out of the loop.          *)
RegisteredIsLive ==
  \A n \in Name : agents[n] # None =>
    cpc[agents[n]] \in {"live", "closing"} /\ cname[agents[n]] = n

(* A connection loop that runs without holding its name has been asked to  *)
(* stop: a late AgentRegistry::remove of an older generation never takes   *)
(* the name from its replacement.                                          *)
ReplacedIsStopped ==
  \A c \in Conn : cpc[c] = "live" /\ agents[cname[c]] # c => shutdown[c]

(* No connection of a revoked key runs on, also when it authenticated      *)
(* before the deletion and registers after it (revoked_key_ids).           *)
RevokedIsStopped ==
  \A c \in Conn :
    cpc[c] = "live" /\ ckey[c] \in revoked => shutdown[c] \/ bump[ckey[c]] = c

(* "remove an agent key and disconnect any agent currently authenticated   *)
(* with it": once the DELETE request has ended, no connection of the key   *)
(* runs on.                                                                *)
DeletedIsStopped ==
  \A c \in Conn :
    /\ cpc[c] = "live"
    /\ ckey[c] \in dropped
    /\ dpc[ckey[c]] = "idle"
    => shutdown[c]

(* "one credentialed sensor cannot evict another": register never takes a  *)
(* name from a connection that another key authenticated.                  *)
NoEviction ==
  [][\A n \in Name :
       agents[n] # None /\ agents'[n] \notin {agents[n], None} =>
         ckey[agents[n]] = ckey[agents'[n]] \/ None \in {ckey[agents[n]], ckey[agents'[n]]}
    ]_regVars

(* A half-open connection is reaped although nobody closes it              *)
(* (MAX_MISSED_PONGS).                                                     *)
SilentIsReaped ==
  \A c \in Conn : cpc[c] = "live" /\ peer[c] = "silent" ~> cpc[c] = "gone"

-----------------------------------------------------------------------------
(* The inductive invariant adds why cancelling the one entry found is      *)
(* enough: a key's connections all claim the key's name, so no two of them *)
(* are registered at once; and where the DELETE request stands.            *)
KeyMatchesName ==
  \A c \in Conn : ckey[c] \in Key => KeyName[ckey[c]] = cname[c]

DeleteProgress ==
  \A k \in Key :
    /\ dpc[k] # "revoking" => bump[k] = None
    /\ dpc[k] = "revoking" => k \in revoked
    /\ ~ClientAborts /\ k \in dropped => k \in revoked \/ dpc[k] = "deleted"

RegInv ==
  /\ RegTypeOK
  /\ KeyMatchesName
  /\ DeleteProgress
  /\ RegisteredIsLive
  /\ ReplacedIsStopped
  /\ RevokedIsStopped

=============================================================================
