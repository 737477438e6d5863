---------------------------- MODULE PcapRouting ----------------------------
(***************************************************************************)
(* Which source serves a packet capture: the server's own spool or one of  *)
(* the connected agents.  The operator's routing table is kept twice, in   *)
(* the configuration database and in the running service, and is saved by  *)
(* concurrent requests; a request is resolved against the live copy.       *)
(***************************************************************************)
EXTENDS Sequences, FiniteSets, Naturals

CONSTANTS
  None,       \* an absent option
  Local,      \* LOCAL_PCAP_SOURCE_NAME, "(server)"
  Names,      \* names of agents that advertise the pcap capability
  Hostname,   \* the hostname each agent reports
  Tables,     \* the routing tables operators send
  Savers      \* concurrent POSTs of a routing table

EmptyTable == [rules |-> <<>>, default |-> None]

ASSUME RoutingAssumption ==
  /\ Local \notin Names /\ None \notin Names \cup Savers /\ None # Local
  /\ DOMAIN Hostname = Names
  /\ EmptyTable \in Tables

VARIABLES
  hasLocal,   \* PcapService.source is configured
  agents,     \* names in the agent registry
  live,       \* PcapService.routing
  stored,     \* the kv row config.pcap.routing
  saver,      \* each POST: where it stands and the table it carries
  lock,       \* routing_save: the POST that holds it
  unsettled   \* a POST ended after its row was written, before set_routing

routeVars == <<hasLocal, agents, live, stored, saver, lock, unsettled>>

RoutingInit ==
  /\ hasLocal \in BOOLEAN
  /\ agents \in SUBSET Names
  /\ stored \in Tables /\ live = stored
  /\ saver = [s \in Savers |-> [pc |-> "idle", table |-> EmptyTable]]
  /\ lock = None
  /\ unsettled = FALSE

-----------------------------------------------------------------------------
(* post_routing.                                                           *)

(* A rule without a sensor or a source is refused before anything is kept. *)
Valid(table) ==
  /\ \A i \in DOMAIN table.rules : table.rules[i].sensor # None /\ table.rules[i].source # None
  /\ table.default # ""

PostRouting(s, table) ==
  /\ saver[s].pc = "idle"
  /\ saver' = [saver EXCEPT ![s] = [pc |-> IF Valid(table) THEN "locking" ELSE "refused",
                                    table |-> table]]
  /\ UNCHANGED <<hasLocal, agents, live, stored, lock, unsettled>>

(* Variant: the lock is taken only after the row was written.              *)
TakeSaveLockLate(s) ==
  /\ saver[s].pc = "locking"
  /\ saver' = [saver EXCEPT ![s].pc = "writing"]
  /\ UNCHANGED <<hasLocal, agents, live, stored, lock, unsettled>>

TakeSaveLock(s) ==
  /\ saver[s].pc = "locking" /\ lock = None
  /\ lock' = s
  /\ saver' = [saver EXCEPT ![s].pc = "writing"]
  /\ UNCHANGED <<hasLocal, agents, live, stored, unsettled>>

(* kv_set_config: the row is written in the database's own thread ...      *)
WriteRow(s) ==
  /\ saver[s].pc = "writing"
  /\ stored' = saver[s].table
  /\ saver' = [saver EXCEPT ![s].pc = "written"]
  /\ UNCHANGED <<hasLocal, agents, live, lock, unsettled>>

(* ... or fails, which ends the request with nothing applied.              *)
WriteFails(s) ==
  /\ saver[s].pc = "writing"
  /\ saver' = [saver EXCEPT ![s].pc = "failed"]
  /\ lock' = None
  /\ UNCHANGED <<hasLocal, agents, live, stored, unsettled>>

SetRouting(s) ==
  /\ saver[s].pc = "written"
  /\ live' = saver[s].table
  /\ saver' = [saver EXCEPT ![s].pc = "saved"]
  /\ lock' = None
  /\ unsettled' = FALSE
  /\ UNCHANGED <<hasLocal, agents, stored>>

(* The client hangs up while the handler awaits the database: its future,  *)
(* and the lock with it, is dropped; a row already written stays.          *)
SaverDropped(s) ==
  /\ saver[s].pc \in {"locking", "writing", "written"}
  /\ saver' = [saver EXCEPT ![s].pc = "dropped"]
  /\ lock' = IF lock = s THEN None ELSE lock
  /\ unsettled' = (unsettled \/ saver[s].pc = "written")
  /\ UNCHANGED <<hasLocal, agents, live, stored>>

(* The server restarts and loads the row.                                  *)
Restart ==
  /\ \E s \in Savers : saver[s].pc # "idle"
  /\ live' = stored
  /\ saver' = [s \in Savers |-> IF saver[s].pc = "idle" THEN saver[s]
                                ELSE [saver[s] EXCEPT !.pc = "dropped"]]
  /\ lock' = None
  /\ unsettled' = FALSE
  /\ agents' = {}
  /\ UNCHANGED <<hasLocal, stored>>

AgentConnects(n) ==
  /\ n \notin agents
  /\ agents' = agents \cup {n}
  /\ UNCHANGED <<hasLocal, live, stored, saver, lock, unsettled>>

AgentLeaves(n) ==
  /\ n \in agents
  /\ agents' = agents \ {n}
  /\ UNCHANGED <<hasLocal, live, stored, saver, lock, unsettled>>

RoutingNext ==
  \/ \E s \in Savers :
       \/ \E table \in Tables : PostRouting(s, table)
       \/ TakeSaveLock(s) \/ WriteRow(s) \/ WriteFails(s) \/ SetRouting(s) \/ SaverDropped(s)
  \/ Restart
  \/ \E n \in Names : AgentConnects(n) \/ AgentLeaves(n)

-----------------------------------------------------------------------------
(* resolve_source, for an event's sensor identity, its stamp of the agent  *)
(* that imported it and the older hostname stamp.                          *)

Source(name) == [kind |-> "source", name |-> name]

NoSource(name)   == [kind |-> "no-source", name |-> name]
NoRule(name)     == [kind |-> "no-rule", name |-> name]
Ambiguous        == [kind |-> "ambiguous", name |-> None]

(* local_source and pcap_agents: what can serve right now.                 *)
Available == agents \cup (IF hasLocal THEN {Local} ELSE {})

SourceByName(name) == IF name \in Available THEN Source(name) ELSE NoSource(name)

(* The first rule for the identity, else the default.                      *)
Target(identity) ==
  LET matching == {i \in DOMAIN live.rules : identity # None /\ live.rules[i].sensor = identity}
  IN  IF matching = {} THEN live.default
      ELSE live.rules[CHOOSE i \in matching : \A j \in matching : i <= j].source

ByTable(identity) ==
  IF Target(identity) = None THEN NoRule(identity) ELSE SourceByName(Target(identity))

OneOf(sources, missing) ==
  CASE sources = {} -> NoSource(missing)
    [] Cardinality(sources) = 1 -> Source(CHOOSE n \in sources : TRUE)
    [] OTHER -> Ambiguous

(* Variant: an event whose agent is gone falls through to the local spool. *)
ByStampOrLocal(event) ==
  IF event.stamp \in agents THEN Source(event.stamp)
  ELSE IF hasLocal THEN Source(Local) ELSE NoSource(event.stamp)

ByStamp(event) == IF event.stamp \in agents THEN Source(event.stamp) ELSE NoSource(event.stamp)

ByHostname(event) ==
  OneOf({n \in agents : Hostname[n] = event.host},
        IF event.identity # None THEN event.identity ELSE event.host)

(* An unstamped event came in through the server's own input.              *)
Unstamped(event) ==
  IF event.present /\ hasLocal THEN Source(Local)
  ELSE IF event.present /\ event.identity # None THEN NoSource(event.identity)
  ELSE OneOf(Available, None)

Heuristics(event) ==
  IF event.identity \in agents THEN Source(event.identity)
  ELSE IF event.stamp # None THEN ByStamp(event)
  ELSE IF event.host # None THEN ByHostname(event)
  ELSE Unstamped(event)

ResolveSource(event, explicit) ==
  IF explicit # None THEN SourceByName(explicit)
  ELSE IF live # EmptyTable THEN ByTable(event.identity)
  ELSE Heuristics(event)

-----------------------------------------------------------------------------
RoutingSpec == RoutingInit /\ [][RoutingNext]_routeVars

(* The table requests are routed by is the one a restart would load, once  *)
(* no save is under way: concurrent saves never leave the two copies       *)
(* different.  Only a save cut off after its row was written may.          *)
RoutingAgrees ==
  (\A s \in Savers : saver[s].pc \notin {"writing", "written"}) /\ ~unsettled => live = stored

(* Why: the lock is held from before the row is written until the table is *)
(* applied, so the row a save is about to apply is still its own.          *)
SaveHoldsLock ==
  \A s \in Savers : saver[s].pc \in {"writing", "written"} => lock = s

WrittenIsStored == \A s \in Savers : saver[s].pc = "written" => stored = saver[s].table

SettledAgrees ==
  (\A s \in Savers : saver[s].pc # "written") /\ ~unsettled => live = stored

SaverPcs == {"idle", "locking", "refused", "writing", "written", "failed", "saved", "dropped"}

RoutingTypeOK ==
  /\ saver \in [Savers -> [pc : SaverPcs, table : Tables]]
  /\ unsettled \in BOOLEAN

RoutingInv == RoutingTypeOK /\ SaveHoldsLock /\ WrittenIsStored /\ SettledAgrees

=============================================================================
