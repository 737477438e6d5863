---------------------------- MODULE MCLocalPcap ----------------------------
(* Instances of LocalPcap: one request for the local spool; two of them;   *)
(* five against a spool whose reads hang; requests of any kind while       *)
(* agents come and go; two operators saving tables.                        *)
EXTENDS LocalPcap

CONSTANTS r1, r2, r3, r4, r5, a1, a2, h1, s1, o1, o2

MCHostname == [n \in Names |-> h1]

Rule(sensor, source) == [sensor |-> sensor, source |-> source]

MCTables ==
  {EmptyTable, [rules |-> <<>>, default |-> a1],
   [rules |-> <<Rule(s1, Local), Rule(s1, a2)>>, default |-> None],
   [rules |-> <<Rule(s1, None)>>, default |-> None]}

Event(present, identity, stamp, host) ==
  [present |-> present, identity |-> identity, stamp |-> stamp, host |-> host]

NoEvent == Event(FALSE, None, None, None)

Ask(native, dryRun, event, source) ==
  [native |-> native, dryRun |-> dryRun, large |-> FALSE, bad |-> "none", event |-> event,
   source |-> source]

(* Downloads of an event of the server's own input.                        *)
Download(native) == Ask(native, FALSE, Event(TRUE, s1, None, None), None)
Downloads == {Download(native) : native \in BOOLEAN}

(* Every way an event may name where its packets are.                      *)
Asks ==
  {Ask(TRUE, FALSE, Event(TRUE, identity, stamp, host), None) :
       identity \in {None, s1, a2}, stamp \in {None, a1}, host \in {None, h1}}
    \cup {Ask(TRUE, dryRun, NoEvent, None) : dryRun \in BOOLEAN}
    \cup {Ask(TRUE, FALSE, NoEvent, source) : source \in {Local, a2}}
    \cup {[Ask(FALSE, FALSE, NoEvent, None) EXCEPT !.large = TRUE],
          [Ask(TRUE, FALSE, NoEvent, None) EXCEPT !.bad = "bad-request"]}

MCInputs == Downloads \cup Asks

VARIABLE part

(* The requests of each part, and what they ask for.                       *)
Active == CASE part = "one" -> {r1} [] part = "two" -> {r1, r2} [] part = "route" -> {r1, r2, r3}
            [] part = "wedge" -> Requests [] OTHER -> {}

FirstAsks  == CASE part = "one" -> Downloads [] part = "route" -> Asks
                [] OTHER -> {Download(TRUE)}
SecondAsks == CASE part = "two" -> {Download(FALSE)}
                [] part = "route" -> {Ask(TRUE, FALSE, NoEvent, Local)} [] OTHER -> {Download(TRUE)}
OtherAsks  == IF part = "route" THEN Ask(TRUE, FALSE, NoEvent, a2) ELSE Download(TRUE)

MCInit ==
  /\ part \in {"one", "two", "wedge", "route", "save"}
  /\ \E first \in FirstAsks, second \in SecondAsks :
       input = [r \in Requests |-> CASE r = r1 -> first [] r = r2 -> second [] OTHER -> OtherAsks]
  /\ LocalInit
  /\ Valid(live)
  /\ part # "route" => hasLocal /\ agents = {} /\ live = EmptyTable

(* Two requests: the second finds the first one waiting, or its thread     *)
(* detached; no panics, and at most one chunk each.                        *)
Overlaps ==
  \/ handler'[r2] = "idle" \/ handler[r2] # "idle"
  \/ thread[r1] \notin {"none", "ended"} /\ (Holds(r1) => handler[r1] = "waiting")
Short(r) == (thread'[r] = "sending" => made[r] = 0) /\ result'[r] # "panic"

(* A wedged spool: every thread hangs in its first read, and the requests  *)
(* come one after the other.                                               *)
Order == <<r1, r2, r3, r4, r5>>
Hangs(r) ==
  /\ thread'[r] \in {"none", "spawned", "scanning", "stuck"} /\ ~ReadReturns(r)
  /\ handler'[r] # "gone"
  /\ \A i \in 2 .. 5 : handler'[Order[i]] # "idle" => thread[Order[i - 1]] = "stuck"

MCNext ==
  /\ UNCHANGED part
  /\ \/ part = "one" /\ \E r \in Active : RequestNext(r)
     \/ part = "two" /\ \E r \in Active : RequestNext(r) /\ Short(r) /\ Overlaps
     \/ part = "wedge" /\ \E r \in Active : RequestNext(r) /\ Hangs(r)
     \/ part = "route" /\ \E r \in Active : Arrives(r)
     \/ part = "route" /\ UNCHANGED serveVars /\ \E n \in Names : AgentConnects(n) \/ AgentLeaves(n)
     \/ part = "save" /\ RoutingNext /\ UNCHANGED serveVars

MCSpec == MCInit /\ [][MCNext]_<<localVars, part>> /\ LocalFairness

=============================================================================
