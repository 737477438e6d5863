--------------------------- MODULE MCSpoolExtract ---------------------------
(* A small spool: half-second ticks, two capture threads, one flow.        *)
EXTENDS SpoolExtract

Kind(src, dst, sport, dport, frag, vlan, flow) ==
  [src |-> src, dst |-> dst, sport |-> sport, dport |-> dport, proto |-> "tcp", frag |-> frag,
   vlan |-> vlan, flow |-> flow]

Forward == Kind("a", "b", 1, 2, FALSE, FALSE, "f")
Reply   == Kind("b", "a", 2, 1, FALSE, TRUE, "f")
Rest    == Kind("a", "b", None, None, TRUE, FALSE, "f")
Mirror  == Kind("a", "b", 2, 1, FALSE, FALSE, "g")

MCKinds == {Forward, Reply, Rest, Mirror}

Alert == [type |-> "alert", ts |-> 2, start |-> 1, end |-> None, src |-> "a", dst |-> "b",
          sport |-> 1, dport |-> 2, proto |-> "tcp", v6 |-> FALSE, mixed |-> FALSE, flow |-> "f"]

Flow == [Alert EXCEPT !.type = "flow", !.end = 2, !.dport = None]

Ask == [event |-> None, start |-> None, duration |-> None, before |-> None, after |-> None,
        filter |-> None, max |-> 9, aliases |-> FALSE, cli |-> FALSE]

Only == [kinds |-> {Forward}, links |-> {"ethernet"}]

FlowAsks ==
  {[Ask EXCEPT !.event = Alert], [Ask EXCEPT !.event = Flow],
   [Ask EXCEPT !.event = Alert, !.before = 1, !.filter = Only, !.max = 1],
   [Ask EXCEPT !.event = [Alert EXCEPT !.src = None]]}

(* From the middle of the third second; from the start.  On the command    *)
(* line: the same late window with no end, the whole spool, and an output  *)
(* file that is one of the captures.                                       *)
Late  == [Ask EXCEPT !.start = 5, !.duration = 1]
Whole == [Ask EXCEPT !.start = 0, !.duration = 4]

CliLate  == [Ask EXCEPT !.start = 5, !.cli = TRUE]
CliWhole == [Ask EXCEPT !.cli = TRUE]
CliOver  == [CliWhole EXCEPT !.aliases = TRUE]

MCAsks     == FlowAsks \cup {Late, Whole, CliWhole, CliOver}
MarginAsks == {CliLate}

MCPolicies ==
  {[by |-> "count", n |-> 1, force |-> TRUE], [by |-> "size", n |-> 2, force |-> TRUE],
   [by |-> "size", n |-> 0, force |-> FALSE]}

(* Four instances.  Events of a flow, in a spool written beforehand; a     *)
(* window that starts within a second, while the sensor writes on; an      *)
(* extraction that may be stopped, one pass of a purge and the sensor      *)
(* together; and passes of the purge without an extraction.                *)
VARIABLE part

MCInit == SpoolInit /\ part \in {"flow", "window", "purge", "passes"} /\ (part = "flow" => ~odd)

(* Recording with the given packets, link types, stamps, time and files.   *)
Writes(kinds, links, stamps, last, files) ==
  \/ clock < last /\ Tick
  \/ \E t \in Threads, kind \in kinds, ts \in stamps :
       Record(t, kind, ts) \/ \E link \in links : Len(file) < files /\ Rotate(t, kind, ts, link)

FlowNext ==
  \/ job.pc = "idle" /\ Writes(MCKinds, Links, {clock}, 2, 2)
  \/ List \/ Fetch \/ \E ask \in FlowAsks \cap Asks : Start(ask)

WindowNext ==
  \/ job.pc \in {"idle", "list"} /\ Writes({Forward}, {"ethernet"}, Stamps, 6, 3)
  \/ List \/ Fetch \/ \E ask \in {Late, CliLate, CliWhole} \cap Asks : Start(ask)

PurgeNext ==
  \/ Writes({Forward}, {"ethernet"}, {clock}, 2, 3)
  \/ purge.pc # "over" /\ Purge
  \/ List \/ Fetch \/ Stops \/ \E ask \in {Whole, CliOver} \cap Asks : Start(ask)

PassesNext == Writes({Forward}, {"ethernet"}, {clock}, 3, 3) \/ Purge

MCNext ==
  /\ UNCHANGED part
  /\ \/ part = "flow" /\ FlowNext
     \/ part = "window" /\ WindowNext
     \/ part = "purge" /\ PurgeNext
     \/ part = "passes" /\ PassesNext

MCSpec == MCInit /\ [][MCNext]_<<spoolVars, part>>
=============================================================================
