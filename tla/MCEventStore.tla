---------------------------- MODULE MCEventStore ----------------------------
(* A small instance of EventStore.                                         *)
EXTENDS EventStore, TLC

CONSTANTS e1, e2, e3, n1

A(day, ip, host, names, tags) ==
  [day |-> day, alert |-> TRUE, sid |-> 1, ip |-> ip, host |-> host, names |-> names, tags |-> tags]

(* Two alerts of a group on two days and two sensors, of which one names a *)
(* host, and one without addresses that a filter may have archived.        *)
MCAttr == (e1 :> A(0, 1, 1, {}, {FALSE})) @@ (e2 :> A(1, 1, 2, {n1}, {FALSE}))
          @@ (e3 :> A(0, None, 1, {}, BOOLEAN))

(* Two mishaps or operations are enough for any pair of them to meet.      *)
Budget == 2

MCNext == StoreNext /\ ops' + faults' <= Budget

MCSpec == StoreInit /\ [][MCNext]_storeVars /\ StoreFairness
=============================================================================
