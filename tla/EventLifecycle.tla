--------------------------- MODULE EventLifecycle ---------------------------
(***************************************************************************)
(* What the event store promises of one event, whichever database keeps    *)
(* it: an event is absent, then stored, then possibly removed; archiving   *)
(* is for good; escalation can be set and cleared.  A store that keeps its *)
(* word (SQLite) removes no escalated event and no removed one comes back. *)
(* Every operation of the store changes a whole set of events in one step. *)
(***************************************************************************)
CONSTANT Events   \* the events the sensors produce

VARIABLES
    keeps,      \* does this store keep escalated events, and removed ones out?
    stage,      \* [Events -> {"absent", "stored", "removed"}]
    archived,   \* the events marked archived
    escalated   \* the events marked escalated

lifeVars == <<keeps, stage, archived, escalated>>

In(s) == {e \in Events : stage[e] = s}

LifeInit ==
    /\ keeps \in BOOLEAN
    /\ stage = [e \in Events |-> "absent"]
    /\ archived = {}
    /\ escalated = {}

\* Ingest stores a set of new events; some arrive archived by a filter.
Arrive(S) ==
    /\ S \subseteq In("absent") \union IF keeps THEN {} ELSE In("removed")
    /\ stage' = [e \in Events |-> IF e \in S THEN "stored" ELSE stage[e]]
    /\ \E A \in SUBSET S : archived' = archived \union A
    /\ UNCHANGED <<keeps, escalated>>

Archive(S) ==
    /\ S \subseteq In("stored")
    /\ archived' = archived \union S
    /\ UNCHANGED <<keeps, stage, escalated>>

SetEscalated(S) ==
    /\ S \subseteq In("stored")
    /\ escalated' \in {escalated \union S, escalated \ S}
    /\ UNCHANGED <<keeps, stage, archived>>

Remove(S) ==
    /\ S \subseteq In("stored")
    /\ keeps => S \cap escalated = {}
    /\ stage' = [e \in Events |-> IF e \in S THEN "removed" ELSE stage[e]]
    /\ archived' = archived \ S
    /\ escalated' = escalated \ S
    /\ UNCHANGED keeps

LifeNext ==
    \E S \in SUBSET Events : Arrive(S) \/ Archive(S) \/ SetEscalated(S) \/ Remove(S)

LifeSpec == LifeInit /\ [][LifeNext]_lifeVars

=============================================================================
