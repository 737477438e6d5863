---------------------------- MODULE MCRemotePcap ----------------------------
(* Small instances of the agent registry with the captures served over it. *)
EXTENDS RemotePcap, TLC

CONSTANT n1

VARIABLE about  \* "keys" or "capture": drawn once

MCKeyName == [k \in Key |-> n1]

Reported(code, upload, bytes, stats, truncated) ==
  [code |-> code, upload |-> upload, bytes |-> bytes, stats |-> stats, truncated |-> truncated]

(* Results that confirm, misstate, omit or deny an upload.                 *)
MCResults ==
  {Reported("complete", "complete", b, TRUE, FALSE) : b \in 0 .. MaxBytes}
    \cup {Reported("complete", "none", 0, TRUE, TRUE),
          Reported("complete", "none", 0, FALSE, FALSE),
          Reported("empty", "none", 0, FALSE, FALSE),
          Reported("failed", "none", 0, FALSE, FALSE)}

(* A confirming and a denying one, for the runs about connections.         *)
MCFewResults ==
  {Reported("complete", "complete", MaxBytes, TRUE, FALSE), Reported("empty", "none", 0, FALSE, FALSE)}

Symmetry == Permutations(Conn)

MCVars == <<allVars, about>>

Joined == {c \in Conn : cpc'[c] # "idle"}

(* A behaviour is about keys, and then agents authenticate, stay reachable *)
(* (their connections still end by ping, message or cancellation) and are  *)
(* not asked for packets; or about a capture over two connections without  *)
(* keys.                                                                   *)
MCNext ==
  /\ PcapNext
  /\ UNCHANGED about
  /\ about = "keys" => /\ \A r \in Req : req'[r].pc = "idle"
                       /\ \A c \in Joined : ckey'[c] # None /\ peer'[c] = "up"
  /\ about = "capture" => keys' = {} /\ Cardinality(Joined) <= 2

MCInit == PcapInit /\ about \in {"keys", "capture"}

MCSpec == MCInit /\ [][MCNext]_MCVars

CaptureInit == PcapInit /\ about = "capture"

(* One connection that may fall silent, with the fairness of both modules. *)
MCFairSpec ==
  /\ CaptureInit /\ [][MCNext]_MCVars
  /\ PcapFairness
  /\ RegFairness

=============================================================================
