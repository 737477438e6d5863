----------------------------- MODULE MCEveIngest -----------------------------
(* The ways EveReader and Processor are put to work, on small instances:   *)
(* the configuration's constants give a service that follows a spool and   *)
(* deletes what it has read; the instances below a service that follows a  *)
(* plain log, rotated or long, and a oneshot import.                       *)
EXTENDS EveIngest

VARIABLES
  mode,      \* drawn once
  logDisk,   \* disk and wino of a plain log, which has one path
  logInode

mcVars == <<vars, mode, logDisk, logInode>>

Rotated ==
  INSTANCE EveIngest WITH NFiles <- 2, MaxLines <- 1, MaxFaults <- 1, Spool <- FALSE, End <- TRUE,
    DeleteSpool <- FALSE, disk <- logDisk, wino <- logInode

Long ==
  INSTANCE EveIngest WITH NFiles <- 1, MaxLines <- 2, MaxFaults <- 1, Spool <- FALSE, End <- TRUE,
    DeleteSpool <- FALSE, disk <- logDisk, wino <- logInode

Import ==
  INSTANCE EveIngest WITH NFiles <- 2, MaxLines <- 2, MaxFaults <- 1, Oneshot <- TRUE,
    Kinds <- AllKinds, SubmitFails <- {"notime"}, HasBookmark <- FALSE, DeleteSpool <- FALSE

Watched == /\ disk = [p \in Path |-> IF p = 1 THEN 1 ELSE NoFile] /\ wino = 1
Unused  == logDisk = <<1>> /\ logInode = 1

MCInit ==
  \/ mode = "spool" /\ Init /\ Unused
  \/ mode = "rotated" /\ Rotated!Init /\ Watched
  \/ mode = "long" /\ Long!Init /\ Watched
  \/ mode = "import" /\ Import!Init /\ Unused

(* A process that has exited stays as it is.                               *)
Exited == pc \in {"done", "dead"} /\ UNCHANGED vars

MCNext ==
  /\ \/ mode = "spool" /\ Next /\ UNCHANGED <<logDisk, logInode>>
     \/ mode = "rotated" /\ Rotated!Next /\ UNCHANGED <<disk, wino>>
     \/ mode = "long" /\ Long!Next /\ UNCHANGED <<disk, wino>>
     \/ mode = "import" /\ (Import!Next \/ Exited) /\ UNCHANGED <<logDisk, logInode>>
  /\ UNCHANGED mode

(* The runtime schedules the task and the service manager restarts a dead  *)
(* process; writers and faults owe nothing.                                *)
MCSpec == MCInit /\ [][MCNext]_mcVars /\ WF_vars(mode = "spool" /\ Process)

(* A service that follows a spool stores every event line, unless it was   *)
(* written in the window between the reader's end of file and its look for *)
(* a successor.                                                            *)
SpoolIsStored ==
  \A line \in Line :
    (mode = "spool" /\ EventAt(line)) ~> (line \in committed \cup waived)

=============================================================================
