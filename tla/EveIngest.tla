------------------------------ MODULE EveIngest ------------------------------
(***************************************************************************)
(* The EVE file pipeline: Suricata appends lines to a log file or to a     *)
(* spool of timestamped files, EveReader follows them, Processor submits   *)
(* the events to a sink in batches, commits a batch to the event store     *)
(* and only then writes the bookmark from which a restarted process        *)
(* resumes.  Processed spool files may be deleted after a bookmark.        *)
(*                                                                         *)
(* A file is an inode holding a sequence of lines.  In spool mode every    *)
(* inode has a path of its own (its timestamp); in plain mode the single   *)
(* path 1 is re-bound to a fresh inode when the log is rotated.  A line is *)
(* named <<inode, number>>; the bytes of an event are left out.  Positions *)
(* and sizes count lines, an unterminated last line counting as one.       *)
(***************************************************************************)
EXTENDS Naturals, Sequences, FiniteSets

CONSTANTS
  NFiles,       \* bound: inodes the writer may create
  MaxLines,     \* bound: lines per inode
  MaxFaults,    \* bound: crashes, failed commits and failed bookmark writes
  BatchSize,    \* DEFAULT_BATCH_SIZE
  Kinds,        \* kinds of line the writer produces
  SubmitFails,  \* kinds for which the sink's submit returns an error
  Spool,        \* the input is a timestamped spool
  End,          \* without a bookmark, start at the end of the input
  HasBookmark,  \* a writable bookmark file was found
  DeleteSpool,  \* input.delete-spool-files
  Oneshot       \* exit at end of file

AllKinds == {"event", "blank", "bad", "notime"}

ASSUME IngestAssumption ==
  /\ NFiles \in Nat \ {0} /\ MaxLines \in Nat /\ MaxFaults \in Nat
  /\ BatchSize \in Nat \ {0}
  /\ Kinds \subseteq AllKinds
  /\ SubmitFails \subseteq {"notime"}
  /\ {Spool, End, HasBookmark, DeleteSpool, Oneshot} \subseteq BOOLEAN
  /\ DeleteSpool => Spool /\ HasBookmark

Inode  == 1 .. NFiles
Path   == IF Spool THEN Inode ELSE {1}
NoFile == 0
Line   == Inode \X (1 .. MaxLines)

VARIABLES
  content,    \* inode -> the complete lines written to it
  partial,    \* inode -> it ends in an unterminated line
  disk,       \* path -> the inode bound to it, or NoFile
  wino,       \* inode the writer appends to
  pc,         \* control point of the process ("down" when it is not running)
  after,      \* where control returns after a commit and checkpoint
  filename,   \* EveReader.filename
  open,       \* inode behind EveReader.reader, or NoFile
  pos,        \* EveReader.lineno, which is also its offset in lines
  goal,       \* line number the bookmark asked for
  completed,  \* EveReader.completed_spool_files
  pending,    \* the sink's queue
  bookmark,   \* the bookmark file
  committed,  \* lines in the event store
  dups,       \* lines stored more than once
  seen,       \* history: lines the open file had when its end was last reached
  waived,     \* history: lines the reader skips or abandons (see Waive)
  faults      \* faults so far

writer == <<content, partial, disk, wino>>
reader == <<filename, open, pos, goal, completed>>
sink   == <<pending, committed, dups>>
ghost  == <<seen, waived>>
vars   == <<writer, pc, after, reader, sink, bookmark, ghost, faults>>

Bookmarks ==
  [path : Path, lineno : 0 .. MaxLines, size : 0 .. MaxLines + 1, inode : Inode]

NoBookmark == [path |-> NoFile, lineno |-> 0, size |-> 0, inode |-> NoFile]

Running == {"skip", "toend", "read", "scan", "idle", "commit", "mark",
            "write", "delete", "check", "reopen", "done", "dead"}

TypeWriter ==
  /\ content \in [Inode -> Seq(Kinds)]
  /\ \A i \in Inode : Len(content[i]) <= MaxLines
  /\ partial \in [Inode -> BOOLEAN]
  /\ disk \in [Path -> Inode \cup {NoFile}]
  /\ wino \in Inode

TypeReader ==
  /\ pc \in Running \cup {"down"}
  /\ after \in {"read", "eof", "check"}
  /\ filename \in Path
  /\ open \in Inode \cup {NoFile}
  /\ pos \in 0 .. MaxLines
  /\ goal \in 0 .. MaxLines
  /\ completed \subseteq Path

TypeStore ==
  /\ pending \subseteq Line
  /\ committed \subseteq Line
  /\ dups \subseteq Line
  /\ bookmark \in Bookmarks \cup {NoBookmark}
  /\ seen \in 0 .. MaxLines
  /\ waived \subseteq Line
  /\ faults \in 0 .. MaxFaults

TypeOK == TypeWriter /\ TypeReader /\ TypeStore

Init ==
  /\ content = [i \in Inode |-> <<>>]
  /\ partial = [i \in Inode |-> FALSE]
  /\ disk = [p \in Path |-> IF p = 1 THEN 1 ELSE NoFile]
  /\ wino = 1
  /\ pc = "down" /\ after = "read"
  /\ filename = 1 /\ open = NoFile /\ pos = 0 /\ goal = 0 /\ completed = {}
  /\ pending = {} /\ committed = {} /\ dups = {}
  /\ bookmark = NoBookmark
  /\ seen = 0 /\ waived = {}
  /\ faults = 0

Size(i) == Len(content[i]) + (IF partial[i] THEN 1 ELSE 0)
Lines(i, m, n) == {<<i, k>> : k \in m .. n}

(* What no restart and no retry brings back, recorded so that the          *)
(* properties can name it: lines skipped by a start at the end of the      *)
(* input or by a bookmark applied to another file, lines of a truncated    *)
(* file, and lines appended after the reader saw the end of a file that it *)
(* then abandons for its successor.                                        *)
Waive(lines) == waived' = waived \cup lines /\ UNCHANGED seen

Abandoned == Lines(open, seen + 1, Len(content[open]))

-----------------------------------------------------------------------------
(* The writer (Suricata, log rotation): external to EveBox.                *)

AppendLine(kind) ==
  /\ Len(content[wino]) < MaxLines
  /\ content' = [content EXCEPT ![wino] = Append(@, kind)]
  /\ partial' = [partial EXCEPT ![wino] = FALSE]
  /\ UNCHANGED <<disk, wino, pc, after, reader, sink, bookmark, ghost, faults>>

AppendPartial ==
  /\ Len(content[wino]) < MaxLines /\ ~partial[wino]
  /\ partial' = [partial EXCEPT ![wino] = TRUE]
  /\ UNCHANGED <<content, disk, wino, pc, after, reader, sink, bookmark, ghost, faults>>

(* Spool mode: open the next timestamped file.                             *)
NextSpoolFile ==
  /\ Spool /\ wino < NFiles
  /\ wino' = wino + 1
  /\ disk' = [disk EXCEPT ![wino + 1] = wino + 1]
  /\ UNCHANGED <<content, partial, pc, after, reader, sink, bookmark, ghost, faults>>

(* Plain mode: rename the log away; the writer keeps the old inode open    *)
(* until it creates the new file.                                          *)
RenameLog ==
  /\ ~Spool /\ disk[1] # NoFile /\ wino < NFiles
  /\ disk' = [disk EXCEPT ![1] = NoFile]
  /\ UNCHANGED <<content, partial, wino, pc, after, reader, sink, bookmark, ghost, faults>>

CreateLog ==
  /\ ~Spool /\ disk[1] = NoFile /\ wino < NFiles
  /\ wino' = wino + 1
  /\ disk' = [disk EXCEPT ![1] = wino + 1]
  /\ UNCHANGED <<content, partial, pc, after, reader, sink, bookmark, ghost, faults>>

(* Plain mode: copy-and-truncate.  Positions in the inode lose their       *)
(* meaning, so its lines are waived.                                       *)
TruncateLog ==
  /\ ~Spool /\ disk[1] = wino /\ content[wino] # <<>>
  /\ content' = [content EXCEPT ![wino] = <<>>]
  /\ partial' = [partial EXCEPT ![wino] = FALSE]
  /\ Waive(Lines(wino, 1, MaxLines))
  /\ UNCHANGED <<disk, wino, pc, after, reader, sink, bookmark, faults>>

-----------------------------------------------------------------------------
(* Start-up: the watcher picks a file, Processor.run looks for a bookmark. *)

Existing == {p \in Path : disk[p] # NoFile}

IsOldest(p, S) == p \in S /\ \A q \in S : p <= q
IsNewest(p, S) == p \in S /\ \A q \in S : p >= q

(* SpoolFile::newer_file: the files of the stream newer than the current.  *)
Newer == {p \in Existing : p > filename}

BookmarkValid ==
  /\ HasBookmark /\ bookmark # NoBookmark
  /\ disk[bookmark.path] = bookmark.inode
  /\ Size(bookmark.inode) >= bookmark.size

NoBookmarkStart == IF End THEN "toend" ELSE "read"

Start ==
  /\ pc = "down" /\ Existing # {}
  /\ \/ /\ BookmarkValid
        /\ filename' = bookmark.path
        /\ goal' = bookmark.lineno
        /\ pc' = "skip"
     \/ /\ ~BookmarkValid
        /\ \E p \in Existing :
             /\ IF End THEN IsNewest(p, Existing) ELSE IsOldest(p, Existing)
             /\ filename' = p
        /\ pc' = NoBookmarkStart
        /\ UNCHANGED goal
  /\ UNCHANGED <<writer, after, open, pos, completed, sink, bookmark, ghost, faults>>

(* goto_lineno.  The path is resolved again here: if it was re-bound since *)
(* the bookmark was validated, lines of another file are skipped.          *)
GotoLineno ==
  LET i == disk[filename] IN
  /\ pc = "skip"
  /\ \/ /\ i # NoFile
        /\ open' = i
        /\ pos' = IF goal <= Len(content[i]) THEN goal ELSE Len(content[i])
        /\ pc' = "read"
        /\ Waive(IF i = bookmark.inode THEN {} ELSE Lines(i, 1, pos'))
     \/ /\ i = NoFile
        /\ pc' = NoBookmarkStart
        /\ UNCHANGED <<open, pos, ghost>>
  /\ UNCHANGED <<writer, after, filename, goal, completed, sink, bookmark, faults>>

(* goto_end: move to the newest file and skip what it holds.               *)
GotoEnd ==
  /\ pc = "toend"
  /\ IF Newer = {} THEN UNCHANGED filename
     ELSE \E p \in Newer : IsNewest(p, Newer) /\ filename' = p
  /\ pc' = "read"
  /\ LET i == disk[filename'] IN
     \/ /\ i # NoFile
        /\ open' = i
        /\ pos' = Len(content[i])
        /\ Waive(Lines(i, 1, Len(content[i])))
     \/ /\ i = NoFile
        /\ UNCHANGED <<open, pos, ghost>>
  /\ UNCHANGED <<writer, after, goal, completed, sink, bookmark, faults>>

-----------------------------------------------------------------------------
(* Processor.run: read records until end of file.                          *)

OpenFile ==
  /\ pc = "read" /\ open = NoFile /\ disk[filename] # NoFile
  /\ open' = disk[filename] /\ pos' = 0
  /\ UNCHANGED <<writer, pc, after, filename, goal, completed, sink, bookmark, ghost, faults>>

ReadLine ==
  /\ pc = "read" /\ open # NoFile /\ pos < Len(content[open])
  /\ pos' = pos + 1

(* Blank lines are skipped, malformed ones reported and skipped.           *)
SkipLine ==
  /\ ReadLine
  /\ content[open][pos + 1] \in {"blank", "bad"}
  /\ UNCHANGED <<writer, pc, after, filename, open, goal, completed, sink, bookmark, ghost, faults>>

(* A record goes to the sink.  The EveBox sink may ask for a commit before *)
(* the batch is full because of the size of the queued events.             *)
Submit ==
  /\ ReadLine
  /\ content[open][pos + 1] \notin {"blank", "bad"} \cup SubmitFails
  /\ pending' = pending \cup {<<open, pos + 1>>}
  /\ \E full \in BOOLEAN :
       pc' = IF full \/ Cardinality(pending') >= BatchSize THEN "commit" ELSE "read"
  /\ after' = "read"
  /\ UNCHANGED <<writer, filename, open, goal, completed, committed, dups, bookmark, ghost, faults>>

(* submit(event).await.unwrap(): the task panics and is not restarted.     *)
SubmitPanics ==
  /\ ReadLine
  /\ content[open][pos + 1] \in SubmitFails
  /\ pc' = "dead"
  /\ UNCHANGED <<writer, after, filename, open, goal, completed, sink, bookmark, ghost, faults>>

(* read_line returned nothing, or an unterminated line it seeks back over. *)
EndOfFile ==
  /\ pc = "read" /\ open # NoFile /\ pos >= Len(content[open])
  /\ pc' = "scan"
  /\ seen' = Len(content[open])
  /\ UNCHANGED <<writer, after, reader, sink, bookmark, waived, faults>>

(* Variant: jumps to the newest file, as goto_end does.                    *)
AdvanceSpoolToNewest ==
  /\ pc = "scan"
  /\ \E p \in Newer : IsNewest(p, Newer) /\ filename' = p
  /\ open' = NoFile /\ pos' = 0
  /\ completed' = IF DeleteSpool THEN completed \cup {filename} ELSE completed
  /\ pc' = "read"
  /\ Waive(Abandoned)
  /\ UNCHANGED <<writer, after, goal, sink, bookmark, faults>>

(* SpoolFile::next: go on with the oldest newer file of the stream.        *)
AdvanceSpool ==
  /\ pc = "scan"
  /\ \E p \in Newer : IsOldest(p, Newer) /\ filename' = p
  /\ open' = NoFile /\ pos' = 0
  /\ completed' = IF DeleteSpool THEN completed \cup {filename} ELSE completed
  /\ pc' = "read"
  /\ Waive(Abandoned)
  /\ UNCHANGED <<writer, after, goal, sink, bookmark, faults>>

NoNewerFile ==
  /\ pc = "scan" /\ Newer = {}
  /\ pc' = "idle"
  /\ UNCHANGED <<writer, after, reader, sink, bookmark, ghost, faults>>

(* Variant: completed files are checkpointed before the queue is flushed.  *)
IdleCheckpointFirst ==
  /\ pc = "idle"
  /\ \/ /\ completed # {}
        /\ pc' = "mark" /\ after' = "check"
     \/ /\ pending # {} /\ completed = {}
        /\ pc' = "commit" /\ after' = "eof"
     \/ /\ pending = {} /\ completed = {}
        /\ pc' = "check" /\ UNCHANGED after
  /\ UNCHANGED <<writer, reader, sink, bookmark, ghost, faults>>

(* The Ok(None) arm of the loop.                                           *)
Idle ==
  /\ pc = "idle"
  /\ \/ /\ pending # {}
        /\ pc' = "commit" /\ after' = "eof"
     \/ /\ pending = {} /\ completed # {}
        /\ pc' = "mark" /\ after' = "check"
     \/ /\ pending = {} /\ completed = {}
        /\ pc' = "check" /\ UNCHANGED after
  /\ UNCHANGED <<writer, reader, sink, bookmark, ghost, faults>>

FileChanged ==
  LET i == disk[filename] IN
  /\ i # NoFile
  /\ \/ i # open
     \/ Size(i) < pos

CheckChanged ==
  /\ pc = "check"
  /\ pc' = IF Oneshot THEN "done" ELSE IF FileChanged THEN "reopen" ELSE "read"
  /\ UNCHANGED <<writer, after, reader, sink, bookmark, ghost, faults>>

Reopen ==
  /\ pc = "reopen"
  /\ open' = disk[filename] /\ pos' = 0
  /\ pc' = "read"
  /\ Waive(Abandoned)
  /\ UNCHANGED <<writer, after, filename, goal, completed, sink, bookmark, faults>>

-----------------------------------------------------------------------------
(* Processor.commit and checkpoint.                                        *)

Return ==
  CASE after = "read"  -> "read"
    [] after = "eof"   -> IF Oneshot THEN "done" ELSE "read"
    [] after = "check" -> "check"

Store ==
  /\ committed' = committed \cup pending
  /\ dups' = dups \cup (pending \cap committed)

(* Variant: the queue is not cleared.                                      *)
CommitKeepsQueue ==
  /\ pc = "commit"
  /\ Store
  /\ pc' = "mark"
  /\ UNCHANGED <<writer, after, reader, pending, bookmark, ghost, faults>>

(* The batch is stored as a whole and the queue is emptied.                *)
CommitOk ==
  /\ pc = "commit"
  /\ Store
  /\ pending' = {}
  /\ pc' = "mark"
  /\ UNCHANGED <<writer, after, reader, bookmark, ghost, faults>>

(* Variant: a failed batch is dropped and the checkpoint taken.            *)
CommitDropsBatch ==
  /\ pc = "commit" /\ faults < MaxFaults
  /\ faults' = faults + 1
  /\ pending' = {}
  /\ pc' = "mark"
  /\ UNCHANGED <<writer, after, reader, committed, dups, bookmark, ghost>>

(* The commit failed and is tried again with the same queue; the store may *)
(* have taken the batch although the answer was an error or was lost.      *)
CommitFails ==
  /\ pc = "commit" /\ faults < MaxFaults
  /\ faults' = faults + 1
  /\ \/ Store
     \/ UNCHANGED <<committed, dups>>
  /\ UNCHANGED <<writer, pc, after, reader, pending, bookmark, ghost>>

(* Bookmark::write truncates the file and then fills it.                   *)
TruncateBookmark ==
  /\ pc = "mark" /\ HasBookmark
  /\ bookmark' = NoBookmark
  /\ pc' = "write"
  /\ UNCHANGED <<writer, after, reader, sink, ghost, faults>>

NoBookmarkFile ==
  /\ pc = "mark" /\ ~HasBookmark
  /\ pc' = Return
  /\ UNCHANGED <<writer, after, reader, sink, bookmark, ghost, faults>>

WriteBookmark ==
  /\ pc = "write"
  /\ bookmark' = [path |-> filename, lineno |-> pos, size |-> Size(open), inode |-> open]
  /\ pc' = "delete"
  /\ UNCHANGED <<writer, after, reader, sink, ghost, faults>>

(* File::create or write_all fails: nothing is deleted, the list is kept.  *)
BookmarkFails ==
  /\ pc \in {"mark", "write"} /\ HasBookmark /\ faults < MaxFaults
  /\ faults' = faults + 1
  /\ pc' = Return
  /\ UNCHANGED <<writer, after, reader, sink, bookmark, ghost>>

(* delete_completed_spool_files: a file whose removal fails is forgotten.  *)
DeleteCompleted ==
  /\ pc = "delete"
  /\ \E removed \in SUBSET completed :
       disk' = [p \in Path |-> IF p \in removed THEN NoFile ELSE disk[p]]
  /\ completed' = {}
  /\ pc' = Return
  /\ UNCHANGED <<content, partial, wino, after, filename, open, pos, goal, sink,
                 bookmark, ghost, faults>>

(* The process dies: what it held in memory is gone.                       *)
Crash ==
  /\ pc \in Running /\ faults < MaxFaults
  /\ faults' = faults + 1
  /\ pc' = "down" /\ after' = "read"
  /\ filename' = 1 /\ open' = NoFile /\ pos' = 0 /\ goal' = 0 /\ completed' = {}
  /\ pending' = {}
  /\ UNCHANGED <<writer, committed, dups, bookmark, ghost>>

-----------------------------------------------------------------------------
Writer ==
  \/ \E kind \in Kinds : AppendLine(kind)
  \/ AppendPartial
  \/ NextSpoolFile
  \/ RenameLog
  \/ CreateLog
  \/ TruncateLog

Process ==
  \/ Start \/ GotoLineno \/ GotoEnd
  \/ OpenFile \/ SkipLine \/ Submit \/ SubmitPanics
  \/ EndOfFile \/ AdvanceSpool \/ NoNewerFile \/ Idle
  \/ CheckChanged \/ Reopen
  \/ CommitOk
  \/ TruncateBookmark \/ NoBookmarkFile \/ WriteBookmark \/ DeleteCompleted

Fault == CommitFails \/ BookmarkFails \/ Crash

Next == Writer \/ Process \/ Fault

Spec == Init /\ [][Next]_vars

-----------------------------------------------------------------------------
(* Properties.                                                             *)

Accounted(i, k) ==
  content[i][k] = "event" => <<i, k>> \in committed \cup waived

(* Nothing before the bookmark is lost: every event on a line the          *)
(* persisted bookmark tells a restarted process to skip is in the store.   *)
BookmarkCommitted ==
  bookmark # NoBookmark =>
    \A k \in 1 .. bookmark.lineno :
      k <= Len(content[bookmark.inode]) => Accounted(bookmark.inode, k)

(* Every event the reader has moved past is in the store or in the sink's  *)
(* queue: a failed commit never drops a batch.                             *)
ConsumedHeld ==
  open # NoFile /\ pc # "dead" =>
    \A k \in 1 .. pos : k <= Len(content[open]) =>
      Accounted(open, k) \/ <<open, k>> \in pending

Deleted(p) == Spool /\ p <= wino /\ disk[p] = NoFile

(* A spool file is deleted only when its events are in the store, save     *)
(* those written in the end-of-file window.                                *)
DeletedCommitted ==
  \A p \in Path : Deleted(p) => \A k \in 1 .. Len(content[p]) : Accounted(p, k)

(* The promise of the configuration file, without the exception: "Delete   *)
(* timestamped spool files after their events are committed and the        *)
(* bookmark advances to a newer file."                                     *)
SpoolDeletionSafe ==
  \A p \in Path : Deleted(p) =>
    \A k \in 1 .. Len(content[p]) : content[p][k] = "event" => <<p, k>> \in committed

(* "... and the bookmark advances to a newer file": the persisted bookmark *)
(* never names a deleted file, so a restart can always resume from it,     *)
(* also when writing the new bookmark failed.                              *)
BookmarkOutlivesDeletion == bookmark # NoBookmark => ~Deleted(bookmark.path)

(* An event is stored twice only after a crash, a failed commit or a       *)
(* failed bookmark write.                                                  *)
DuplicatesNeedFaults == faults = 0 => dups \subseteq waived

(* A process that exits at end of file has flushed its queue.              *)
OneshotFlushed == pc = "done" => pending = {}

EventAt(line) ==
  /\ line[2] <= Len(content[line[1]])
  /\ content[line[1]][line[2]] = "event"

-----------------------------------------------------------------------------
(* The inductive invariant behind the safety properties.                   *)

Held(i, k) == content[i][k] = "event" => <<i, k>> \in committed \cup waived \cup pending

Waived(i) == Lines(i, 1, MaxLines) \subseteq waived

(* A position lies past the end of its file only after a truncation, and   *)
(* then the whole file is waived: a later append cannot land before it.    *)
PositionsBound ==
  /\ open # NoFile => pos <= Len(content[open]) \/ Waived(open)
  /\ bookmark # NoBookmark =>
       bookmark.lineno <= Len(content[bookmark.inode]) \/ Waived(bookmark.inode)

(* What each control point may rely on.                                    *)
ControlState ==
  /\ pc \in {"down", "skip", "toend"} => open = NoFile /\ completed = {}
  /\ pc \in {"scan", "idle", "commit", "mark", "write", "delete", "check", "reopen"} =>
       open # NoFile
  /\ pc \in {"mark", "write", "delete", "check", "reopen", "done"} => pending = {}
  /\ pc = "skip" => bookmark # NoBookmark /\ goal = bookmark.lineno
  /\ pc = "scan" => seen <= pos
  /\ pc = "delete" => bookmark # NoBookmark /\ bookmark.path = filename

(* A spool path is bound to its own inode, the files the writer and the    *)
(* reader are at exist, and completed files lie behind the reader.         *)
SpoolState ==
  /\ completed # {} => Spool
  /\ Spool =>
       /\ \A p \in Path : disk[p] \in {NoFile, p} /\ (disk[p] # NoFile => p <= wino)
       /\ disk[wino] = wino
       /\ filename <= wino
       /\ pc # "down" => disk[filename] = filename
       /\ open # NoFile => open = filename
       /\ \A p \in completed : p < filename

CompletedHeld ==
  \A p \in completed : \A k \in 1 .. Len(content[p]) : Held(p, k)

IInv ==
  /\ TypeOK
  /\ PositionsBound
  /\ ControlState
  /\ SpoolState
  /\ CompletedHeld
  /\ ConsumedHeld
  /\ BookmarkCommitted
  /\ DeletedCommitted
  /\ BookmarkOutlivesDeletion

=============================================================================
