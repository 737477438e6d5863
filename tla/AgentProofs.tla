----------------------------- MODULE AgentProofs -----------------------------
(***************************************************************************)
(* What an agent runs.  The EVE file pipeline, for every number of files,  *)
(* lines and faults and for every configuration: IInv is inductive, and it *)
(* implies the safety properties of EveIngest.  The control channel, for   *)
(* any number of jobs, connections and panics and any sizes of the queues. *)
(***************************************************************************)
EXTENDS EveIngest, AgentChannel, FiniteSetTheorems, TLAPS

(* The lines of a range of a file are lines.                               *)
LEMMA LinesType ==
  ASSUME NEW i \in Inode, NEW m \in Nat \ {0}, NEW n \in 0 .. MaxLines
  PROVE  Lines(i, m, n) \subseteq Line
BY IngestAssumption DEF Lines, Line

(* The initial states satisfy the inductive invariant.                     *)
LEMMA InitInv == Init => IInv
<1> SUFFICES ASSUME Init PROVE IInv
  OBVIOUS
<1> USE IngestAssumption DEF Init
<1>1. TypeOK
  BY DEF TypeOK, TypeWriter, TypeReader, TypeStore, Inode, Path, Line, NoFile
<1>2. PositionsBound /\ ControlState /\ SpoolState /\ CompletedHeld
  BY <1>1 DEF PositionsBound, ControlState, SpoolState, CompletedHeld, Path, Inode, NoFile
<1>3. ConsumedHeld /\ BookmarkCommitted /\ DeletedCommitted /\ BookmarkOutlivesDeletion
  BY <1>1 DEF ConsumedHeld, BookmarkCommitted, DeletedCommitted, BookmarkOutlivesDeletion,
              Deleted, Path, Inode, NoFile
<1> QED
  BY <1>1, <1>2, <1>3 DEF IInv

(* An appended line lies behind every position, or its file is waived.     *)
LEMMA AppendLineInv ==
  ASSUME IInv, NEW kind \in Kinds, AppendLine(kind)
  PROVE  IInv'
<1> USE IngestAssumption DEF AppendLine, AppendLine, writer, reader, sink, ghost, Waive,
        TypeWriter, TypeReader, TypeStore, TypeOK, IInv, NoFile, Running
<1>0. /\ \A i \in Inode : i # wino => content'[i] = content[i]
      /\ Len(content'[wino]) = Len(content[wino]) + 1
      /\ \A k \in 1 .. Len(content[wino]) : content'[wino][k] = content[wino][k]
      /\ \A i \in Inode : Len(content[i]) \in Nat
  OBVIOUS
<1>1. TypeWriter'
  OBVIOUS
<1>2. (TypeReader /\ TypeStore)'
  BY DEF Line, Lines, Inode
<1>3. PositionsBound'
  <2>1. open # NoFile => pos <= Len(content'[open]) \/ Waived(open)
    BY <1>0 DEF PositionsBound
  <2>2. bookmark # NoBookmark => bookmark.inode \in Inode /\ bookmark.lineno \in Nat
    BY DEF Bookmarks
  <2>3. bookmark # NoBookmark => \/ bookmark.lineno <= Len(content'[bookmark.inode])
                               \/ Waived(bookmark.inode)
    BY <1>0, <2>2 DEF PositionsBound
  <2> QED
    BY <2>1, <2>3 DEF PositionsBound, Waived, Lines
<1>4. ConsumedHeld'
  <2> SUFFICES ASSUME open # NoFile, pc # "dead", NEW k \in 1 .. pos, k <= Len(content'[open])
               PROVE  (Accounted(open, k) \/ <<open, k>> \in pending)'
    BY DEF ConsumedHeld
  <2>1. CASE k <= Len(content[open])
    BY <2>1, <1>0 DEF ConsumedHeld, Accounted
  <2>2. CASE k > Len(content[open])
    <3>1. Waived(open)
      BY <2>2, <1>0 DEF PositionsBound
    <3> QED
      BY <3>1 DEF Waived, Lines, Accounted
  <2> QED
    BY <2>1, <2>2, <1>0
<1>5. BookmarkCommitted'
  <2> SUFFICES ASSUME bookmark # NoBookmark, NEW k \in 1 .. bookmark.lineno,
                      k <= Len(content'[bookmark.inode])
               PROVE  Accounted(bookmark.inode, k)'
    BY DEF BookmarkCommitted
  <2>0. bookmark.inode \in Inode /\ bookmark.lineno \in 0 .. MaxLines
    BY DEF Bookmarks
  <2>1. CASE k <= Len(content[bookmark.inode])
    BY <2>0, <2>1, <1>0 DEF BookmarkCommitted, Accounted
  <2>2. CASE k > Len(content[bookmark.inode])
    <3>1. Waived(bookmark.inode)
      BY <2>0, <2>2, <1>0 DEF PositionsBound
    <3> QED
      BY <2>0, <3>1 DEF Waived, Lines, Accounted
  <2> QED
    BY <2>0, <2>1, <2>2, <1>0
<1>6. (ControlState /\ SpoolState)'
  BY DEF ControlState, SpoolState
<1>7. CompletedHeld'
  BY <1>0 DEF CompletedHeld, Held, SpoolState, Path, Inode
<1>8. DeletedCommitted'
  BY <1>0 DEF DeletedCommitted, Deleted, Accounted, SpoolState, Path, Inode
<1>9. BookmarkOutlivesDeletion'
  BY DEF BookmarkOutlivesDeletion, Deleted
<1> QED
  BY <1>1, <1>2, <1>3, <1>4, <1>5, <1>6, <1>7, <1>8, <1>9

(* AppendPartial preserves the inductive invariant.                        *)
LEMMA AppendPartialInv ==
  ASSUME IInv, AppendPartial
  PROVE  IInv'
<1> USE IngestAssumption DEF AppendPartial, writer, reader, sink, ghost, Waive,
        TypeWriter, TypeReader, TypeStore, TypeOK, IInv, NoFile, Running
<1>1. TypeOK'
  BY DEF Line, Lines, Inode
<1>2. (PositionsBound /\ ConsumedHeld /\ BookmarkCommitted)'
  BY DEF PositionsBound, Waived, Lines, ConsumedHeld, BookmarkCommitted, Accounted
<1>3. (ControlState /\ SpoolState)'
  BY DEF ControlState, SpoolState
<1>4. (CompletedHeld /\ DeletedCommitted /\ BookmarkOutlivesDeletion)'
  BY DEF CompletedHeld, Held, DeletedCommitted, BookmarkOutlivesDeletion, Deleted,
         Accounted
<1> QED
  BY <1>1, <1>2, <1>3, <1>4

(* A new spool file is neither completed nor deleted.                      *)
LEMMA NextSpoolFileInv ==
  ASSUME IInv, NextSpoolFile
  PROVE  IInv'
<1> USE IngestAssumption DEF NextSpoolFile, writer, reader, sink, ghost, Waive,
        TypeWriter, TypeReader, TypeStore, TypeOK, IInv, NoFile, Running
<1>1. TypeWriter'
  BY DEF Path, Inode
<1>2. (TypeReader /\ TypeStore)'
  BY DEF Line, Lines, Inode
<1>3. (PositionsBound /\ ConsumedHeld /\ BookmarkCommitted)'
  BY DEF PositionsBound, Waived, Lines, ConsumedHeld, BookmarkCommitted, Accounted
<1>4. ControlState'
  BY DEF ControlState
<1>5. SpoolState'
  BY DEF SpoolState, Path, Inode
<1>6. CompletedHeld'
  BY DEF CompletedHeld, Held
<1>7. DeletedCommitted'
  BY DEF DeletedCommitted, Deleted, Accounted, Path, Inode
<1>8. BookmarkOutlivesDeletion'
  <2>1. bookmark # NoBookmark => bookmark.path \in Inode
    BY DEF Bookmarks, Path
  <2> QED
    BY <2>1 DEF BookmarkOutlivesDeletion, Deleted, Path, Inode
<1> QED
  BY <1>1, <1>2, <1>3, <1>4, <1>5, <1>6, <1>7, <1>8

(* RenameLog preserves the inductive invariant.                            *)
LEMMA RenameLogInv ==
  ASSUME IInv, RenameLog
  PROVE  IInv'
<1> USE IngestAssumption DEF RenameLog, writer, reader, sink, ghost, Waive, TypeWriter,
        TypeReader, TypeStore, TypeOK, IInv, NoFile, Running
<1>1. TypeOK'
  BY DEF Line, Lines, Inode
<1>2. (PositionsBound /\ ConsumedHeld /\ BookmarkCommitted)'
  BY DEF PositionsBound, Waived, Lines, ConsumedHeld, BookmarkCommitted, Accounted
<1>3. (ControlState /\ SpoolState)'
  BY DEF ControlState, SpoolState
<1>4. (CompletedHeld /\ DeletedCommitted /\ BookmarkOutlivesDeletion)'
  BY DEF CompletedHeld, Held, DeletedCommitted, BookmarkOutlivesDeletion, Deleted,
         Accounted
<1> QED
  BY <1>1, <1>2, <1>3, <1>4

(* CreateLog preserves the inductive invariant.                            *)
LEMMA CreateLogInv ==
  ASSUME IInv, CreateLog
  PROVE  IInv'
<1> USE IngestAssumption DEF CreateLog, writer, reader, sink, ghost, Waive, TypeWriter,
        TypeReader, TypeStore, TypeOK, IInv, NoFile, Running
<1>1. TypeWriter'
  BY DEF Path, Inode
<1>2. (TypeReader /\ TypeStore)'
  OBVIOUS
<1>3. (PositionsBound /\ ConsumedHeld /\ BookmarkCommitted)'
  BY DEF PositionsBound, Waived, Lines, ConsumedHeld, BookmarkCommitted, Accounted
<1>4. (ControlState /\ SpoolState)'
  BY DEF ControlState, SpoolState
<1>5. (CompletedHeld /\ DeletedCommitted /\ BookmarkOutlivesDeletion)'
  BY DEF CompletedHeld, Held, DeletedCommitted, BookmarkOutlivesDeletion, Deleted,
         Accounted
<1> QED
  BY <1>1, <1>2, <1>3, <1>4, <1>5

(* TruncateLog preserves the inductive invariant.                          *)
LEMMA TruncateLogInv ==
  ASSUME IInv, TruncateLog
  PROVE  IInv'
<1> USE IngestAssumption DEF TruncateLog, writer, reader, sink, ghost, Waive,
        TypeWriter, TypeReader, TypeStore, TypeOK, IInv, NoFile, Running
<1>1. TypeOK'
  BY DEF Line, Lines, Inode
<1>2. (PositionsBound /\ ConsumedHeld /\ BookmarkCommitted)'
  BY DEF PositionsBound, Waived, Lines, ConsumedHeld, BookmarkCommitted, Accounted
<1>3. (ControlState /\ SpoolState)'
  BY DEF ControlState, SpoolState
<1>4. (CompletedHeld /\ DeletedCommitted /\ BookmarkOutlivesDeletion)'
  BY DEF CompletedHeld, Held, DeletedCommitted, BookmarkOutlivesDeletion, Deleted,
         Accounted
<1> QED
  BY <1>1, <1>2, <1>3, <1>4

(* Start preserves the inductive invariant.                                *)
LEMMA StartInv ==
  ASSUME IInv, Start
  PROVE  IInv'
<1> USE IngestAssumption DEF Start, Existing, BookmarkValid, NoBookmarkStart, IsNewest,
        IsOldest, writer, reader, sink, ghost, Waive, TypeWriter, TypeReader, TypeStore,
        TypeOK, IInv, NoFile, Running
<1>1. TypeOK'
  BY DEF Line, Lines, Inode, Bookmarks
<1>2. (PositionsBound /\ ConsumedHeld /\ BookmarkCommitted)'
  BY DEF PositionsBound, Waived, Lines, ConsumedHeld, BookmarkCommitted, Accounted
<1>3. ControlState'
  BY DEF ControlState
<1>4. SpoolState'
  <2>1. open = NoFile /\ completed = {}
    BY DEF ControlState
  <2>2. filename' \in Existing
    BY DEF Bookmarks, Inode
  <2> QED
    BY <2>1, <2>2 DEF SpoolState, Path, Inode
<1>5. (CompletedHeld /\ DeletedCommitted /\ BookmarkOutlivesDeletion)'
  BY DEF CompletedHeld, Held, DeletedCommitted, BookmarkOutlivesDeletion, Deleted,
         Accounted
<1> QED
  BY <1>1, <1>2, <1>3, <1>4, <1>5

(* Resuming behind the bookmark skips only accounted or waived lines.      *)
LEMMA GotoLinenoInv ==
  ASSUME IInv, GotoLineno
  PROVE  IInv'
<1> USE IngestAssumption DEF GotoLineno, NoBookmarkStart, writer, reader, sink, ghost,
        Waive, TypeWriter, TypeReader, TypeStore, TypeOK, IInv, NoFile, Running
<1>1. TypeWriter'
  OBVIOUS
<1>2. TypeReader'
  <2>1. disk[filename] # NoFile =>
          disk[filename] \in Inode /\ Len(content[disk[filename]]) \in 0 .. MaxLines
    OBVIOUS
  <2> QED
    BY <2>1
<1>3. TypeStore'
  BY LinesType DEF Inode
<1>4. PositionsBound'
  BY DEF PositionsBound, Waived, Lines
<1>5. ConsumedHeld'
  <2>1. CASE disk[filename] = NoFile
    BY <2>1 DEF ConsumedHeld, ControlState
  <2>2. CASE disk[filename] # NoFile /\ disk[filename] = bookmark.inode
    <3>1. bookmark # NoBookmark /\ goal = bookmark.lineno /\ open' = bookmark.inode
      BY <2>2 DEF ControlState
    <3>2. \A k \in 1 .. pos' : k \in 1 .. bookmark.lineno
      BY <2>2, <3>1
    <3> QED
      BY <2>2, <3>1, <3>2 DEF ConsumedHeld, BookmarkCommitted, Accounted
  <2>3. CASE disk[filename] # NoFile /\ disk[filename] # bookmark.inode
    BY <2>3 DEF ConsumedHeld, Accounted, Lines
  <2> QED
    BY <2>1, <2>2, <2>3
<1>6. BookmarkCommitted'
  BY DEF BookmarkCommitted, Accounted
<1>7. (ControlState /\ SpoolState)'
  BY DEF ControlState, SpoolState
<1>8. (CompletedHeld /\ DeletedCommitted /\ BookmarkOutlivesDeletion)'
  BY DEF CompletedHeld, Held, DeletedCommitted, BookmarkOutlivesDeletion, Deleted,
         Accounted
<1> QED
  BY <1>1, <1>2, <1>3, <1>4, <1>5, <1>6, <1>7, <1>8

(* Lines skipped by a start at the end are waived.                         *)
LEMMA GotoEndInv ==
  ASSUME IInv, GotoEnd
  PROVE  IInv'
<1> USE IngestAssumption DEF GotoEnd, Newer, Existing, IsNewest, writer, reader, sink,
        ghost, Waive, TypeWriter, TypeReader, TypeStore, TypeOK, IInv, NoFile, Running
<1>1. (TypeWriter /\ TypeReader)'
  BY DEF Inode
<1>2. TypeStore'
  BY LinesType DEF Inode
<1>3. (PositionsBound /\ ConsumedHeld /\ BookmarkCommitted)'
  BY DEF PositionsBound, Waived, Lines, ConsumedHeld, BookmarkCommitted, Accounted
<1>4. (ControlState /\ SpoolState)'
  BY DEF ControlState, SpoolState
<1>5. (CompletedHeld /\ DeletedCommitted /\ BookmarkOutlivesDeletion)'
  BY DEF CompletedHeld, Held, DeletedCommitted, BookmarkOutlivesDeletion, Deleted,
         Accounted
<1> QED
  BY <1>1, <1>2, <1>3, <1>4, <1>5

(* OpenFile preserves the inductive invariant.                             *)
LEMMA OpenFileInv ==
  ASSUME IInv, OpenFile
  PROVE  IInv'
<1> USE IngestAssumption DEF OpenFile, writer, reader, sink, ghost, Waive, TypeWriter,
        TypeReader, TypeStore, TypeOK, IInv, NoFile, Running
<1>1. (TypeWriter /\ TypeReader)'
  OBVIOUS
<1>2. TypeStore'
  OBVIOUS
<1>3. (PositionsBound /\ ConsumedHeld /\ BookmarkCommitted)'
  BY DEF PositionsBound, Waived, Lines, ConsumedHeld, BookmarkCommitted, Accounted
<1>4. (ControlState /\ SpoolState)'
  BY DEF ControlState, SpoolState
<1>5. (CompletedHeld /\ DeletedCommitted /\ BookmarkOutlivesDeletion)'
  BY DEF CompletedHeld, Held, DeletedCommitted, BookmarkOutlivesDeletion, Deleted,
         Accounted
<1> QED
  BY <1>1, <1>2, <1>3, <1>4, <1>5

(* SkipLine preserves the inductive invariant.                             *)
LEMMA SkipLineInv ==
  ASSUME IInv, SkipLine
  PROVE  IInv'
<1> USE IngestAssumption DEF SkipLine, ReadLine, writer, reader, sink, ghost, Waive,
        TypeWriter, TypeReader, TypeStore, TypeOK, IInv, NoFile, Running
<1>1. (TypeWriter /\ TypeReader)'
  OBVIOUS
<1>2. TypeStore'
  OBVIOUS
<1>3. PositionsBound'
  BY DEF PositionsBound, Waived, Lines
<1>4. ConsumedHeld'
  BY DEF ConsumedHeld, Accounted
<1>5. BookmarkCommitted'
  BY DEF BookmarkCommitted, Accounted
<1>6. (ControlState /\ SpoolState)'
  BY DEF ControlState, SpoolState
<1>7. (CompletedHeld /\ DeletedCommitted /\ BookmarkOutlivesDeletion)'
  BY DEF CompletedHeld, Held, DeletedCommitted, BookmarkOutlivesDeletion, Deleted,
         Accounted
<1> QED
  BY <1>1, <1>2, <1>3, <1>4, <1>5, <1>6, <1>7

(* SubmitPanics preserves the inductive invariant.                         *)
LEMMA SubmitPanicsInv ==
  ASSUME IInv, SubmitPanics
  PROVE  IInv'
<1> USE IngestAssumption DEF SubmitPanics, ReadLine, writer, reader, sink, ghost, Waive,
        TypeWriter, TypeReader, TypeStore, TypeOK, IInv, NoFile, Running
<1>1. (TypeWriter /\ TypeReader)'
  OBVIOUS
<1>2. TypeStore'
  OBVIOUS
<1>3. (PositionsBound /\ ConsumedHeld)'
  BY DEF PositionsBound, Waived, Lines, ConsumedHeld, Accounted
<1>4. BookmarkCommitted'
  BY DEF BookmarkCommitted, Accounted
<1>5. (ControlState /\ SpoolState)'
  BY DEF ControlState, SpoolState
<1>6. (CompletedHeld /\ DeletedCommitted /\ BookmarkOutlivesDeletion)'
  BY DEF CompletedHeld, Held, DeletedCommitted, BookmarkOutlivesDeletion, Deleted,
         Accounted
<1> QED
  BY <1>1, <1>2, <1>3, <1>4, <1>5, <1>6

(* A line read is queued, and blank or malformed lines are no events.      *)
LEMMA SubmitInv ==
  ASSUME IInv, Submit
  PROVE  IInv'
<1> USE IngestAssumption DEF Submit, ReadLine, writer, reader, sink, ghost, Waive,
        TypeWriter, TypeReader, TypeStore, TypeOK, IInv, NoFile, Running
<1>1. (TypeWriter /\ TypeReader)'
  OBVIOUS
<1>2. TypeStore'
  <2>1. <<open, pos + 1>> \in Line
    BY DEF Line, Inode
  <2> QED
    BY <2>1
<1>3. (PositionsBound /\ ConsumedHeld /\ BookmarkCommitted)'
  BY DEF PositionsBound, Waived, Lines, ConsumedHeld, BookmarkCommitted, Accounted
<1>4. (ControlState /\ SpoolState)'
  BY DEF ControlState, SpoolState
<1>5. (CompletedHeld /\ DeletedCommitted /\ BookmarkOutlivesDeletion)'
  BY DEF CompletedHeld, Held, DeletedCommitted, BookmarkOutlivesDeletion, Deleted,
         Accounted
<1> QED
  BY <1>1, <1>2, <1>3, <1>4, <1>5

(* EndOfFile preserves the inductive invariant.                            *)
LEMMA EndOfFileInv ==
  ASSUME IInv, EndOfFile
  PROVE  IInv'
<1> USE IngestAssumption DEF EndOfFile, writer, reader, sink, ghost, Waive, TypeWriter,
        TypeReader, TypeStore, TypeOK, IInv, NoFile, Running
<1>1. (TypeWriter /\ TypeReader)'
  OBVIOUS
<1>2. TypeStore'
  OBVIOUS
<1>3. (PositionsBound /\ ConsumedHeld /\ BookmarkCommitted)'
  BY DEF PositionsBound, Waived, Lines, ConsumedHeld, BookmarkCommitted, Accounted
<1>4. (ControlState /\ SpoolState)'
  BY DEF ControlState, SpoolState
<1>5. (CompletedHeld /\ DeletedCommitted /\ BookmarkOutlivesDeletion)'
  BY DEF CompletedHeld, Held, DeletedCommitted, BookmarkOutlivesDeletion, Deleted,
         Accounted
<1> QED
  BY <1>1, <1>2, <1>3, <1>4, <1>5

(* The file left behind is fully read, up to the lines waived.             *)
LEMMA AdvanceSpoolInv ==
  ASSUME IInv, AdvanceSpool
  PROVE  IInv'
<1> USE IngestAssumption DEF AdvanceSpool, Abandoned, Newer, Existing, IsOldest, writer,
        reader, sink, ghost, Waive, TypeWriter, TypeReader, TypeStore, TypeOK, IInv,
        NoFile, Running
<1>1. (TypeWriter /\ TypeReader)'
  BY DEF ControlState
<1>2. TypeStore'
  BY LinesType DEF ControlState, Inode
<1>3. (PositionsBound /\ ConsumedHeld /\ BookmarkCommitted)'
  BY DEF PositionsBound, Waived, Lines, ConsumedHeld, BookmarkCommitted, Accounted
<1>4. ControlState'
  BY DEF ControlState
<1>5. SpoolState'
  BY DEF SpoolState, Path, Inode
<1>6. CompletedHeld'
  <2> SUFFICES ASSUME NEW p \in completed', NEW k \in 1 .. Len(content[p])
               PROVE  Held(p, k)'
    BY DEF CompletedHeld
  <2>1. CASE p \in completed
    BY <2>1 DEF CompletedHeld, Held
  <2>2. CASE p = filename
    <3>1. open = filename /\ open # NoFile /\ seen <= pos
      BY DEF ControlState, SpoolState, Path, Inode
    <3>2. CASE k <= pos
      BY <2>2, <3>1, <3>2 DEF ConsumedHeld, Accounted, Held
    <3>3. CASE k > pos
      BY <2>2, <3>1, <3>3 DEF Lines, Held
    <3> QED
      BY <3>2, <3>3
  <2> QED
    BY <2>1, <2>2
<1>7. (DeletedCommitted /\ BookmarkOutlivesDeletion)'
  BY DEF DeletedCommitted, BookmarkOutlivesDeletion, Deleted, Accounted
<1> QED
  BY <1>1, <1>2, <1>3, <1>4, <1>5, <1>6, <1>7

(* NoNewerFile preserves the inductive invariant.                          *)
LEMMA NoNewerFileInv ==
  ASSUME IInv, NoNewerFile
  PROVE  IInv'
<1> USE IngestAssumption DEF NoNewerFile, writer, reader, sink, ghost, Waive,
        TypeWriter, TypeReader, TypeStore, TypeOK, IInv, NoFile, Running
<1>1. TypeOK'
  BY DEF Line, Lines, Inode
<1>2. (PositionsBound /\ ConsumedHeld /\ BookmarkCommitted)'
  BY DEF PositionsBound, Waived, Lines, ConsumedHeld, BookmarkCommitted, Accounted
<1>3. (ControlState /\ SpoolState)'
  BY DEF ControlState, SpoolState
<1>4. (CompletedHeld /\ DeletedCommitted /\ BookmarkOutlivesDeletion)'
  BY DEF CompletedHeld, Held, DeletedCommitted, BookmarkOutlivesDeletion, Deleted,
         Accounted
<1> QED
  BY <1>1, <1>2, <1>3, <1>4

(* Idle preserves the inductive invariant.                                 *)
LEMMA IdleInv ==
  ASSUME IInv, Idle
  PROVE  IInv'
<1> USE IngestAssumption DEF Idle, writer, reader, sink, ghost, Waive, TypeWriter,
        TypeReader, TypeStore, TypeOK, IInv, NoFile, Running
<1>1. TypeOK'
  BY DEF Line, Lines, Inode
<1>2. (PositionsBound /\ ConsumedHeld /\ BookmarkCommitted)'
  BY DEF PositionsBound, Waived, Lines, ConsumedHeld, BookmarkCommitted, Accounted
<1>3. (ControlState /\ SpoolState)'
  BY DEF ControlState, SpoolState
<1>4. (CompletedHeld /\ DeletedCommitted /\ BookmarkOutlivesDeletion)'
  BY DEF CompletedHeld, Held, DeletedCommitted, BookmarkOutlivesDeletion, Deleted,
         Accounted
<1> QED
  BY <1>1, <1>2, <1>3, <1>4

(* CheckChanged preserves the inductive invariant.                         *)
LEMMA CheckChangedInv ==
  ASSUME IInv, CheckChanged
  PROVE  IInv'
<1> USE IngestAssumption DEF CheckChanged, writer, reader, sink, ghost, Waive,
        TypeWriter, TypeReader, TypeStore, TypeOK, IInv, NoFile, Running
<1>1. TypeOK'
  BY DEF Line, Lines, Inode
<1>2. (PositionsBound /\ ConsumedHeld /\ BookmarkCommitted)'
  BY DEF PositionsBound, Waived, Lines, ConsumedHeld, BookmarkCommitted, Accounted
<1>3. (ControlState /\ SpoolState)'
  BY DEF ControlState, SpoolState
<1>4. (CompletedHeld /\ DeletedCommitted /\ BookmarkOutlivesDeletion)'
  BY DEF CompletedHeld, Held, DeletedCommitted, BookmarkOutlivesDeletion, Deleted,
         Accounted
<1> QED
  BY <1>1, <1>2, <1>3, <1>4

(* Reopen preserves the inductive invariant.                               *)
LEMMA ReopenInv ==
  ASSUME IInv, Reopen
  PROVE  IInv'
<1> USE IngestAssumption DEF Reopen, Abandoned, writer, reader, sink, ghost, Waive,
        TypeWriter, TypeReader, TypeStore, TypeOK, IInv, NoFile, Running
<1>1. (TypeWriter /\ TypeReader)'
  BY DEF ControlState
<1>2. TypeStore'
  BY LinesType DEF ControlState, Inode
<1>3. (PositionsBound /\ ConsumedHeld /\ BookmarkCommitted)'
  BY DEF PositionsBound, Waived, Lines, ConsumedHeld, BookmarkCommitted, Accounted
<1>4. (ControlState /\ SpoolState)'
  BY DEF ControlState, SpoolState
<1>5. (CompletedHeld /\ DeletedCommitted /\ BookmarkOutlivesDeletion)'
  BY DEF CompletedHeld, Held, DeletedCommitted, BookmarkOutlivesDeletion, Deleted,
         Accounted
<1> QED
  BY <1>1, <1>2, <1>3, <1>4, <1>5

(* A stored batch leaves nothing in the queue.                             *)
LEMMA CommitOkInv ==
  ASSUME IInv, CommitOk
  PROVE  IInv'
<1> USE IngestAssumption DEF CommitOk, Store, writer, reader, sink, ghost, Waive,
        TypeWriter, TypeReader, TypeStore, TypeOK, IInv, NoFile, Running
<1>1. TypeOK'
  BY DEF Line, Lines, Inode
<1>2. (PositionsBound /\ ConsumedHeld /\ BookmarkCommitted)'
  BY DEF PositionsBound, Waived, Lines, ConsumedHeld, BookmarkCommitted, Accounted
<1>3. (ControlState /\ SpoolState)'
  BY DEF ControlState, SpoolState
<1>4. (CompletedHeld /\ DeletedCommitted /\ BookmarkOutlivesDeletion)'
  BY DEF CompletedHeld, Held, DeletedCommitted, BookmarkOutlivesDeletion, Deleted,
         Accounted
<1> QED
  BY <1>1, <1>2, <1>3, <1>4

(* A failed commit keeps the queue.                                        *)
LEMMA CommitFailsInv ==
  ASSUME IInv, CommitFails
  PROVE  IInv'
<1> USE IngestAssumption DEF CommitFails, Store, writer, reader, sink, ghost, Waive,
        TypeWriter, TypeReader, TypeStore, TypeOK, IInv, NoFile, Running
<1>1. (TypeWriter /\ TypeReader)'
  OBVIOUS
<1>2. TypeStore'
  OBVIOUS
<1>3. (PositionsBound /\ ConsumedHeld /\ BookmarkCommitted)'
  BY DEF PositionsBound, Waived, Lines, ConsumedHeld, BookmarkCommitted, Accounted
<1>4. (ControlState /\ SpoolState)'
  BY DEF ControlState, SpoolState
<1>5. (CompletedHeld /\ DeletedCommitted /\ BookmarkOutlivesDeletion)'
  BY DEF CompletedHeld, Held, DeletedCommitted, BookmarkOutlivesDeletion, Deleted,
         Accounted
<1> QED
  BY <1>1, <1>2, <1>3, <1>4, <1>5

(* TruncateBookmark preserves the inductive invariant.                     *)
LEMMA TruncateBookmarkInv ==
  ASSUME IInv, TruncateBookmark
  PROVE  IInv'
<1> USE IngestAssumption DEF TruncateBookmark, writer, reader, sink, ghost, Waive,
        TypeWriter, TypeReader, TypeStore, TypeOK, IInv, NoFile, Running
<1>1. TypeOK'
  BY DEF Line, Lines, Inode
<1>2. (PositionsBound /\ ConsumedHeld /\ BookmarkCommitted)'
  BY DEF PositionsBound, Waived, Lines, ConsumedHeld, BookmarkCommitted, Accounted
<1>3. (ControlState /\ SpoolState)'
  BY DEF ControlState, SpoolState
<1>4. (CompletedHeld /\ DeletedCommitted /\ BookmarkOutlivesDeletion)'
  BY DEF CompletedHeld, Held, DeletedCommitted, BookmarkOutlivesDeletion, Deleted,
         Accounted
<1> QED
  BY <1>1, <1>2, <1>3, <1>4

(* NoBookmarkFile preserves the inductive invariant.                       *)
LEMMA NoBookmarkFileInv ==
  ASSUME IInv, NoBookmarkFile
  PROVE  IInv'
<1> USE IngestAssumption DEF NoBookmarkFile, Return, writer, reader, sink, ghost, Waive,
        TypeWriter, TypeReader, TypeStore, TypeOK, IInv, NoFile, Running
<1>1. TypeOK'
  BY DEF Line, Lines, Inode
<1>2. (PositionsBound /\ ConsumedHeld /\ BookmarkCommitted)'
  BY DEF PositionsBound, Waived, Lines, ConsumedHeld, BookmarkCommitted, Accounted
<1>3. (ControlState /\ SpoolState)'
  BY DEF ControlState, SpoolState
<1>4. (CompletedHeld /\ DeletedCommitted /\ BookmarkOutlivesDeletion)'
  BY DEF CompletedHeld, Held, DeletedCommitted, BookmarkOutlivesDeletion, Deleted,
         Accounted
<1> QED
  BY <1>1, <1>2, <1>3, <1>4

(* With an empty queue everything before the bookmark is accounted for.    *)
LEMMA WriteBookmarkInv ==
  ASSUME IInv, WriteBookmark
  PROVE  IInv'
<1> USE IngestAssumption DEF WriteBookmark, Size, writer, reader, sink, ghost, Waive,
        TypeWriter, TypeReader, TypeStore, TypeOK, IInv, NoFile, Running
<1>a. open \in Inode /\ pending = {}
  BY DEF ControlState
<1>b. Size(open) \in 0 .. MaxLines + 1
  <2>1. Len(content[open]) \in Nat /\ Len(content[open]) <= MaxLines
    BY <1>a
  <2>2. CASE partial[open]
    BY <2>1, <2>2, SMT DEF Size
  <2>3. CASE ~partial[open]
    BY <2>1, <2>3, SMT DEF Size
  <2> QED
    BY <2>2, <2>3
<1>0. /\ open \in Inode /\ pending = {}
      /\ bookmark' \in Bookmarks
      /\ bookmark'.path = filename /\ bookmark'.lineno = pos /\ bookmark'.inode = open
  BY <1>a, <1>b DEF Bookmarks, Inode
<1>1. TypeOK'
  BY <1>0 DEF ControlState
<1>2. PositionsBound'
  <2>1. pos <= Len(content[open]) \/ Waived(open)
    BY <1>0 DEF PositionsBound, Inode
  <2> QED
    BY <1>0, <2>1 DEF PositionsBound, Waived, Lines
<1>3. ConsumedHeld'
  BY DEF ConsumedHeld, Accounted
<1>4. BookmarkCommitted'
  <2> SUFFICES ASSUME NEW k \in 1 .. pos, k <= Len(content[open])
               PROVE  Accounted(open, k)'
    BY <1>0 DEF BookmarkCommitted
  <2> QED
    BY <1>0 DEF ConsumedHeld, Accounted, Inode
<1>5. ControlState'
  BY <1>0 DEF ControlState, Bookmarks, NoBookmark, Path, Inode
<1>6. SpoolState'
  BY DEF SpoolState
<1>7. (CompletedHeld /\ DeletedCommitted)'
  BY DEF CompletedHeld, Held, DeletedCommitted, Deleted, Accounted
<1>8. BookmarkOutlivesDeletion'
  BY <1>0 DEF BookmarkOutlivesDeletion, Deleted, SpoolState, Path, Inode
<1> QED
  BY <1>1, <1>2, <1>3, <1>4, <1>5, <1>6, <1>7, <1>8

(* Without a new bookmark nothing is deleted.                              *)
LEMMA BookmarkFailsInv ==
  ASSUME IInv, BookmarkFails
  PROVE  IInv'
<1> USE IngestAssumption DEF BookmarkFails, Return, writer, reader, sink, ghost, Waive,
        TypeWriter, TypeReader, TypeStore, TypeOK, IInv, NoFile, Running
<1>1. (TypeWriter /\ TypeReader)'
  OBVIOUS
<1>2. TypeStore'
  OBVIOUS
<1>3. (PositionsBound /\ ConsumedHeld /\ BookmarkCommitted)'
  BY DEF PositionsBound, Waived, Lines, ConsumedHeld, BookmarkCommitted, Accounted
<1>4. (ControlState /\ SpoolState)'
  BY DEF ControlState, SpoolState
<1>5. (CompletedHeld /\ DeletedCommitted /\ BookmarkOutlivesDeletion)'
  BY DEF CompletedHeld, Held, DeletedCommitted, BookmarkOutlivesDeletion, Deleted,
         Accounted
<1> QED
  BY <1>1, <1>2, <1>3, <1>4, <1>5

(* Only committed files behind the bookmark are removed.                   *)
LEMMA DeleteCompletedInv ==
  ASSUME IInv, DeleteCompleted
  PROVE  IInv'
<1> USE IngestAssumption DEF DeleteCompleted, Return, writer, reader, sink, ghost,
        Waive, TypeWriter, TypeReader, TypeStore, TypeOK, IInv, NoFile, Running
<1>1. TypeOK'
  BY DEF Line, Lines, Inode
<1>2. (PositionsBound /\ ConsumedHeld /\ BookmarkCommitted)'
  BY DEF PositionsBound, Waived, Lines, ConsumedHeld, BookmarkCommitted, Accounted
<1>3. ControlState'
  BY DEF ControlState
<1>4. SpoolState'
  BY DEF SpoolState, Path, Inode
<1>5. CompletedHeld'
  BY DEF CompletedHeld
<1>6. DeletedCommitted'
  BY DEF DeletedCommitted, Deleted, Accounted, CompletedHeld, Held, ControlState, Path, Inode
<1>7. BookmarkOutlivesDeletion'
  BY DEF BookmarkOutlivesDeletion, Deleted, ControlState, SpoolState, Path, Inode
<1> QED
  BY <1>1, <1>2, <1>3, <1>4, <1>5, <1>6, <1>7

(* A crash loses the queue but leaves the bookmark behind it.              *)
LEMMA CrashInv ==
  ASSUME IInv, Crash
  PROVE  IInv'
<1> USE IngestAssumption DEF Crash, writer, reader, sink, ghost, Waive, TypeWriter,
        TypeReader, TypeStore, TypeOK, IInv, NoFile, Running
<1>1. TypeOK'
  BY DEF Line, Inode, Path
<1>2. (PositionsBound /\ ConsumedHeld /\ BookmarkCommitted)'
  BY DEF PositionsBound, Waived, Lines, ConsumedHeld, BookmarkCommitted, Accounted
<1>3. ControlState'
  BY DEF ControlState
<1>4. SpoolState'
  BY DEF SpoolState, Path, Inode
<1>5. (CompletedHeld /\ DeletedCommitted /\ BookmarkOutlivesDeletion)'
  BY DEF CompletedHeld, Held, DeletedCommitted, BookmarkOutlivesDeletion, Deleted,
         Accounted
<1> QED
  BY <1>1, <1>2, <1>3, <1>4, <1>5

(* Every step, or a stuttering step, preserves the inductive invariant.    *)
LEMMA StepInv == IInv /\ [Next]_vars => IInv'
<1> SUFFICES ASSUME IInv, [Next]_vars PROVE IInv'
  OBVIOUS
<1>1. CASE Writer
  BY <1>1, AppendLineInv, AppendPartialInv, NextSpoolFileInv, RenameLogInv, CreateLogInv,
     TruncateLogInv DEF Writer
<1>2. CASE Process
  BY <1>2, StartInv, GotoLinenoInv, GotoEndInv, OpenFileInv, SkipLineInv, SubmitInv,
     SubmitPanicsInv, EndOfFileInv, AdvanceSpoolInv, NoNewerFileInv, IdleInv,
     CheckChangedInv, ReopenInv, CommitOkInv, TruncateBookmarkInv, NoBookmarkFileInv,
     WriteBookmarkInv, DeleteCompletedInv DEF Process
<1>3. CASE Fault
  BY <1>3, CommitFailsInv, BookmarkFailsInv, CrashInv DEF Fault
<1>4. CASE UNCHANGED vars
  <2> USE <1>4 DEF vars, writer, reader, sink, ghost, IInv
  <2>1. (TypeOK /\ PositionsBound /\ ControlState /\ SpoolState)'
    BY DEF TypeOK, TypeWriter, TypeReader, TypeStore, PositionsBound, Waived, ControlState,
           SpoolState
  <2>2. (CompletedHeld /\ ConsumedHeld /\ BookmarkCommitted)'
    BY DEF CompletedHeld, Held, ConsumedHeld, BookmarkCommitted, Accounted
  <2>3. (DeletedCommitted /\ BookmarkOutlivesDeletion)'
    BY DEF DeletedCommitted, BookmarkOutlivesDeletion, Deleted, Accounted
  <2> QED
    BY <2>1, <2>2, <2>3
<1> QED
  BY <1>1, <1>2, <1>3, <1>4 DEF Next

(* The inductive invariant holds in every reachable state.                 *)
THEOREM Invariance == Spec => []IInv
<1>1. Init => IInv
  BY InitInv
<1>2. IInv /\ [Next]_vars => IInv'
  BY StepInv
<1> QED
  BY <1>1, <1>2, PTL DEF Spec

(* Every variable keeps its type.                                          *)
THEOREM TypeCorrect == Spec => []TypeOK
<1>1. IInv => TypeOK
  BY DEF IInv
<1> QED
  BY <1>1, Invariance, PTL

(* Resuming from the persisted bookmark skips no event that is not in the  *)
(* store, whatever sequence of crashes, failed commits and failed or torn  *)
(* bookmark writes came before.                                            *)
THEOREM BookmarkSafety == Spec => []BookmarkCommitted
<1>1. IInv => BookmarkCommitted
  BY DEF IInv
<1> QED
  BY <1>1, Invariance, PTL

(* Every event the reader has moved past is in the store or still queued.  *)
THEOREM NothingDropped == Spec => []ConsumedHeld
<1>1. IInv => ConsumedHeld
  BY DEF IInv
<1> QED
  BY <1>1, Invariance, PTL

(* A spool file is removed only after its events are in the store, save    *)
(* those appended after the reader saw its end.                            *)
THEOREM DeletionSafety == Spec => []DeletedCommitted
<1>1. IInv => DeletedCommitted
  BY DEF IInv
<1> QED
  BY <1>1, Invariance, PTL

(* The persisted bookmark never names a removed spool file.                *)
THEOREM BookmarkReachable == Spec => []BookmarkOutlivesDeletion
<1>1. IInv => BookmarkOutlivesDeletion
  BY DEF IInv
<1> QED
  BY <1>1, Invariance, PTL

(* A oneshot process that exits at end of file has flushed its queue.      *)
THEOREM ExitFlushes == Spec => []OneshotFlushed
<1>1. IInv => OneshotFlushed
  BY DEF IInv, ControlState, OneshotFlushed
<1> QED
  BY <1>1, Invariance, PTL


-----------------------------------------------------------------------------
(* Duplicates.  Without a fault the process has started once, and what the *)
(* store or the queue holds lies behind the reader.                        *)

(* A plain log's path is bound to the writer's inode or to none, and the   *)
(* reader is at that inode or at an older one.                             *)
PlainState == ~Spool => disk[1] \in {NoFile, wino} /\ open <= wino

Behind(line) ==
  IF open # NoFile THEN line[1] < open \/ (line[1] = open /\ line[2] <= pos)
  ELSE IF Spool THEN line[1] < filename
  ELSE disk[1] = NoFile \/ line[1] < disk[1]

Taken == (committed \cup pending) \ waived

FirstRun ==
  /\ \A line \in Taken : line[1] <= wino /\ Behind(line)
  /\ pending \cap committed \subseteq waived
  /\ dups \subseteq waived
  /\ pc \in {"down", "skip", "toend"} => committed \cup pending = {} /\ bookmark = NoBookmark
  /\ pc = "reopen" => Waived(open) \/ (~Spool /\ open < wino)

FreshInv == PlainState /\ (faults = 0 => FirstRun)

(* What the invariants say of the reader, in one place.                    *)
LEMMA FreshNow ==
  ASSUME IInv, FreshInv
  PROVE  /\ Path \subseteq Nat /\ filename \in Path /\ open \in Nat /\ pos \in Nat
         /\ wino \in Nat \ {0} /\ disk \in [Path -> Nat] /\ faults \in Nat
         /\ committed \subseteq Line /\ pending \subseteq Line
         /\ ~Spool => /\ filename = 1 /\ Path = {1} /\ completed = {}
                      /\ disk[1] \in {NoFile, wino} /\ open <= wino
         /\ Spool /\ open # NoFile => open = filename
BY IngestAssumption DEF IInv, TypeOK, TypeReader, TypeWriter, TypeStore, Path, Inode, NoFile, SpoolState,
   FreshInv, PlainState

(* A line is an inode and a number, both counted from one.                 *)
LEMMA LineParts ==
  ASSUME NEW line \in Line
  PROVE  line[1] \in Nat \ {0} /\ line[2] \in Nat \ {0}
BY IngestAssumption DEF Line, Inode

(* Steps that leave the reader and the store where they are.               *)
LEMMA FreshStays ==
  ASSUME IInv, FreshInv, UNCHANGED <<disk, wino, filename, open, pos, committed, pending, dups>>,
         waived \subseteq waived', faults' = 0 => faults = 0,
         pc' \in {"down", "skip", "toend"} =>
           pc \in {"down", "skip", "toend"} /\ bookmark' = bookmark,
         pc' = "reopen" => pc = "reopen" \/ Waived(open) \/ (~Spool /\ open < wino)
  PROVE  FreshInv'
<1>1. PlainState'
  BY DEF FreshInv, PlainState
<1>2. ASSUME faults' = 0 PROVE FirstRun'
  <2>1. FirstRun
    BY <1>2 DEF FreshInv
  <2>2. Waived(open) => Waived(open)'
    BY DEF Waived
  <2>3. Taken' \subseteq Taken
    BY DEF Taken
  <2>4. \A line \in Taken' : (line[1] <= wino /\ Behind(line))'
    BY <2>1, <2>3 DEF FirstRun, Behind
  <2>5. /\ pending' \cap committed' \subseteq waived'
        /\ dups' \subseteq waived'
    BY <2>1 DEF FirstRun
  <2>6. pc' \in {"down", "skip", "toend"} => committed' \cup pending' = {} /\ bookmark' = NoBookmark
    BY <2>1 DEF FirstRun
  <2>7. pc' = "reopen" => Waived(open)' \/ (~Spool /\ open' < wino')
    BY <2>1, <2>2 DEF FirstRun
  <2> QED
    BY <2>4, <2>5, <2>6, <2>7 DEF FirstRun
<1> QED
  BY <1>1, <1>2 DEF FreshInv

(* The writer appends behind the reader's position, or re-binds the path   *)
(* to a newer inode.                                                       *)
LEMMA FreshWriter ==
  ASSUME IInv, FreshInv, Writer
  PROVE  FreshInv'
<1>1. CASE (\E kind \in Kinds : AppendLine(kind)) \/ AppendPartial \/ TruncateLog
  <2>1. /\ UNCHANGED <<disk, wino, filename, open, pos, committed, pending, dups>>
        /\ waived \subseteq waived' /\ UNCHANGED <<pc, faults, bookmark>>
    BY <1>1 DEF AppendLine, AppendPartial, TruncateLog, reader, sink, ghost, Waive
  <2> QED
    BY <2>1, FreshStays
<1>2. CASE NextSpoolFile \/ RenameLog \/ CreateLog
  <2>1. /\ UNCHANGED <<filename, open, pos, committed, pending, dups, waived, pc, faults, bookmark>>
        /\ wino' = wino \/ wino' = wino + 1
        /\ Spool \/ disk' = [disk EXCEPT ![1] = NoFile] \/ (disk' = [disk EXCEPT ![1] = wino + 1] /\ wino' = wino + 1 /\ disk[1] = NoFile)
    BY <1>2 DEF NextSpoolFile, RenameLog, CreateLog, reader, sink, ghost
  <2>2. /\ Path \subseteq Nat /\ filename \in Path /\ open \in Nat /\ wino \in Nat \ {0}
        /\ disk \in [Path -> Nat]
        /\ ~Spool => /\ filename = 1 /\ Path = {1} /\ disk[1] \in {NoFile, wino} /\ open <= wino
    BY FreshNow
  <2>3. PlainState'
    BY <2>1, <2>2 DEF PlainState, NoFile
  <2>4. ASSUME faults' = 0 PROVE FirstRun'
    <3>1. FirstRun /\ Taken' = Taken
      BY <2>1, <2>4 DEF FreshInv, Taken
    <3>2. ASSUME NEW line \in Taken PROVE line[1] <= wino' /\ Behind(line)'
      <4>1. line[1] \in Nat /\ line[1] <= wino /\ Behind(line)
        BY <3>1, LineParts, FreshNow DEF FirstRun, Taken
      <4> QED
        BY <2>1, <2>2, <4>1 DEF Behind, NoFile
    <3>3. Waived(open)' <=> Waived(open)
      BY <2>1 DEF Waived
    <3>4. ~Spool /\ open < wino => ~Spool /\ open < wino'
      BY <2>1, <2>2
    <3> QED
      BY <2>1, <3>1, <3>2, <3>3, <3>4 DEF FirstRun
  <2> QED
    BY <2>3, <2>4 DEF FreshInv
<1> QED
  BY <1>1, <1>2 DEF Writer

(* A fault that counts makes the claim void.                               *)
LEMMA FreshFault ==
  ASSUME IInv, FreshInv, Fault
  PROVE  FreshInv'
<1>1. faults' # 0
  BY FreshNow DEF Fault, CommitFails, BookmarkFails, Crash
<1>2. PlainState'
  BY FreshNow DEF Fault, CommitFails, BookmarkFails, Crash, writer, reader, PlainState, NoFile
<1> QED
  BY <1>1, <1>2 DEF FreshInv

(* The process is at its start: nothing is stored and no bookmark exists,  *)
(* unless there was a fault.                                               *)
LEMMA FreshStart ==
  ASSUME IInv, FreshInv, Start \/ GotoLineno \/ GotoEnd
  PROVE  FreshInv'
<1>1. /\ UNCHANGED <<writer, sink, bookmark, faults>>
      /\ pc \in {"down", "skip", "toend"}
      /\ pc' \in {"skip", "toend", "read"}
      /\ waived \subseteq waived'
      /\ open' = open \/ open' = disk[filename'] 
      /\ filename' \in Path
  BY FreshNow DEF Start, GotoLineno, GotoEnd, NoBookmarkStart, ghost, Waive, Existing, Newer, BookmarkValid,
     IInv, TypeOK, TypeStore, Bookmarks, NoBookmark, IsNewest, IsOldest
<1>2. PlainState'
  <2>1. ~Spool => filename' = 1 /\ disk[1] \in {NoFile, wino} /\ open <= wino /\ wino \in Nat
    BY <1>1, FreshNow
  <2> QED
    BY <1>1, <2>1 DEF PlainState, NoFile, writer
<1>3. ASSUME faults' = 0 PROVE FirstRun'
  <2>1. FirstRun
    BY <1>1, <1>3 DEF FreshInv
  <2>2. committed \cup pending = {} /\ bookmark = NoBookmark /\ dups \subseteq waived
    BY <1>1, <2>1 DEF FirstRun
  <2>3. Taken' = {}
    BY <1>1, <2>2 DEF Taken, sink
  <2> QED
    BY <1>1, <2>2, <2>3 DEF FirstRun, sink
<1> QED
  BY <1>2, <1>3 DEF FreshInv

(* The files are taken in order, and a line is read once.                  *)
LEMMA FreshRead ==
  ASSUME IInv, FreshInv, OpenFile \/ SkipLine \/ SubmitPanics \/ AdvanceSpool \/ Reopen
  PROVE  FreshInv'
<1>1. /\ UNCHANGED <<writer, sink, faults>> /\ waived \subseteq waived'
      /\ pc' \in {"read", "dead"}
  BY DEF OpenFile, SkipLine, SubmitPanics, ReadLine, AdvanceSpool, Reopen, ghost, Waive
<1>2. /\ Path \subseteq Nat /\ filename \in Path /\ open \in Nat /\ pos \in Nat /\ wino \in Nat \ {0}
      /\ disk \in [Path -> Nat]
      /\ ~Spool => /\ filename = 1 /\ Path = {1} /\ disk[1] \in {NoFile, wino} /\ open <= wino
      /\ Spool /\ open # NoFile => open = filename
  BY FreshNow
<1>3. Spool /\ pc # "down" => disk[filename] = filename
  BY DEF IInv, SpoolState
<1>4. \/ pc = "read" /\ open = NoFile /\ open' = disk[filename] /\ open' # NoFile /\ pos' = 0 /\ filename' = filename
      \/ open # NoFile /\ open' = open /\ pos' = pos + 1 /\ filename' = filename
      \/ pc = "scan" /\ open' = NoFile /\ filename' \in Path /\ filename' > filename
      \/ pc = "reopen" /\ open' = disk[filename] /\ pos' = 0 /\ filename' = filename
  BY DEF OpenFile, SkipLine, SubmitPanics, ReadLine, AdvanceSpool, Reopen, Newer, Existing, IsOldest
<1>5. pc \in {"scan", "reopen"} => open # NoFile
  BY DEF IInv, ControlState
<1>6. PlainState'
  BY <1>1, <1>2, <1>4 DEF PlainState, NoFile, writer
<1>7. ASSUME faults' = 0 PROVE FirstRun'
  <2>1. FirstRun
    BY <1>1, <1>7 DEF FreshInv
  <2>2. Taken' \subseteq Taken
    BY <1>1 DEF Taken, sink
  <2>3. ASSUME NEW line \in Taken' PROVE line[1] <= wino /\ Behind(line)'
    <3>1. line[1] \in Nat /\ line[2] \in Nat /\ line[1] <= wino /\ Behind(line)
      BY <2>1, <2>2, LineParts, FreshNow DEF FirstRun, Taken
    <3>2. CASE pc # "reopen"
      <4>1. CASE /\ pc = "read" /\ open = NoFile /\ open' = disk[filename] /\ open' # NoFile
                 /\ pos' = 0 /\ filename' = filename
        <5>1. CASE Spool
          <6>1. line[1] < filename /\ open' = filename
            BY <1>3, <3>1, <4>1, <5>1 DEF Behind
          <6> QED
            BY <3>1, <4>1, <6>1 DEF Behind
        <5>2. CASE ~Spool
          <6>1. filename = 1 /\ line[1] < open'
            BY <1>2, <3>1, <4>1, <5>2 DEF Behind
          <6> QED
            BY <3>1, <4>1, <6>1 DEF Behind
        <5> QED
          BY <5>1, <5>2
      <4>2. CASE open # NoFile /\ open' = open /\ pos' = pos + 1 /\ filename' = filename
        <5>1. line[1] < open \/ (line[1] = open /\ line[2] <= pos)
          BY <3>1, <4>2 DEF Behind
        <5>2. line[2] <= pos => line[2] <= pos'
          BY <1>2, <3>1, <4>2
        <5> QED
          BY <3>1, <4>2, <5>1, <5>2 DEF Behind
      <4>3. CASE pc = "scan" /\ open' = NoFile /\ filename' \in Path /\ filename' > filename
        <5>1. Spool /\ open # NoFile /\ open = filename
          BY <1>2, <1>5, <4>3
        <5>2. line[1] <= filename
          BY <1>2, <3>1, <5>1 DEF Behind
        <5>3. line[1] < filename'
          BY <1>2, <3>1, <4>3, <5>2
        <5> QED
          BY <3>1, <4>3, <5>1, <5>3 DEF Behind
      <4> QED
        BY <1>4, <3>1, <3>2, <4>1, <4>2, <4>3
    <3>3. CASE pc = "reopen" /\ Waived(open)
      <4>1. line \notin waived /\ line \in Line
        BY <1>1, <2>2, FreshNow DEF Taken
      <4>2. line[1] # open
        BY <3>3, <4>1 DEF Waived, Lines, Line
      <4> QED
        BY <1>1, <1>2, <1>3, <1>4, <1>5, <3>1, <3>3, <4>2 DEF Behind, NoFile, writer
    <3>4. CASE pc = "reopen" /\ ~Spool /\ open < wino
      BY <1>1, <1>2, <1>4, <1>5, <3>1, <3>4 DEF Behind, NoFile, writer
    <3> QED
      BY <2>1, <3>2, <3>3, <3>4 DEF FirstRun
  <2> QED
    BY <1>1, <2>1, <2>3 DEF FirstRun, sink, writer
<1> QED
  BY <1>6, <1>7 DEF FreshInv

(* The line that is queued was not taken before.                           *)
LEMMA FreshSubmit ==
  ASSUME IInv, FreshInv, Submit
  PROVE  FreshInv'
<1>1. /\ UNCHANGED <<writer, filename, open, committed, dups, waived, faults>>
      /\ pc' \in {"read", "commit"} /\ open # NoFile /\ pos' = pos + 1
      /\ pending' = pending \cup {<<open, pos + 1>>}
  BY DEF Submit, ReadLine, ghost
<1>2. /\ open \in Nat /\ pos \in Nat /\ wino \in Nat \ {0} /\ filename \in Path /\ Path \subseteq Nat
      /\ ~Spool => open <= wino
      /\ Spool => open = filename
  BY <1>1, FreshNow
<1>3. open <= wino
  BY <1>2 DEF IInv, SpoolState
<1>4. PlainState'
  BY <1>1 DEF FreshInv, PlainState, writer
<1>5. ASSUME faults' = 0 PROVE FirstRun'
  <2>1. FirstRun
    BY <1>1, <1>5 DEF FreshInv
  <2>2. <<open, pos + 1>> \notin Taken
    <3>1. ASSUME <<open, pos + 1>> \in Taken PROVE FALSE
      <4>1. PICK line : line = <<open, pos + 1>>
        OBVIOUS
      <4>2. line[1] = open /\ line[2] = pos + 1 /\ Behind(line)
        BY <2>1, <3>1, <4>1 DEF FirstRun
      <4> QED
        BY <1>1, <1>2, <4>2 DEF Behind, NoFile
    <3> QED
      BY <3>1
  <2>3. ASSUME NEW line \in Taken' PROVE line[1] <= wino /\ Behind(line)'
    <3>1. CASE line = <<open, pos + 1>>
      <4>1. line[1] = open /\ line[2] = pos + 1
        BY <3>1
      <4> QED
        BY <1>1, <1>2, <1>3, <4>1 DEF Behind
    <3>2. CASE line \in Taken
      <4>1. line[1] \in Nat /\ line[2] \in Nat /\ line[1] <= wino /\ Behind(line)
        BY <2>1, <3>2, LineParts, FreshNow DEF FirstRun, Taken
      <4> QED
        BY <1>1, <1>2, <4>1 DEF Behind, NoFile
    <3> QED
      BY <1>1, <3>1, <3>2 DEF Taken
  <2>4. pending' \cap committed' \subseteq waived'
    BY <1>1, <2>1, <2>2 DEF FirstRun, Taken
  <2> QED
    BY <1>1, <2>1, <2>3, <2>4 DEF FirstRun, writer
<1> QED
  BY <1>4, <1>5 DEF FreshInv

(* A batch moves from the queue to the store once, without a fault.        *)
LEMMA FreshCommit ==
  ASSUME IInv, FreshInv, CommitOk
  PROVE  FreshInv'
<1>1. /\ UNCHANGED <<writer, reader, waived, faults>> /\ pc' = "mark"
      /\ committed' = committed \cup pending /\ pending' = {}
      /\ dups' = dups \cup (pending \cap committed)
  BY DEF CommitOk, Store, ghost
<1>2. PlainState'
  BY <1>1 DEF FreshInv, PlainState, writer, reader
<1>3. ASSUME faults' = 0 PROVE FirstRun'
  <2>1. FirstRun /\ Taken' = Taken
    BY <1>1, <1>3 DEF FreshInv, Taken
  <2>2. \A line \in Taken' : (line[1] <= wino /\ Behind(line))'
    BY <1>1, <2>1 DEF FirstRun, Behind, writer, reader
  <2> QED
    BY <1>1, <2>1, <2>2 DEF FirstRun
<1> QED
  BY <1>2, <1>3 DEF FreshInv

(* Only a truncated or replaced log is opened anew.                        *)
LEMMA FreshCheck ==
  ASSUME IInv, FreshInv, CheckChanged
  PROVE  FreshInv'
<1>1. /\ UNCHANGED <<disk, wino, filename, open, pos, committed, pending, dups, waived, faults>>
      /\ pc' \in {"done", "reopen", "read"}
      /\ pc' = "reopen" => FileChanged
      /\ pc = "check"
  BY DEF CheckChanged, writer, reader, sink, ghost
<1>2. open # NoFile /\ (pos <= Len(content[open]) \/ Waived(open))
  BY <1>1 DEF IInv, ControlState, PositionsBound
<1>3. ASSUME FileChanged PROVE Waived(open) \/ (~Spool /\ open < wino)
  <2>1. CASE disk[filename] # open
    BY <1>1, <1>2, <1>3, <2>1, FreshNow DEF FileChanged, NoFile, IInv, SpoolState
  <2>2. CASE disk[filename] = open
    <3>1. open \in Inode /\ content \in [Inode -> Seq(Kinds)] /\ partial[open] \in BOOLEAN
      BY <1>2 DEF IInv, TypeOK, TypeReader, TypeWriter
    <3>2. Len(content[open]) \in Nat
      BY <3>1
    <3>3. Len(content[open]) <= Size(open) /\ Size(open) \in Nat
      <4>1. CASE partial[open]
        BY <3>2, <4>1, SMT DEF Size
      <4>2. CASE ~partial[open]
        BY <3>2, <4>2, SMT DEF Size
      <4> QED
        BY <4>1, <4>2
    <3>4. Size(open) < pos
      BY <1>3, <2>2 DEF FileChanged
    <3> QED
      BY <1>2, <3>2, <3>3, <3>4, FreshNow
  <2> QED
    BY <2>1, <2>2
<1> QED
  BY <1>1, <1>3, FreshStays

(* The rest of the loop: end of file, checkpoint, deletion.                *)
LEMMA FreshLoop ==
  ASSUME IInv, FreshInv,
         EndOfFile \/ NoNewerFile \/ Idle \/ TruncateBookmark \/ NoBookmarkFile \/ WriteBookmark
  PROVE  FreshInv'
<1>1. /\ UNCHANGED <<disk, wino, filename, open, pos, committed, pending, dups, waived, faults>>
      /\ pc' \notin {"down", "skip", "toend", "reopen"}
  BY DEF EndOfFile, NoNewerFile, Idle, TruncateBookmark, NoBookmarkFile, WriteBookmark, Return,
     writer, reader, sink, ghost, IInv, TypeOK, TypeReader
<1> QED
  BY <1>1, FreshStays

(* Deleting completed files does not move the reader.                      *)
LEMMA FreshDelete ==
  ASSUME IInv, FreshInv, DeleteCompleted
  PROVE  FreshInv'
<1>1. /\ UNCHANGED <<wino, filename, open, pos, committed, pending, dups, waived, faults>>
      /\ pc' \notin {"down", "skip", "toend", "reopen"} /\ pc = "delete"
  BY DEF DeleteCompleted, Return, sink, ghost, IInv, TypeOK, TypeReader
<1>2. ~Spool => disk'[1] = disk[1]
  BY FreshNow DEF DeleteCompleted
<1>3. PlainState'
  BY <1>1, <1>2 DEF FreshInv, PlainState
<1>4. open # NoFile
  BY <1>1 DEF IInv, ControlState
<1>5. ASSUME faults' = 0 PROVE FirstRun'
  <2>1. FirstRun /\ Taken' = Taken
    BY <1>1, <1>5 DEF FreshInv, Taken
  <2>2. \A line \in Taken' : (line[1] <= wino /\ Behind(line))'
    BY <1>1, <1>4, <2>1 DEF FirstRun, Behind
  <2> QED
    BY <1>1, <2>1, <2>2 DEF FirstRun
<1> QED
  BY <1>3, <1>5 DEF FreshInv

(* An event is stored twice only after a crash, a failed commit or a       *)
(* failed bookmark write, or when its file was truncated under the reader: *)
(* Processor never reads a line again or commits a batch twice by itself.  *)
THEOREM NoSpuriousDuplicates == Spec => []DuplicatesNeedFaults
<1>1. Init => FreshInv
  BY IngestAssumption DEF Init, FreshInv, PlainState, FirstRun, Taken, Path, Inode, NoFile
<1>2. IInv /\ FreshInv /\ [Next]_vars => FreshInv'
  <2> SUFFICES ASSUME IInv, FreshInv, [Next]_vars PROVE FreshInv'
    OBVIOUS
  <2>1. CASE Process
    BY <2>1, FreshStart, FreshRead, FreshSubmit, FreshCommit, FreshCheck, FreshLoop, FreshDelete DEF Process
  <2>2. CASE UNCHANGED vars
    <3>1. UNCHANGED <<disk, wino, filename, open, pos, committed, pending, dups, waived, faults, pc, bookmark>>
      BY <2>2 DEF vars, writer, reader, sink, ghost
    <3> QED
      BY <3>1, FreshStays
  <2> QED
    BY <2>1, <2>2, FreshWriter, FreshFault DEF Next
<1>3. FreshInv => DuplicatesNeedFaults
  BY DEF FreshInv, FirstRun, DuplicatesNeedFaults
<1> QED
  BY <1>1, <1>2, <1>3, Invariance, PTL DEF Spec

-----------------------------------------------------------------------------
(* The control channel. *)

(* What the result of a job claims, given its extraction f, its upload u   *)
(* and whether it was asked to stop.                                       *)
Honest(res, f, u, a) ==
  /\ res.code = "complete" =>
       /\ f.state = "ok" /\ f.queue = 0 /\ ~u.first
       /\ IF f.sent THEN res.upload = "complete" /\ u.state = "success"
                    ELSE res.upload = "none" /\ u.state = "none"
  /\ res.code = "empty" => res.upload = "none" /\ ~f.sent
  /\ res.code = "cancelled" => a

Over == {"settled", "queued", "done"}

(* One job: its worker w, its extraction f and its upload u.               *)
JobInv(w, f, u, a) ==
  /\ f.state = "running" => w.pc \in {"first", "upload", "stopping", "panicked"}
  /\ w.pc \in {"none", "refuse", "acquire"} => f = NoFetch /\ u = NoUpload
  /\ w.pc = "first" => u = NoUpload /\ (f.sent => f.queue > 0)
  /\ w.pc = "upload" => u.state # "none"
  /\ w.pc = "stopping" => w.cancel \/ w.failed
  /\ f.queue > 0 \/ u.state # "none" => f.sent
  /\ u.state \in {"eof", "success"} => ~u.first /\ f.queue = 0 /\ f.state # "running"
  /\ f.state = "nothing" => ~f.sent
  /\ w.listed => w.pc \notin Over \union {"none"}
  /\ w.cancel => a
  /\ w.result # NoResult => w.pc \in {"returned", "settled", "queued"} /\ Honest(w.result, f, u, a)

JobsOK == \A j \in Job : JobInv(work[j], fetch[j], upload[j], j \in asked)

(* The permit is with the extraction that runs, or free.                   *)
PermitOK == permits = 1 <=> \A j \in Job : fetch[j].state # "running"

(* No job belongs to a connection still to come.                           *)
GenOK == \A j \in Job : work[j].gen <= gen

(* What waits to be written is settled.                                    *)
ResultsOK == \A k \in 1 .. Len(results) : work[results[k]].pc \in {"queued", "done"}

ChInv == ChTypeOK /\ JobsOK /\ PermitOK /\ OneExtraction /\ GenOK /\ ResultsOK

-----------------------------------------------------------------------------
(* A step of one job.                                                      *)

Runs(f) == f.state = "running"
Written == {"queued", "done"}

(* Jobs are finitely many, so that they can be counted.                    *)
LEMMA JobFinite == IsFiniteSet(Job) /\ \A S \in SUBSET Job : IsFiniteSet(S) /\ Cardinality(S) \in Nat
<1>1. IsFiniteSet(Job)
  BY ChannelAssumption, FS_Interval DEF Job
<1> QED
  BY <1>1, FS_Subset, FS_CardinalityType

(* Jobs that leave the connection's set keep it within MAX_ACTIVE_JOBS.    *)
LEMMA MineShrinks ==
  ASSUME ChInv, NEW S, S \subseteq Mine
  PROVE  Cardinality(S) <= MaxActiveJobs
<1>1. Mine \in SUBSET Job /\ IsFiniteSet(Mine)
  BY JobFinite DEF Mine
<1>2. Cardinality(S) <= Cardinality(Mine) /\ Cardinality(Mine) <= MaxActiveJobs
  BY <1>1, FS_Subset DEF ChInv, ChTypeOK, Mine
<1>3. Cardinality(S) \in Nat /\ Cardinality(Mine) \in Nat
  BY <1>1, JobFinite
<1> QED
  BY <1>2, <1>3, ChannelAssumption

(* The job j goes from its state to w, f and u; the permit follows the     *)
(* extraction.                                                             *)
LEMMA OneJob ==
  ASSUME ChInv, NEW j \in Job, NEW w \in WorkType, NEW f \in FetchType, NEW u \in UploadType,
         work' = [work EXCEPT ![j] = w],
         fetch' = [fetch EXCEPT ![j] = f],
         upload' = [upload EXCEPT ![j] = u],
         asked' \in {asked, asked \union {j}, asked \ {j}},
         JobInv(w, f, u, j \in asked'),
         UNCHANGED <<gen, link>>,
         panics' \in 0 .. MaxPanics,
         \/ Runs(f) = Runs(fetch[j]) /\ UNCHANGED permits
         \/ Runs(f) /\ permits = 1 /\ permits' = 0
         \/ Runs(fetch[j]) /\ ~Runs(f) /\ permits' = permits + 1,
         w.gen <= gen,
         w.listed /\ w.gen = gen => \/ work[j].listed /\ work[j].gen = gen
                                   \/ Cardinality(Mine) < MaxActiveJobs,
         work[j].pc \in Written => w.pc \in Written,
         results' \in Seq(Job), Len(results') <= ResultCapacity,
         \A k \in 1 .. Len(results') :
            \/ results'[k] = j /\ w.pc \in Written
            \/ \E l \in 1 .. Len(results) : results'[k] = results[l]
  PROVE  ChInv'
<1>0. /\ work \in [Job -> WorkType] /\ fetch \in [Job -> FetchType] /\ upload \in [Job -> UploadType]
      /\ asked \subseteq Job /\ gen \in 0 .. MaxConns /\ link \in BOOLEAN /\ permits \in 0 .. 1
      /\ results \in Seq(Job)
  BY DEF ChInv, ChTypeOK
<1>1. /\ work' \in [Job -> WorkType] /\ fetch' \in [Job -> FetchType]
      /\ upload' \in [Job -> UploadType] /\ asked' \subseteq Job
      /\ work'[j] = w /\ fetch'[j] = f /\ upload'[j] = u
  BY <1>0
<1>2. \A i \in Job \ {j} : /\ work'[i] = work[i] /\ fetch'[i] = fetch[i]
                           /\ upload'[i] = upload[i] /\ (i \in asked' <=> i \in asked)
  BY <1>0
<1>3. JobsOK'
  <2> SUFFICES ASSUME NEW i \in Job PROVE JobInv(work'[i], fetch'[i], upload'[i], i \in asked')
    BY DEF JobsOK, JobInv, Honest
  <2>1. CASE i = j
    BY <1>1, <2>1
  <2>2. CASE i # j
    <3>1. JobInv(work[i], fetch[i], upload[i], i \in asked)
      BY DEF ChInv, JobsOK
    <3>2. work'[i] = work[i] /\ fetch'[i] = fetch[i] /\ upload'[i] = upload[i] /\ (i \in asked' <=> i \in asked)
      BY <1>2, <2>2
    <3> QED
      BY <3>1, <3>2 DEF JobInv, Honest
  <2> QED
    BY <2>1, <2>2
<1>4. permits' \in 0 .. 1 /\ PermitOK' /\ OneExtraction'
  <2>1. PermitOK /\ OneExtraction
    BY DEF ChInv
  <2>2. CASE Runs(f) = Runs(fetch[j]) /\ UNCHANGED permits
    BY <1>0, <1>1, <1>2, <2>1, <2>2 DEF PermitOK, OneExtraction, Runs
  <2>3. CASE Runs(f) /\ permits = 1 /\ permits' = 0
    BY <1>0, <1>1, <1>2, <2>1, <2>3 DEF PermitOK, OneExtraction, Runs
  <2>4. CASE Runs(fetch[j]) /\ ~Runs(f) /\ permits' = permits + 1
    BY <1>0, <1>1, <1>2, <2>1, <2>4 DEF PermitOK, OneExtraction, Runs
  <2> QED
    BY <2>2, <2>3, <2>4
<1>5. GenOK'
  BY <1>1, <1>2 DEF ChInv, GenOK
<1>6. ResultsOK'
  <2> SUFFICES ASSUME NEW k \in 1 .. Len(results') PROVE work'[results'[k]].pc \in Written
    BY DEF ResultsOK, Written
  <2>1. CASE results'[k] = j /\ w.pc \in Written
    BY <1>1, <2>1
  <2>2. ASSUME NEW l \in 1 .. Len(results), results'[k] = results[l] PROVE work'[results'[k]].pc \in Written
    <3>1. results[l] \in Job /\ work[results[l]].pc \in Written
      BY <1>0 DEF ChInv, ResultsOK, Written
    <3> QED
      BY <1>1, <1>2, <2>2, <3>1
  <2> QED
    BY <2>1, <2>2
<1>7. Cardinality({i \in Job : work'[i].listed /\ work'[i].gen = gen'}) <= MaxActiveJobs
  <2> DEFINE M == {i \in Job : work'[i].listed /\ work'[i].gen = gen'}
  <2>1. CASE Cardinality(Mine) < MaxActiveJobs
    <3>1. M \subseteq Mine \union {j}
      BY <1>2 DEF Mine
    <3>2. Mine \in SUBSET Job /\ M \in SUBSET Job
      BY DEF Mine
    <3>3. /\ IsFiniteSet(Mine \union {j})
          /\ Cardinality(Mine \union {j}) <= Cardinality(Mine) + 1
          /\ Cardinality(Mine) \in Nat /\ Cardinality(Mine \union {j}) \in Nat
      <4>1. IsFiniteSet(Mine) /\ Cardinality(Mine) \in Nat
        BY <3>2, JobFinite
      <4>2. /\ IsFiniteSet(Mine \union {j})
            /\ Cardinality(Mine \union {j}) = IF j \in Mine THEN Cardinality(Mine)
                                              ELSE Cardinality(Mine) + 1
        BY <4>1, FS_AddElement
      <4> QED
        BY <4>1, <4>2
    <3>4. Cardinality(M) <= Cardinality(Mine \union {j}) /\ Cardinality(M) \in Nat
      BY <3>1, <3>2, <3>3, FS_Subset, JobFinite
    <3> HIDE DEF M
    <3> QED
      BY <2>1, <3>3, <3>4, ChannelAssumption DEF M
  <2>2. CASE ~(Cardinality(Mine) < MaxActiveJobs)
    <3>1. M \subseteq Mine
      BY <1>1, <1>2, <2>2 DEF Mine
    <3> QED
      BY <3>1, MineShrinks
  <2> QED
    BY <2>1, <2>2
<1>8. ChTypeOK'
  BY <1>0, <1>1, <1>4, <1>7 DEF ChTypeOK
<1> QED
  BY <1>3, <1>4, <1>5, <1>6, <1>8 DEF ChInv

(* The common case: the results wait as they did.                          *)
LEMMA QuietJob ==
  ASSUME ChInv, NEW j \in Job, NEW w \in WorkType, NEW f \in FetchType, NEW u \in UploadType,
         work' = [work EXCEPT ![j] = w],
         fetch' = [fetch EXCEPT ![j] = f],
         upload' = [upload EXCEPT ![j] = u],
         asked' \in {asked, asked \union {j}, asked \ {j}},
         JobInv(w, f, u, j \in asked'),
         UNCHANGED <<gen, link, results>>,
         panics' \in 0 .. MaxPanics,
         \/ Runs(f) = Runs(fetch[j]) /\ UNCHANGED permits
         \/ Runs(f) /\ permits = 1 /\ permits' = 0
         \/ Runs(fetch[j]) /\ ~Runs(f) /\ permits' = permits + 1,
         w.gen \in {0, work[j].gen}, w.listed => work[j].listed /\ w.gen = work[j].gen,
         work[j].pc \in Written => w.pc \in Written
  PROVE  ChInv'
<1>1. w.gen <= gen /\ results \in Seq(Job) /\ Len(results) <= ResultCapacity
  BY ChannelAssumption DEF ChInv, GenOK, ChTypeOK
<1> QED
  BY <1>1, OneJob

(* Before the first connection there is no job and the permit is free.     *)
LEMMA ChInitInv == ChInit => ChInv
<1> SUFFICES ASSUME ChInit PROVE ChInv
  OBVIOUS
<1> DEFINE w == [pc |-> "none", gen |-> 0, listed |-> FALSE, cancel |-> FALSE,
                 failed |-> FALSE, result |-> NoResult]
<1>1. w \in WorkType /\ NoFetch \in FetchType /\ NoUpload \in UploadType
  BY ChannelAssumption DEF WorkType, WorkerPcs, FetchType, UploadType, NoFetch, NoUpload
<1>2. JobInv(w, NoFetch, NoUpload, FALSE)
  BY DEF JobInv, NoFetch, NoUpload
<1>3. w.listed = FALSE /\ w.gen = 0
  OBVIOUS
<1>4. /\ work = [j \in Job |-> w] /\ fetch = [j \in Job |-> NoFetch]
      /\ upload = [j \in Job |-> NoUpload] /\ asked = {} /\ results = <<>>
      /\ gen = 0 /\ link = FALSE /\ permits = 1 /\ panics = 0
  BY DEF ChInit
<1> HIDE DEF w
<1>5. {j \in Job : work[j].listed /\ work[j].gen = gen} = {}
  BY <1>3, <1>4
<1>6. Cardinality({j \in Job : work[j].listed /\ work[j].gen = gen}) <= MaxActiveJobs
  BY <1>5, FS_EmptySet, ChannelAssumption
<1>7. ChTypeOK
  <2>1. 0 \in 0 .. MaxConns /\ 0 \in 0 .. MaxPanics /\ 1 \in 0 .. 1 /\ Len(results) <= ResultCapacity
        /\ results \in Seq(Job)
    BY <1>4, ChannelAssumption
  <2> QED
    BY <1>1, <1>4, <1>6, <2>1 DEF ChTypeOK
<1>8. JobsOK
  BY <1>2, <1>4 DEF JobsOK, JobInv, Honest
<1>9. NoFetch.state = "none"
  BY DEF NoFetch
<1>10. PermitOK /\ OneExtraction /\ GenOK /\ ResultsOK
  BY <1>3, <1>4, <1>9 DEF PermitOK, OneExtraction, GenOK, ResultsOK
<1> QED
  BY <1>7, <1>8, <1>10 DEF ChInv

(* The current state of a job.                                             *)
LEMMA JobNow ==
  ASSUME ChInv, NEW j \in Job
  PROVE  /\ work[j] \in WorkType /\ fetch[j] \in FetchType /\ upload[j] \in UploadType
         /\ JobInv(work[j], fetch[j], upload[j], j \in asked)
         /\ panics \in 0 .. MaxPanics /\ permits \in 0 .. 1
         /\ work \in [Job -> WorkType] /\ fetch \in [Job -> FetchType] /\ upload \in [Job -> UploadType]
BY DEF ChInv, ChTypeOK, JobsOK

-----------------------------------------------------------------------------
(* The worker.                                                             *)

(* run_job returns: whatever res says is so.                               *)
LEMMA ReturnsStep ==
  ASSUME ChInv, NEW j \in Job, NEW res \in Terminal, Returns(j, res),
         work[j].pc \in {"refuse", "acquire", "first", "upload", "stopping"},
         ~Runs(fetch[j]), Honest(res, fetch[j], upload[j], j \in asked),
         UNCHANGED <<conn, fetch, upload, permits, asked, panics>>
  PROVE  ChInv'
<1>0. PICK w : w = [work[j] EXCEPT !.pc = "returned", !.result = res]
  OBVIOUS
<1>1. /\ work[j] \in WorkType /\ fetch[j] \in FetchType /\ upload[j] \in UploadType
      /\ JobInv(work[j], fetch[j], upload[j], j \in asked)
      /\ panics \in 0 .. MaxPanics
      /\ work \in [Job -> WorkType] /\ fetch \in [Job -> FetchType] /\ upload \in [Job -> UploadType]
  BY JobNow
<1>2. /\ w \in WorkType /\ w.pc = "returned" /\ w.result = res /\ w.gen = work[j].gen
      /\ w.listed = work[j].listed /\ w.cancel = work[j].cancel /\ w.failed = work[j].failed
  BY <1>0, <1>1 DEF WorkType, WorkerPcs
<1>3. work' = [work EXCEPT ![j] = w] /\ fetch' = [fetch EXCEPT ![j] = fetch[j]]
      /\ upload' = [upload EXCEPT ![j] = upload[j]]
  BY <1>0, <1>1 DEF Returns
<1>4. JobInv(w, fetch[j], upload[j], j \in asked')
  BY <1>1, <1>2 DEF JobInv, Over, Runs, Honest
<1>5. /\ UNCHANGED <<gen, link, results>> /\ panics' \in 0 .. MaxPanics
      /\ asked' \in {asked, asked \union {j}, asked \ {j}}
      /\ Runs(fetch[j]) = Runs(fetch[j]) /\ UNCHANGED permits
  BY <1>1 DEF conn
<1>6. /\ w.gen \in {0, work[j].gen} /\ (w.listed => work[j].listed /\ w.gen = work[j].gen)
      /\ (work[j].pc \in Written => w.pc \in Written)
  BY <1>2 DEF Written
<1> QED
  BY <1>1, <1>2, <1>3, <1>4, <1>5, <1>6, QuietJob, ZenonT(60)

(* A request with a bad range gets its result without an extraction.       *)
LEMMA BadRangeStep ==
  ASSUME ChInv, NEW j \in Job, BadRange(j)
  PROVE  ChInv'
<1>0. PICK res : res = [code |-> "error", upload |-> "none"]
  OBVIOUS
<1>1. /\ work[j] \in WorkType /\ fetch[j] \in FetchType /\ upload[j] \in UploadType
      /\ JobInv(work[j], fetch[j], upload[j], j \in asked)
      /\ panics \in 0 .. MaxPanics /\ permits \in 0 .. 1
      /\ work \in [Job -> WorkType] /\ fetch \in [Job -> FetchType] /\ upload \in [Job -> UploadType]
  BY JobNow
<1>2. res \in Terminal /\ res.code = "error"
  BY <1>0 DEF Terminal
<1>3. work[j].pc = "refuse" /\ ~Runs(fetch[j])
  BY <1>1 DEF BadRange, JobInv, Runs, NoFetch
<1>4. Honest(res, fetch[j], upload[j], j \in asked)
  BY <1>2 DEF Honest
<1>5. Returns(j, res) /\ UNCHANGED <<conn, fetch, upload, permits, asked, panics>>
  BY <1>0 DEF BadRange
<1> QED
  BY <1>2, <1>3, <1>4, <1>5, ReturnsStep

(* The worker passes the permit on to the extraction it starts.            *)
LEMMA AcquirePermitStep ==
  ASSUME ChInv, NEW j \in Job, AcquirePermit(j)
  PROVE  ChInv'
<1>0. PICK w : w = [work[j] EXCEPT !.pc = "first"]
  OBVIOUS
<1>00. PICK f : f = [fetch[j] EXCEPT !.state = "running"]
  OBVIOUS
<1>1. /\ work[j] \in WorkType /\ fetch[j] \in FetchType /\ upload[j] \in UploadType
      /\ JobInv(work[j], fetch[j], upload[j], j \in asked)
      /\ panics \in 0 .. MaxPanics /\ permits \in 0 .. 1
      /\ work \in [Job -> WorkType] /\ fetch \in [Job -> FetchType] /\ upload \in [Job -> UploadType]
  BY JobNow
<1>2. /\ w \in WorkType /\ w.pc = "first" /\ w.result = work[j].result /\ w.gen = work[j].gen
      /\ w.listed = work[j].listed /\ w.cancel = work[j].cancel /\ w.failed = work[j].failed
  BY <1>0, <1>1 DEF WorkType, WorkerPcs
<1>3. f \in FetchType /\ f.state = "running" /\ f.sent = fetch[j].sent /\ f.queue = fetch[j].queue
  BY <1>00, <1>1 DEF FetchType
<1>4. work' = [work EXCEPT ![j] = w] /\ fetch' = [fetch EXCEPT ![j] = f]
      /\ upload' = [upload EXCEPT ![j] = upload[j]] /\ work[j].pc = "acquire"
      /\ permits = 1 /\ permits' = 0
  BY <1>0, <1>00, <1>1 DEF AcquirePermit
<1>5. JobInv(w, f, upload[j], j \in asked')
  <2>1. asked' = asked
    BY DEF AcquirePermit
  <2>2. fetch[j] = NoFetch /\ upload[j] = NoUpload
    BY <1>1, <1>4 DEF JobInv
  <2> QED
    BY <1>1, <1>2, <1>3, <1>4, <2>1, <2>2 DEF JobInv, Over, NoFetch, NoUpload, Honest
<1>6. /\ UNCHANGED <<gen, link, results>> /\ panics' \in 0 .. MaxPanics
      /\ asked' \in {asked, asked \union {j}, asked \ {j}} /\ Runs(f)
  BY <1>1, <1>3 DEF conn, AcquirePermit, Runs
<1>7. /\ w.gen \in {0, work[j].gen} /\ (w.listed => work[j].listed /\ w.gen = work[j].gen)
      /\ (work[j].pc \in Written => w.pc \in Written)
  BY <1>2, <1>4 DEF Written
<1> QED
  BY <1>1, <1>2, <1>3, <1>4, <1>5, <1>6, <1>7, QuietJob

(* The worker goes on waiting for its extraction and nothing else: it was  *)
(* cancelled, or its upload is over.                                       *)
LEMMA StoppingStep ==
  ASSUME ChInv, NEW j \in Job, NEW b \in BOOLEAN, b \/ work[j].cancel, work[j].failed => b,
         work' = [work EXCEPT ![j].pc = "stopping", ![j].failed = b],
         \/ work[j].pc = "upload" /\ upload[j].state # "success" /\ DropUpload(j)
         \/ work[j].pc = "upload" /\ work[j].cancel /\ DropUpload(j)
         \/ work[j].pc = "first" /\ UNCHANGED <<fetch, upload>>,
         UNCHANGED <<conn, permits, asked, panics>>
  PROVE  ChInv'
<1>0. PICK w : w = [work[j] EXCEPT !.pc = "stopping", !.failed = b]
  OBVIOUS
<1>1. /\ work[j] \in WorkType /\ fetch[j] \in FetchType /\ upload[j] \in UploadType
      /\ JobInv(work[j], fetch[j], upload[j], j \in asked)
      /\ panics \in 0 .. MaxPanics /\ permits \in 0 .. 1
      /\ work \in [Job -> WorkType] /\ fetch \in [Job -> FetchType] /\ upload \in [Job -> UploadType]
  BY JobNow
<1>2. /\ w \in WorkType /\ w.pc = "stopping" /\ w.result = work[j].result /\ w.gen = work[j].gen
      /\ w.listed = work[j].listed /\ w.cancel = work[j].cancel /\ w.failed = b
  BY <1>0, <1>1 DEF WorkType, WorkerPcs
<1>3. work' = [work EXCEPT ![j] = w]
  BY <1>0, <1>1
<1>4. work[j].pc \in {"first", "upload"} /\ asked' = asked
  OBVIOUS
<1>5. /\ UNCHANGED <<gen, link, results>> /\ panics' \in 0 .. MaxPanics
      /\ asked' \in {asked, asked \union {j}, asked \ {j}} /\ UNCHANGED permits
  BY <1>1 DEF conn
<1>6. /\ w.gen \in {0, work[j].gen} /\ (w.listed => work[j].listed /\ w.gen = work[j].gen)
      /\ (work[j].pc \in Written => w.pc \in Written)
  BY <1>2, <1>4 DEF Written
<1>7. CASE UNCHANGED <<fetch, upload>> /\ work[j].pc = "first"
  <2>1. PICK f : f = fetch[j]
    OBVIOUS
  <2>2. PICK u : u = upload[j]
    OBVIOUS
  <2>3. /\ fetch' = [fetch EXCEPT ![j] = f] /\ upload' = [upload EXCEPT ![j] = u]
        /\ f \in FetchType /\ u \in UploadType
    BY <1>1, <1>7, <2>1, <2>2
  <2>4. JobInv(w, f, u, j \in asked')
    BY <1>1, <1>2, <1>4, <1>7, <2>1, <2>2 DEF JobInv, Over, Honest
  <2>5. Runs(f) = Runs(fetch[j])
    BY <2>1
  <2> QED
    BY <1>2, <1>3, <1>5, <1>6, <2>3, <2>4, <2>5, QuietJob
<1>8. CASE DropUpload(j) /\ work[j].pc = "upload"
  <2>1. PICK f : f = [fetch[j] EXCEPT !.queue = 0]
    OBVIOUS
  <2>2. PICK u : u = [upload[j] EXCEPT !.state = "failed", !.first = FALSE]
    OBVIOUS
  <2>3. f \in FetchType /\ f.state = fetch[j].state /\ f.sent = fetch[j].sent /\ f.queue = 0
    BY <1>1, <2>1, ChannelAssumption DEF FetchType
  <2>4. u \in UploadType /\ u.state = "failed" /\ u.first = FALSE
    BY <1>1, <2>2 DEF UploadType
  <2>5. fetch' = [fetch EXCEPT ![j] = f] /\ upload' = [upload EXCEPT ![j] = u]
    BY <1>1, <1>8, <2>1, <2>2 DEF DropUpload
  <2>6. JobInv(w, f, u, j \in asked')
    BY <1>1, <1>2, <1>4, <1>8, <2>3, <2>4 DEF JobInv, Over, Honest
  <2>7. Runs(f) = Runs(fetch[j])
    BY <2>3 DEF Runs
  <2> QED
    BY <1>2, <1>3, <1>5, <1>6, <2>3, <2>4, <2>5, <2>6, <2>7, QuietJob
<1> QED
  BY <1>7, <1>8

(* A cancelled worker returns before its extraction has begun, and waits   *)
(* for its end afterwards.                                                 *)
LEMMA WorkerCancelledStep ==
  ASSUME ChInv, NEW j \in Job, WorkerCancelled(j)
  PROVE  ChInv'
<1>1. /\ work[j] \in WorkType /\ fetch[j] \in FetchType /\ upload[j] \in UploadType
      /\ JobInv(work[j], fetch[j], upload[j], j \in asked)
      /\ panics \in 0 .. MaxPanics /\ permits \in 0 .. 1
      /\ work \in [Job -> WorkType] /\ fetch \in [Job -> FetchType] /\ upload \in [Job -> UploadType]
  BY JobNow
<1>2. CASE work[j].pc = "acquire"
  <2>0. PICK res : res = [code |-> "cancelled", upload |-> "none"]
    OBVIOUS
  <2>1. res \in Terminal /\ res.code = "cancelled"
    BY <2>0 DEF Terminal
  <2>2. ~Runs(fetch[j])
    BY <1>1, <1>2 DEF JobInv, Runs, NoFetch
  <2>3. Honest(res, fetch[j], upload[j], j \in asked)
    BY <1>1, <2>1 DEF Honest, WorkerCancelled, JobInv
  <2>4. Returns(j, res) /\ UNCHANGED <<conn, fetch, upload, permits, asked, panics>>
    BY <1>2, <2>0 DEF WorkerCancelled
  <2> QED
    BY <1>2, <2>1, <2>2, <2>3, <2>4, ReturnsStep
<1>3. CASE work[j].pc \in {"first", "upload"}
  <2>1. work[j].failed \in BOOLEAN /\ work[j].cancel
    BY <1>1 DEF WorkerCancelled, WorkType
  <2>2. work' = [work EXCEPT ![j].pc = "stopping", ![j].failed = work[j].failed]
    <3>1. work' = [work EXCEPT ![j] = [work[j] EXCEPT !.pc = "stopping"]]
      BY <1>1, <1>3 DEF WorkerCancelled
    <3>2. [work[j] EXCEPT !.pc = "stopping"] = [work[j] EXCEPT !.pc = "stopping", !.failed = work[j].failed]
      BY <1>1 DEF WorkType
    <3> QED
      BY <1>1, <3>1, <3>2
  <2>3. \/ work[j].pc = "upload" /\ work[j].cancel /\ DropUpload(j)
        \/ work[j].pc = "first" /\ UNCHANGED <<fetch, upload>>
    BY <1>3 DEF WorkerCancelled
  <2>4. UNCHANGED <<conn, permits, asked, panics>>
    BY DEF WorkerCancelled
  <2> QED
    BY <2>1, <2>2, <2>3, <2>4, StoppingStep
<1> QED
  BY <1>2, <1>3 DEF WorkerCancelled

(* An upload that failed, stalled or was not answered makes the worker     *)
(* stop its extraction.                                                    *)
LEMMA UploadEndsStep ==
  ASSUME ChInv, NEW j \in Job, UploadEnds(j)
  PROVE  ChInv'
<1>1. /\ work' = [work EXCEPT ![j].pc = "stopping", ![j].failed = TRUE]
      /\ work[j].pc = "upload" /\ upload[j].state # "success" /\ DropUpload(j)
      /\ UNCHANGED <<conn, permits, asked, panics>>
  BY DEF UploadEnds
<1> QED
  BY <1>1, StoppingStep

(* The first chunk starts the upload, which takes the channel over.        *)
LEMMA FirstChunkStep ==
  ASSUME ChInv, NEW j \in Job, FirstChunk(j)
  PROVE  ChInv'
<1>0. PICK w : w = [work[j] EXCEPT !.pc = "upload"]
  OBVIOUS
<1>00. PICK f : f = [fetch[j] EXCEPT !.queue = @ - 1]
  OBVIOUS
<1>000. PICK u : u = [upload[j] EXCEPT !.state = "sending", !.first = TRUE]
  OBVIOUS
<1>1. /\ work[j] \in WorkType /\ fetch[j] \in FetchType /\ upload[j] \in UploadType
      /\ JobInv(work[j], fetch[j], upload[j], j \in asked)
      /\ panics \in 0 .. MaxPanics /\ permits \in 0 .. 1
      /\ work \in [Job -> WorkType] /\ fetch \in [Job -> FetchType] /\ upload \in [Job -> UploadType]
  BY JobNow
<1>2. /\ w \in WorkType /\ w.pc = "upload" /\ w.result = work[j].result /\ w.gen = work[j].gen
      /\ w.listed = work[j].listed /\ w.cancel = work[j].cancel /\ w.failed = work[j].failed
  BY <1>0, <1>1 DEF WorkType, WorkerPcs
<1>3. fetch[j].queue > 0 /\ work[j].pc = "first" /\ fetch[j].queue \in 0 .. UploadCapacity
  BY <1>1 DEF FirstChunk, FetchType
<1>4. f \in FetchType /\ f.state = fetch[j].state /\ f.sent = fetch[j].sent
  BY <1>00, <1>1, <1>3, ChannelAssumption DEF FetchType
<1>5. u \in UploadType /\ u.state = "sending" /\ u.first = TRUE
  BY <1>000, <1>1 DEF UploadType
<1>6. work' = [work EXCEPT ![j] = w] /\ fetch' = [fetch EXCEPT ![j] = f]
      /\ upload' = [upload EXCEPT ![j] = u] /\ asked' = asked
  BY <1>0, <1>00, <1>000, <1>1 DEF FirstChunk
<1>7. JobInv(w, f, u, j \in asked')
  BY <1>1, <1>2, <1>3, <1>4, <1>5, <1>6 DEF JobInv, Over, Honest
<1>8. /\ UNCHANGED <<gen, link, results>> /\ panics' \in 0 .. MaxPanics /\ UNCHANGED permits
      /\ asked' \in {asked, asked \union {j}, asked \ {j}} /\ Runs(f) = Runs(fetch[j])
  BY <1>1, <1>4 DEF conn, FirstChunk, Runs
<1>9. /\ w.gen \in {0, work[j].gen} /\ (w.listed => work[j].listed /\ w.gen = work[j].gen)
      /\ (work[j].pc \in Written => w.pc \in Written)
  BY <1>2, <1>3 DEF Written
<1> QED
  BY <1>2, <1>4, <1>5, <1>6, <1>7, <1>8, <1>9, QuietJob

(* What terminal_from_fetch reports is so, wherever run_job calls it.      *)
LEMMA TerminalIsHonest ==
  ASSUME ChInv, NEW j \in Job, NEW status \in {"none", "complete", "failed"}, ~Runs(fetch[j]),
         \/ work[j].pc = "first" /\ fetch[j].queue = 0 /\ status = "none"
         \/ work[j].pc = "upload" /\ upload[j].state = "success" /\ status = "complete"
         \/ work[j].pc = "stopping"
  PROVE  TerminalOf(j, status) \in Terminal /\ Honest(TerminalOf(j, status), fetch[j], upload[j], j \in asked)
<1>1. /\ work[j] \in WorkType /\ fetch[j] \in FetchType /\ upload[j] \in UploadType
      /\ JobInv(work[j], fetch[j], upload[j], j \in asked)
      /\ panics \in 0 .. MaxPanics /\ permits \in 0 .. 1
      /\ work \in [Job -> WorkType] /\ fetch \in [Job -> FetchType] /\ upload \in [Job -> UploadType]
  BY JobNow
<1>2. PICK res : res = TerminalOf(j, status)
  OBVIOUS
<1>3. /\ res \in Terminal /\ res.upload = status
      /\ res.code = "cancelled" => work[j].cancel
      /\ res.code = "complete" => fetch[j].state = "ok" /\ ~work[j].cancel /\ ~work[j].failed
      /\ res.code = "empty" => fetch[j].state = "nothing" /\ ~work[j].cancel /\ ~work[j].failed
  BY <1>1, <1>2 DEF TerminalOf, Terminal
<1>4. CASE work[j].pc = "first" /\ fetch[j].queue = 0 /\ status = "none"
  <2>1. ~fetch[j].sent /\ upload[j] = NoUpload
    BY <1>1, <1>4 DEF JobInv
  <2> QED
    BY <1>1, <1>2, <1>3, <1>4, <2>1 DEF Honest, JobInv, NoUpload
<1>5. CASE work[j].pc = "upload" /\ upload[j].state = "success" /\ status = "complete"
  <2>1. fetch[j].sent /\ ~upload[j].first /\ fetch[j].queue = 0 /\ fetch[j].state # "nothing"
    BY <1>1, <1>5 DEF JobInv
  <2> QED
    BY <1>1, <1>2, <1>3, <1>5, <2>1 DEF Honest, JobInv
<1>6. CASE work[j].pc = "stopping"
  BY <1>1, <1>2, <1>3, <1>6 DEF Honest, JobInv
<1> QED
  BY <1>4, <1>5, <1>6

(* An extraction that ends without a chunk is reported without an upload.  *)
LEMMA NoChunkStep ==
  ASSUME ChInv, NEW j \in Job, NoChunk(j)
  PROVE  ChInv'
<1>1. /\ work[j].pc = "first" /\ fetch[j].queue = 0 /\ ~Runs(fetch[j])
      /\ Returns(j, TerminalOf(j, "none")) /\ UNCHANGED <<conn, fetch, upload, permits, asked, panics>>
  BY DEF NoChunk, Runs
<1>2. TerminalOf(j, "none") \in Terminal /\ Honest(TerminalOf(j, "none"), fetch[j], upload[j], j \in asked)
  BY <1>1, TerminalIsHonest
<1> QED
  BY <1>1, <1>2, ReturnsStep

(* Only an extraction and an upload that both ended well are reported as   *)
(* complete.                                                               *)
LEMMA BothDoneStep ==
  ASSUME ChInv, NEW j \in Job, BothDone(j)
  PROVE  ChInv'
<1>1. /\ work[j].pc = "upload" /\ upload[j].state = "success" /\ ~Runs(fetch[j])
      /\ Returns(j, TerminalOf(j, "complete")) /\ UNCHANGED <<conn, fetch, upload, permits, asked, panics>>
  BY DEF BothDone, Runs
<1>2. /\ TerminalOf(j, "complete") \in Terminal
      /\ Honest(TerminalOf(j, "complete"), fetch[j], upload[j], j \in asked)
  BY <1>1, TerminalIsHonest
<1> QED
  BY <1>1, <1>2, ReturnsStep

(* Once the stopped extraction has ended the worker returns its reason.    *)
LEMMA StoppedStep ==
  ASSUME ChInv, NEW j \in Job, Stopped(j)
  PROVE  ChInv'
<1>0. PICK s : s = IF upload[j].state = "none" THEN "none" ELSE "failed"
  OBVIOUS
<1>1. /\ work[j].pc = "stopping" /\ ~Runs(fetch[j]) /\ s \in {"none", "complete", "failed"}
      /\ Returns(j, TerminalOf(j, s)) /\ UNCHANGED <<conn, fetch, upload, permits, asked, panics>>
  BY <1>0 DEF Stopped, Runs
<1>2. TerminalOf(j, s) \in Terminal /\ Honest(TerminalOf(j, s), fetch[j], upload[j], j \in asked)
  BY <1>1, TerminalIsHonest
<1> QED
  BY <1>1, <1>2, ReturnsStep

-----------------------------------------------------------------------------
(* The supervisor, the server's cancel and the end of the results.         *)

(* Only the entry of j changes, and keeps its place in the connection.     *)
LEMMA WorkOnly ==
  ASSUME ChInv, NEW j \in Job, NEW w \in WorkType,
         work' = [work EXCEPT ![j] = w], asked' \in {asked, asked \union {j}},
         JobInv(w, fetch[j], upload[j], j \in asked'),
         w.gen = work[j].gen, w.listed => work[j].listed, work[j].pc \in Written => w.pc \in Written,
         UNCHANGED <<conn, fetch, upload, permits>>, panics' \in 0 .. MaxPanics
  PROVE  ChInv'
<1>1. /\ work[j] \in WorkType /\ fetch[j] \in FetchType /\ upload[j] \in UploadType
      /\ JobInv(work[j], fetch[j], upload[j], j \in asked)
      /\ panics \in 0 .. MaxPanics /\ permits \in 0 .. 1
      /\ work \in [Job -> WorkType] /\ fetch \in [Job -> FetchType] /\ upload \in [Job -> UploadType]
  BY JobNow
<1>2. PICK f : f = fetch[j]
  OBVIOUS
<1>3. PICK u : u = upload[j]
  OBVIOUS
<1>4. /\ fetch' = [fetch EXCEPT ![j] = f] /\ upload' = [upload EXCEPT ![j] = u]
      /\ f \in FetchType /\ u \in UploadType /\ JobInv(w, f, u, j \in asked')
  BY <1>1, <1>2, <1>3
<1>5. UNCHANGED <<gen, link, results>> /\ asked' \in {asked, asked \union {j}, asked \ {j}}
  BY DEF conn
<1>6. Runs(f) = Runs(fetch[j]) /\ UNCHANGED permits
  BY <1>2
<1>7. w.gen \in {0, work[j].gen} /\ (w.listed => work[j].listed /\ w.gen = work[j].gen)
  OBVIOUS
<1> QED
  BY <1>4, <1>5, <1>6, <1>7, QuietJob

(* A panic takes the channel's receiver along unless the upload owns it;   *)
(* the permit stays with the extraction.                                   *)
LEMMA WorkerPanicsStep ==
  ASSUME ChInv, NEW j \in Job, WorkerPanics(j)
  PROVE  ChInv'
<1>0. PICK w : w = [work[j] EXCEPT !.pc = "panicked"]
  OBVIOUS
<1>1. /\ work[j] \in WorkType /\ fetch[j] \in FetchType /\ upload[j] \in UploadType
      /\ JobInv(work[j], fetch[j], upload[j], j \in asked)
      /\ panics \in 0 .. MaxPanics /\ permits \in 0 .. 1
      /\ work \in [Job -> WorkType] /\ fetch \in [Job -> FetchType] /\ upload \in [Job -> UploadType]
  BY JobNow
<1>2. /\ w \in WorkType /\ w.pc = "panicked" /\ w.result = work[j].result /\ w.gen = work[j].gen
      /\ w.listed = work[j].listed /\ w.cancel = work[j].cancel /\ w.failed = work[j].failed
  BY <1>0, <1>1 DEF WorkType, WorkerPcs
<1>3. work' = [work EXCEPT ![j] = w] /\ work[j].pc \in {"acquire", "first", "upload", "stopping"}
  BY <1>0, <1>1 DEF WorkerPanics
<1>4. JobInv(w, fetch[j], upload[j], j \in asked') /\ asked' = asked
  BY <1>1, <1>2, <1>3 DEF WorkerPanics, JobInv, Over, Honest
<1>5. UNCHANGED <<conn, fetch, upload, permits>> /\ panics' \in 0 .. MaxPanics
  BY <1>1, ChannelAssumption DEF WorkerPanics
<1>6. work[j].pc \notin Written
  BY <1>3 DEF Written
<1> QED
  BY <1>2, <1>3, <1>4, <1>5, <1>6, WorkOnly

(* The supervisor settles a job when the worker has returned, or has       *)
(* panicked and the extraction is over.                                    *)
LEMMA SettleStep ==
  ASSUME ChInv, NEW j \in Job, Settle(j)
  PROVE  ChInv'
<1>0. PICK r : r = IF work[j].pc = "returned" THEN work[j].result ELSE [code |-> "error", upload |-> "none"]
  OBVIOUS
<1>00. PICK w : w = [work[j] EXCEPT !.pc = "settled", !.listed = FALSE, !.result = r]
  OBVIOUS
<1>1. /\ work[j] \in WorkType /\ fetch[j] \in FetchType /\ upload[j] \in UploadType
      /\ JobInv(work[j], fetch[j], upload[j], j \in asked)
      /\ panics \in 0 .. MaxPanics /\ permits \in 0 .. 1
      /\ work \in [Job -> WorkType] /\ fetch \in [Job -> FetchType] /\ upload \in [Job -> UploadType]
  BY JobNow
<1>2. r \in Terminal \union {NoResult} /\ (r = work[j].result \/ r.code = "error")
  BY <1>0, <1>1 DEF WorkType, Terminal
<1>3. /\ w \in WorkType /\ w.pc = "settled" /\ w.result = r /\ w.gen = work[j].gen
      /\ w.listed = FALSE /\ w.cancel = work[j].cancel /\ w.failed = work[j].failed
  BY <1>00, <1>1, <1>2 DEF WorkType, WorkerPcs
<1>4. work' = [work EXCEPT ![j] = w] /\ work[j].pc \in {"returned", "panicked"} /\ ~Runs(fetch[j])
  BY <1>0, <1>00, <1>1 DEF Settle, Runs, JobInv
<1>5. Honest(r, fetch[j], upload[j], j \in asked) \/ r = NoResult
  BY <1>1, <1>2 DEF JobInv, Honest
<1>6. JobInv(w, fetch[j], upload[j], j \in asked') /\ asked' = asked
  BY <1>1, <1>3, <1>4, <1>5 DEF Settle, JobInv, Over, Honest, Runs
<1>7. UNCHANGED <<conn, fetch, upload, permits>> /\ panics' \in 0 .. MaxPanics
  BY <1>1 DEF Settle
<1>8. work[j].pc \notin Written
  BY <1>4 DEF Written
<1> QED
  BY <1>3, <1>4, <1>6, <1>7, <1>8, WorkOnly

(* A cancel from the server marks the job and nothing else.                *)
LEMMA CancelJobStep ==
  ASSUME ChInv, NEW j \in Job, CancelJob(j)
  PROVE  ChInv'
<1>0. PICK w : w = [work[j] EXCEPT !.cancel = TRUE]
  OBVIOUS
<1>1. /\ work[j] \in WorkType /\ fetch[j] \in FetchType /\ upload[j] \in UploadType
      /\ JobInv(work[j], fetch[j], upload[j], j \in asked)
      /\ panics \in 0 .. MaxPanics /\ permits \in 0 .. 1
      /\ work \in [Job -> WorkType] /\ fetch \in [Job -> FetchType] /\ upload \in [Job -> UploadType]
  BY JobNow
<1>2. /\ w \in WorkType /\ w.pc = work[j].pc /\ w.result = work[j].result /\ w.gen = work[j].gen
      /\ w.listed = work[j].listed /\ w.cancel = TRUE /\ w.failed = work[j].failed
  BY <1>0, <1>1 DEF WorkType
<1>3. work' = [work EXCEPT ![j] = w] /\ asked' = asked \union {j}
  BY <1>0, <1>1 DEF CancelJob
<1>4. JobInv(w, fetch[j], upload[j], j \in asked')
  BY <1>1, <1>2, <1>3 DEF JobInv, Honest
<1>5. UNCHANGED <<conn, fetch, upload, permits>> /\ panics' \in 0 .. MaxPanics
  BY <1>1 DEF CancelJob
<1> QED
  BY <1>2, <1>3, <1>4, <1>5, WorkOnly

(* A result that was written, or dropped with its connection: nothing of   *)
(* the job is left, and what waits keeps waiting.                          *)
LEMMA ForgetStep ==
  ASSUME ChInv, NEW j \in Job, Forget(j), work[j].pc \in Over,
         UNCHANGED <<gen, link, permits, panics>>,
         results' \in Seq(Job), Len(results') <= ResultCapacity,
         \A k \in 1 .. Len(results') : \E l \in 1 .. Len(results) : results'[k] = results[l]
  PROVE  ChInv'
<1>0. PICK w : w = Done(j)
  OBVIOUS
<1>1. /\ work[j] \in WorkType /\ fetch[j] \in FetchType /\ upload[j] \in UploadType
      /\ JobInv(work[j], fetch[j], upload[j], j \in asked)
      /\ panics \in 0 .. MaxPanics /\ permits \in 0 .. 1
      /\ work \in [Job -> WorkType] /\ fetch \in [Job -> FetchType] /\ upload \in [Job -> UploadType]
  BY JobNow
<1>2. /\ w \in WorkType /\ w.pc = "done" /\ w.result = NoResult /\ w.gen = 0
      /\ w.listed = FALSE /\ w.cancel = FALSE
  <2>1. work[j].listed = FALSE
    BY <1>1 DEF JobInv, WorkType
  <2>2. 0 \in 0 .. MaxConns
    BY ChannelAssumption
  <2> QED
    BY <1>0, <1>1, <2>1, <2>2 DEF Done, WorkType, WorkerPcs
<1>3. /\ work' = [work EXCEPT ![j] = w] /\ fetch' = [fetch EXCEPT ![j] = NoFetch]
      /\ upload' = [upload EXCEPT ![j] = NoUpload] /\ asked' = asked \ {j}
  BY <1>0 DEF Forget
<1>4. NoFetch \in FetchType /\ NoUpload \in UploadType
  BY ChannelAssumption DEF FetchType, UploadType, NoFetch, NoUpload
<1>5. JobInv(w, NoFetch, NoUpload, j \in asked')
  BY <1>2 DEF JobInv, NoFetch, NoUpload, Over
<1>6. Runs(NoFetch) = Runs(fetch[j]) /\ UNCHANGED permits
  BY <1>1 DEF Runs, NoFetch, JobInv, Over
<1>7. 0 <= gen /\ w.pc \in Written
  BY <1>2 DEF ChInv, ChTypeOK, Written
<1>8. asked' \in {asked, asked \union {j}, asked \ {j}} /\ UNCHANGED <<gen, link>> /\ panics' \in 0 .. MaxPanics
  BY <1>1, <1>3
<1> QED
  BY <1>2, <1>3, <1>4, <1>5, <1>6, <1>7, <1>8, OneJob

(* A settled result enters the queue of its own connection, or is dropped  *)
(* with it.                                                                *)
LEMMA ReportStep ==
  ASSUME ChInv, NEW j \in Job, Report(j)
  PROVE  ChInv'
<1>1. /\ work[j] \in WorkType /\ fetch[j] \in FetchType /\ upload[j] \in UploadType
      /\ JobInv(work[j], fetch[j], upload[j], j \in asked)
      /\ panics \in 0 .. MaxPanics /\ permits \in 0 .. 1
      /\ work \in [Job -> WorkType] /\ fetch \in [Job -> FetchType] /\ upload \in [Job -> UploadType]
  BY JobNow
<1>2. work[j].pc = "settled" /\ UNCHANGED <<gen, link, permits, panics>>
  BY DEF Report
<1>3. results \in Seq(Job) /\ Len(results) <= ResultCapacity /\ Len(results) \in Nat
  BY DEF ChInv, ChTypeOK
<1>4. CASE Forget(j) /\ UNCHANGED results
  BY <1>2, <1>3, <1>4, ForgetStep DEF Over
<1>5. CASE /\ Len(results) < ResultCapacity /\ results' = Append(results, j)
           /\ work' = [work EXCEPT ![j].pc = "queued"] /\ UNCHANGED <<fetch, upload, asked>>
  <2>0. PICK w : w = [work[j] EXCEPT !.pc = "queued"]
    OBVIOUS
  <2>1. /\ w \in WorkType /\ w.pc = "queued" /\ w.result = work[j].result /\ w.gen = work[j].gen
        /\ w.listed = work[j].listed /\ w.cancel = work[j].cancel /\ w.failed = work[j].failed
    BY <1>1, <2>0 DEF WorkType, WorkerPcs
  <2>2. /\ work' = [work EXCEPT ![j] = w] /\ fetch' = [fetch EXCEPT ![j] = fetch[j]]
        /\ upload' = [upload EXCEPT ![j] = upload[j]] /\ asked' = asked
    BY <1>1, <1>5, <2>0
  <2>3. JobInv(w, fetch[j], upload[j], j \in asked') /\ w.listed = FALSE
    BY <1>1, <1>2, <2>1, <2>2 DEF JobInv, Over, Honest, WorkType
  <2>4. results' \in Seq(Job) /\ Len(results') <= ResultCapacity /\ Len(results') = Len(results) + 1
    BY <1>3, <1>5, ChannelAssumption
  <2>5. ASSUME NEW k \in 1 .. Len(results')
        PROVE  \/ results'[k] = j /\ w.pc \in Written
               \/ \E l \in 1 .. Len(results) : results'[k] = results[l]
    BY <1>3, <1>5, <2>1, <2>4 DEF Written
  <2>6. w.gen <= gen /\ Runs(fetch[j]) = Runs(fetch[j]) /\ UNCHANGED permits
    BY <1>2, <2>1 DEF ChInv, GenOK
  <2>7. w.pc \in Written /\ UNCHANGED <<gen, link>> /\ panics' \in 0 .. MaxPanics
    BY <1>1, <1>2, <2>1 DEF Written
  <2> QED
    BY <1>1, <2>1, <2>2, <2>3, <2>4, <2>5, <2>6, <2>7, OneJob
<1> QED
  BY <1>4, <1>5 DEF Report

(* A written result leaves the queue and its job is done.                  *)
LEMMA WriteResultStep ==
  ASSUME ChInv, WriteResult
  PROVE  ChInv'
<1>1. results \in Seq(Job) /\ results # <<>> /\ Len(results) <= ResultCapacity /\ Len(results) \in Nat \ {0}
  BY DEF ChInv, ChTypeOK, WriteResult
<1>2. Head(results) \in Job /\ Head(results) = results[1] /\ 1 \in 1 .. Len(results)
  BY <1>1
<1>3. work[Head(results)].pc \in Over
  BY <1>2 DEF ChInv, ResultsOK, Over
<1>4. /\ results' = Tail(results) /\ Forget(Head(results)) /\ UNCHANGED <<gen, link, permits, panics>>
  BY DEF WriteResult
<1>5. results' \in Seq(Job) /\ Len(results') = Len(results) - 1 /\ Len(results') <= ResultCapacity
  BY <1>1, <1>4, ChannelAssumption
<1>6. ASSUME NEW k \in 1 .. Len(results') PROVE \E l \in 1 .. Len(results) : results'[k] = results[l]
  <2>1. k + 1 \in 1 .. Len(results) /\ results'[k] = results[k + 1]
    BY <1>1, <1>4, <1>5
  <2> QED
    BY <2>1
<1> QED
  BY <1>2, <1>3, <1>4, <1>5, <1>6, ForgetStep

(* A new job is admitted below MAX_ACTIVE_JOBS and starts with nothing     *)
(* running.                                                                *)
LEMMA StartJobStep ==
  ASSUME ChInv, NEW j \in Job, StartJob(j)
  PROVE  ChInv'
<1> PICK to \in {"acquire", "refuse"} :
          work' = [work EXCEPT ![j].pc = to, ![j].gen = gen, ![j].listed = TRUE]
  BY DEF StartJob
<1>0. PICK w : w = [work[j] EXCEPT !.pc = to, !.gen = gen, !.listed = TRUE]
  OBVIOUS
<1>01. PICK f : f = fetch[j]
  OBVIOUS
<1>02. PICK u : u = upload[j]
  OBVIOUS
<1>1. /\ work[j] \in WorkType /\ fetch[j] \in FetchType /\ upload[j] \in UploadType
      /\ JobInv(work[j], fetch[j], upload[j], j \in asked)
      /\ panics \in 0 .. MaxPanics /\ permits \in 0 .. 1
      /\ work \in [Job -> WorkType] /\ fetch \in [Job -> FetchType] /\ upload \in [Job -> UploadType]
  BY JobNow
<1>2. /\ w \in WorkType /\ w.pc \in {"acquire", "refuse"} /\ w.result = work[j].result /\ w.gen = gen
      /\ w.listed = TRUE /\ w.cancel = work[j].cancel /\ w.failed = work[j].failed
  BY <1>0, <1>1 DEF WorkType, WorkerPcs, ChInv, ChTypeOK
<1>3. /\ work' = [work EXCEPT ![j] = w] /\ fetch' = [fetch EXCEPT ![j] = f]
      /\ upload' = [upload EXCEPT ![j] = u] /\ asked' = asked /\ work[j].pc = "none"
      /\ Cardinality(Mine) < MaxActiveJobs /\ UNCHANGED <<gen, link, results>> /\ UNCHANGED permits
      /\ panics' \in 0 .. MaxPanics
  BY <1>0, <1>01, <1>02, <1>1 DEF StartJob, conn
<1>4. JobInv(w, f, u, j \in asked')
  BY <1>01, <1>02, <1>1, <1>2, <1>3 DEF JobInv, Over, Honest
<1>5. Runs(f) = Runs(fetch[j]) /\ work[j].pc \notin Written /\ f \in FetchType /\ u \in UploadType
  BY <1>01, <1>02, <1>1, <1>3 DEF Written
<1>6. w.gen <= gen /\ results' \in Seq(Job) /\ Len(results') <= ResultCapacity
  BY <1>2, <1>3 DEF ChInv, ChTypeOK
<1>7. asked' \in {asked, asked \union {j}, asked \ {j}} /\ UNCHANGED <<gen, link>>
  BY <1>3
<1>8. ASSUME NEW k \in 1 .. Len(results') PROVE \E l \in 1 .. Len(results) : results'[k] = results[l]
  BY <1>3
<1> QED
  BY <1>2, <1>3, <1>4, <1>5, <1>6, <1>7, <1>8, OneJob

-----------------------------------------------------------------------------
(* The extraction and the upload.                                          *)

(* Only the extraction and the upload of j change.                         *)
LEMMA TransferOnly ==
  ASSUME ChInv, NEW j \in Job, NEW f \in FetchType, NEW u \in UploadType,
         fetch' = [fetch EXCEPT ![j] = f], upload' = [upload EXCEPT ![j] = u],
         JobInv(work[j], f, u, j \in asked),
         UNCHANGED <<conn, work, asked, panics>>,
         \/ Runs(f) = Runs(fetch[j]) /\ UNCHANGED permits
         \/ Runs(fetch[j]) /\ ~Runs(f) /\ permits' = permits + 1
  PROVE  ChInv'
<1>1. /\ work[j] \in WorkType /\ fetch[j] \in FetchType /\ upload[j] \in UploadType
      /\ JobInv(work[j], fetch[j], upload[j], j \in asked)
      /\ panics \in 0 .. MaxPanics /\ permits \in 0 .. 1
      /\ work \in [Job -> WorkType] /\ fetch \in [Job -> FetchType] /\ upload \in [Job -> UploadType]
  BY JobNow
<1>2. PICK w : w = work[j]
  OBVIOUS
<1>3. w \in WorkType /\ work' = [work EXCEPT ![j] = w]
  BY <1>1, <1>2
<1>4. JobInv(w, f, u, j \in asked')
  BY <1>2 DEF JobInv, Honest
<1>5. /\ UNCHANGED <<gen, link, results>> /\ asked' \in {asked, asked \union {j}, asked \ {j}}
      /\ panics' \in 0 .. MaxPanics
  BY <1>1 DEF conn
<1>6. /\ w.gen \in {0, work[j].gen} /\ (w.listed => work[j].listed /\ w.gen = work[j].gen)
      /\ (work[j].pc \in Written => w.pc \in Written)
  BY <1>2
<1> QED
  BY <1>3, <1>4, <1>5, <1>6, QuietJob

(* The extraction sends while the channel has room and a receiver.         *)
LEMMA PushChunkStep ==
  ASSUME ChInv, NEW j \in Job, PushChunk(j)
  PROVE  ChInv'
<1>0. PICK f : f = [fetch[j] EXCEPT !.sent = TRUE, !.queue = @ + 1]
  OBVIOUS
<1>00. PICK u : u = upload[j]
  OBVIOUS
<1>1. /\ work[j] \in WorkType /\ fetch[j] \in FetchType /\ upload[j] \in UploadType
      /\ JobInv(work[j], fetch[j], upload[j], j \in asked)
      /\ panics \in 0 .. MaxPanics /\ permits \in 0 .. 1
      /\ work \in [Job -> WorkType] /\ fetch \in [Job -> FetchType] /\ upload \in [Job -> UploadType]
  BY JobNow
<1>2. fetch[j].state = "running" /\ fetch[j].queue < UploadCapacity /\ fetch[j].queue \in 0 .. UploadCapacity
  BY <1>1 DEF PushChunk, FetchType
<1>3. f \in FetchType /\ f.state = "running" /\ f.sent = TRUE /\ f.queue > 0
  <2>1. fetch[j].queue + 1 \in 0 .. UploadCapacity /\ fetch[j].queue + 1 > 0
    BY <1>2, ChannelAssumption
  <2>2. PICK q : q = fetch[j].queue + 1
    OBVIOUS
  <2>3. f = [fetch[j] EXCEPT !.sent = TRUE, !.queue = q] /\ q \in 0 .. UploadCapacity /\ q > 0
    BY <1>0, <1>1, <2>1, <2>2 DEF FetchType
  <2> QED
    BY <1>1, <1>2, <2>3 DEF FetchType
<1>4. fetch' = [fetch EXCEPT ![j] = f] /\ upload' = [upload EXCEPT ![j] = u] /\ u \in UploadType
  BY <1>0, <1>00, <1>1 DEF PushChunk
<1>5. JobInv(work[j], f, u, j \in asked)
  BY <1>00, <1>1, <1>2, <1>3 DEF JobInv, Honest, NoFetch
<1>6. Runs(f) = Runs(fetch[j]) /\ UNCHANGED permits /\ UNCHANGED <<conn, work, asked, panics>>
  BY <1>2, <1>3 DEF Runs, PushChunk
<1> QED
  BY <1>3, <1>4, <1>5, <1>6, TransferOnly

(* The extraction ends and gives the permit back.                          *)
LEMMA FetchEndsStep ==
  ASSUME ChInv, NEW j \in Job, FetchEnds(j)
  PROVE  ChInv'
<1>0. PICK how \in {"ok", "error"} \union (IF fetch[j].sent THEN {} ELSE {"nothing"}) :
        fetch' = [fetch EXCEPT ![j].state = how]
  BY DEF FetchEnds
<1>01. PICK f : f = [fetch[j] EXCEPT !.state = how]
  OBVIOUS
<1>02. PICK u : u = upload[j]
  OBVIOUS
<1>1. /\ work[j] \in WorkType /\ fetch[j] \in FetchType /\ upload[j] \in UploadType
      /\ JobInv(work[j], fetch[j], upload[j], j \in asked)
      /\ panics \in 0 .. MaxPanics /\ permits \in 0 .. 1
      /\ work \in [Job -> WorkType] /\ fetch \in [Job -> FetchType] /\ upload \in [Job -> UploadType]
  BY JobNow
<1>2. how \in {"ok", "error", "nothing"} /\ (how = "nothing" => ~fetch[j].sent)
  BY <1>0
<1>3. f \in FetchType /\ f.state = how /\ f.sent = fetch[j].sent /\ f.queue = fetch[j].queue
  BY <1>01, <1>1, <1>2 DEF FetchType
<1>4. fetch' = [fetch EXCEPT ![j] = f] /\ upload' = [upload EXCEPT ![j] = u] /\ u \in UploadType
      /\ fetch[j].state = "running"
  BY <1>0, <1>01, <1>02, <1>1 DEF FetchEnds
<1>5. JobInv(work[j], f, u, j \in asked)
  BY <1>02, <1>1, <1>2, <1>3, <1>4 DEF JobInv, Honest, NoFetch
<1>6. Runs(fetch[j]) /\ ~Runs(f) /\ permits' = permits + 1 /\ UNCHANGED <<conn, work, asked, panics>>
  BY <1>2, <1>3, <1>4 DEF Runs, FetchEnds
<1> QED
  BY <1>3, <1>4, <1>5, <1>6, TransferOnly

(* The upload's body takes a chunk out of the channel.                     *)
LEMMA BodyTakesStep ==
  ASSUME ChInv, NEW j \in Job, BodyTakes(j)
  PROVE  ChInv'
<1>1. /\ work[j] \in WorkType /\ fetch[j] \in FetchType /\ upload[j] \in UploadType
      /\ JobInv(work[j], fetch[j], upload[j], j \in asked)
      /\ panics \in 0 .. MaxPanics /\ permits \in 0 .. 1
      /\ work \in [Job -> WorkType] /\ fetch \in [Job -> FetchType] /\ upload \in [Job -> UploadType]
  BY JobNow
<1>2. upload[j].state = "sending" /\ UNCHANGED <<conn, work, asked, panics>> /\ UNCHANGED permits
  BY DEF BodyTakes
<1>3. CASE upload[j].first /\ upload' = [upload EXCEPT ![j].first = FALSE] /\ UNCHANGED fetch
  <2>1. PICK f : f = fetch[j]
    OBVIOUS
  <2>2. PICK u : u = [upload[j] EXCEPT !.first = FALSE]
    OBVIOUS
  <2>3. u \in UploadType /\ u.state = "sending" /\ u.first = FALSE
    BY <1>1, <1>2, <2>2 DEF UploadType
  <2>4. fetch' = [fetch EXCEPT ![j] = f] /\ upload' = [upload EXCEPT ![j] = u] /\ f \in FetchType
    BY <1>1, <1>3, <2>1, <2>2
  <2>5. JobInv(work[j], f, u, j \in asked) /\ Runs(f) = Runs(fetch[j])
    BY <1>1, <1>2, <2>1, <2>3 DEF JobInv, Honest, NoUpload
  <2> QED
    BY <1>2, <2>3, <2>4, <2>5, TransferOnly
<1>4. CASE fetch[j].queue > 0 /\ fetch' = [fetch EXCEPT ![j].queue = @ - 1] /\ UNCHANGED upload
  <2>1. PICK f : f = [fetch[j] EXCEPT !.queue = @ - 1]
    OBVIOUS
  <2>2. PICK u : u = upload[j]
    OBVIOUS
  <2>3. fetch[j].queue \in 0 .. UploadCapacity
    BY <1>1 DEF FetchType
  <2>4. f \in FetchType /\ f.state = fetch[j].state /\ f.sent = fetch[j].sent
    BY <1>1, <1>4, <2>1, <2>3, ChannelAssumption DEF FetchType
  <2>5. fetch' = [fetch EXCEPT ![j] = f] /\ upload' = [upload EXCEPT ![j] = u] /\ u \in UploadType
    BY <1>1, <1>4, <2>1, <2>2
  <2>6. JobInv(work[j], f, u, j \in asked)
    BY <1>1, <1>2, <2>2, <2>4 DEF JobInv, Honest, NoUpload
  <2>7. Runs(f) = Runs(fetch[j])
    BY <2>4 DEF Runs
  <2> QED
    BY <1>2, <2>4, <2>5, <2>6, <2>7, TransferOnly
<1> QED
  BY <1>3, <1>4 DEF BodyTakes

(* The body ends when the channel is empty and the extraction over.        *)
LEMMA BodyEndsStep ==
  ASSUME ChInv, NEW j \in Job, BodyEnds(j)
  PROVE  ChInv'
<1>0. PICK f : f = fetch[j]
  OBVIOUS
<1>00. PICK u : u = [upload[j] EXCEPT !.state = "eof"]
  OBVIOUS
<1>1. /\ work[j] \in WorkType /\ fetch[j] \in FetchType /\ upload[j] \in UploadType
      /\ JobInv(work[j], fetch[j], upload[j], j \in asked)
      /\ panics \in 0 .. MaxPanics /\ permits \in 0 .. 1
      /\ work \in [Job -> WorkType] /\ fetch \in [Job -> FetchType] /\ upload \in [Job -> UploadType]
  BY JobNow
<1>2. u \in UploadType /\ u.state = "eof" /\ u.first = upload[j].first
  BY <1>00, <1>1 DEF UploadType
<1>3. fetch' = [fetch EXCEPT ![j] = f] /\ upload' = [upload EXCEPT ![j] = u] /\ f \in FetchType
  BY <1>0, <1>00, <1>1 DEF BodyEnds
<1>4. JobInv(work[j], f, u, j \in asked) /\ Runs(f) = Runs(fetch[j])
  BY <1>0, <1>1, <1>2 DEF BodyEnds, JobInv, Honest, NoUpload
<1>5. UNCHANGED permits /\ UNCHANGED <<conn, work, asked, panics>>
  BY DEF BodyEnds
<1> QED
  BY <1>2, <1>3, <1>4, <1>5, TransferOnly

(* The server answers the upload: with success only after its whole body.  *)
LEMMA UploadAnsweredStep ==
  ASSUME ChInv, NEW j \in Job, UploadAnswered(j)
  PROVE  ChInv'
<1>1. /\ work[j] \in WorkType /\ fetch[j] \in FetchType /\ upload[j] \in UploadType
      /\ JobInv(work[j], fetch[j], upload[j], j \in asked)
      /\ panics \in 0 .. MaxPanics /\ permits \in 0 .. 1
      /\ work \in [Job -> WorkType] /\ fetch \in [Job -> FetchType] /\ upload \in [Job -> UploadType]
  BY JobNow
<1>2. upload[j].state \in {"sending", "eof"} /\ UNCHANGED <<conn, work, asked, panics>> /\ UNCHANGED permits
  BY DEF UploadAnswered
<1>3. CASE upload[j].state = "eof" /\ upload' = [upload EXCEPT ![j].state = "success"] /\ UNCHANGED fetch
  <2>1. PICK f : f = fetch[j]
    OBVIOUS
  <2>2. PICK u : u = [upload[j] EXCEPT !.state = "success"]
    OBVIOUS
  <2>3. u \in UploadType /\ u.state = "success" /\ u.first = upload[j].first
    BY <1>1, <2>2 DEF UploadType
  <2>4. fetch' = [fetch EXCEPT ![j] = f] /\ upload' = [upload EXCEPT ![j] = u] /\ f \in FetchType
    BY <1>1, <1>3, <2>1, <2>2
  <2>5. JobInv(work[j], f, u, j \in asked) /\ Runs(f) = Runs(fetch[j])
    BY <1>1, <1>3, <2>1, <2>3 DEF JobInv, Honest, NoUpload
  <2> QED
    BY <1>2, <2>3, <2>4, <2>5, TransferOnly
<1>4. CASE DropUpload(j)
  <2>1. PICK f : f = [fetch[j] EXCEPT !.queue = 0]
    OBVIOUS
  <2>2. PICK u : u = [upload[j] EXCEPT !.state = "failed", !.first = FALSE]
    OBVIOUS
  <2>3. f \in FetchType /\ f.state = fetch[j].state /\ f.sent = fetch[j].sent /\ f.queue = 0
    BY <1>1, <2>1, ChannelAssumption DEF FetchType
  <2>4. u \in UploadType /\ u.state = "failed" /\ u.first = FALSE
    BY <1>1, <2>2 DEF UploadType
  <2>5. fetch' = [fetch EXCEPT ![j] = f] /\ upload' = [upload EXCEPT ![j] = u]
    BY <1>1, <1>4, <2>1, <2>2 DEF DropUpload
  <2>6. JobInv(work[j], f, u, j \in asked)
    BY <1>1, <1>2, <2>3, <2>4 DEF JobInv, Honest, NoUpload
  <2>7. Runs(f) = Runs(fetch[j])
    BY <2>3 DEF Runs
  <2> QED
    BY <1>2, <2>3, <2>4, <2>5, <2>6, <2>7, TransferOnly
<1> QED
  BY <1>3, <1>4 DEF UploadAnswered

-----------------------------------------------------------------------------
(* The connection.                                                         *)

(* The jobs of earlier connections do not count against a new one.         *)
LEMMA ConnectStep ==
  ASSUME ChInv, Connect
  PROVE  ChInv'
<1>1. /\ gen < MaxConns /\ gen' = gen + 1 /\ link' = TRUE
      /\ UNCHANGED <<results, work, fetch, upload, permits, asked, panics>>
  BY DEF Connect
<1>2. gen \in 0 .. MaxConns /\ work \in [Job -> WorkType]
  BY DEF ChInv, ChTypeOK
<1>3. ASSUME NEW j \in Job PROVE work[j].gen <= gen /\ work[j].gen \in Nat
  BY <1>2 DEF ChInv, GenOK, WorkType
<1>4. gen' \in 0 .. MaxConns /\ GenOK'
  BY <1>1, <1>2, <1>3, ChannelAssumption DEF GenOK
<1>5. {j \in Job : work'[j].listed /\ work'[j].gen = gen'} = {}
  BY <1>1, <1>2, <1>3
<1>6. Cardinality({j \in Job : work'[j].listed /\ work'[j].gen = gen'}) <= MaxActiveJobs
  BY <1>5, FS_EmptySet, ChannelAssumption
<1>7. ChTypeOK'
  BY <1>1, <1>4, <1>6 DEF ChInv, ChTypeOK
<1>8. JobsOK' /\ PermitOK' /\ OneExtraction' /\ ResultsOK'
  BY <1>1 DEF ChInv, JobsOK, PermitOK, OneExtraction, ResultsOK, JobInv, Honest
<1> QED
  BY <1>4, <1>7, <1>8 DEF ChInv

(* What the end of the connection does to the job i.                       *)
LEMMA EndsOneJob ==
  ASSUME ChInv, ConnectionEnds, NEW i \in Job
  PROVE  /\ work'[i] \in WorkType /\ fetch'[i] \in FetchType /\ upload'[i] \in UploadType
         /\ JobInv(work'[i], fetch'[i], upload'[i], i \in asked')
         /\ Runs(fetch'[i]) <=> Runs(fetch[i])
         /\ work'[i].gen <= gen
         /\ work'[i].listed /\ work'[i].gen = gen => i \in Mine
<1>1. /\ work[i] \in WorkType /\ fetch[i] \in FetchType /\ upload[i] \in UploadType
      /\ JobInv(work[i], fetch[i], upload[i], i \in asked) /\ work[i].gen <= gen /\ 0 <= gen
  BY JobNow DEF ChInv, GenOK, ChTypeOK
<1>2. /\ work' = [j \in Job |-> IF j \in Mine THEN [work[j] EXCEPT !.cancel = TRUE]
                               ELSE IF work[j].pc = "queued" THEN Done(j) ELSE work[j]]
      /\ fetch' = [j \in Job |-> IF work[j].pc = "queued" THEN NoFetch ELSE fetch[j]]
      /\ upload' = [j \in Job |-> IF work[j].pc = "queued" THEN NoUpload ELSE upload[j]]
      /\ asked' = (asked \union Mine) \ {j \in Job : work[j].pc = "queued"}
  BY DEF ConnectionEnds
<1>3. i \in Mine <=> work[i].listed /\ work[i].gen = gen
  BY DEF Mine
<1>4. i \in Mine => work[i].pc # "queued"
  BY <1>1, <1>3 DEF JobInv, Over
<1>5. CASE i \in Mine
  <2>1. PICK w : w = [work[i] EXCEPT !.cancel = TRUE]
    OBVIOUS
  <2>2. /\ w \in WorkType /\ w.pc = work[i].pc /\ w.result = work[i].result /\ w.gen = work[i].gen
        /\ w.listed = work[i].listed /\ w.cancel = TRUE /\ w.failed = work[i].failed
    BY <1>1, <2>1 DEF WorkType
  <2>3. work'[i] = w /\ fetch'[i] = fetch[i] /\ upload'[i] = upload[i] /\ i \in asked'
    BY <1>2, <1>4, <1>5, <2>1
  <2>4. JobInv(w, fetch[i], upload[i], i \in asked')
    BY <1>1, <2>2, <2>3 DEF JobInv, Honest
  <2> QED
    BY <1>1, <1>5, <2>2, <2>3, <2>4
<1>6. CASE i \notin Mine /\ work[i].pc = "queued"
  <2>1. PICK w : w = Done(i)
    OBVIOUS
  <2>2. w \in WorkType /\ w.pc = "done" /\ w.result = NoResult /\ w.gen = 0 /\ w.listed = FALSE /\ w.cancel = FALSE
    <3>1. work[i].listed = FALSE
      BY <1>1, <1>6 DEF JobInv, Over, WorkType
    <3>2. 0 \in 0 .. MaxConns
      BY ChannelAssumption
    <3> QED
      BY <1>1, <2>1, <3>1, <3>2 DEF Done, WorkType, WorkerPcs
  <2>3. work'[i] = w /\ fetch'[i] = NoFetch /\ upload'[i] = NoUpload
    BY <1>2, <1>6, <2>1
  <2>4. NoFetch \in FetchType /\ NoUpload \in UploadType
    BY ChannelAssumption DEF FetchType, UploadType, NoFetch, NoUpload
  <2>5. JobInv(w, NoFetch, NoUpload, i \in asked')
    BY <2>2 DEF JobInv, NoFetch, NoUpload, Over
  <2>6. ~Runs(NoFetch) /\ ~Runs(fetch[i])
    BY <1>1, <1>6 DEF Runs, NoFetch, JobInv
  <2> QED
    BY <1>1, <2>2, <2>3, <2>4, <2>5, <2>6
<1>7. CASE i \notin Mine /\ work[i].pc # "queued"
  <2>1. work'[i] = work[i] /\ fetch'[i] = fetch[i] /\ upload'[i] = upload[i] /\ (i \in asked' <=> i \in asked)
    BY <1>2, <1>7
  <2>2. JobInv(work[i], fetch[i], upload[i], i \in asked')
    BY <1>1, <2>1 DEF JobInv, Honest
  <2> QED
    BY <1>1, <1>3, <2>1, <2>2
<1> QED
  BY <1>5, <1>6, <1>7

(* The end of a connection cancels its jobs, and the results queued for it *)
(* go with it.                                                             *)
LEMMA ConnectionEndsStep ==
  ASSUME ChInv, ConnectionEnds
  PROVE  ChInv'
<1>1. link' = FALSE /\ results' = <<>> /\ UNCHANGED <<gen, permits, panics>>
      /\ asked' = (asked \union Mine) \ {j \in Job : work[j].pc = "queued"}
  BY DEF ConnectionEnds
<1>2. work' \in [Job -> WorkType] /\ fetch' \in [Job -> FetchType] /\ upload' \in [Job -> UploadType]
  <2>1. /\ work' = [j \in Job |-> work'[j]] /\ fetch' = [j \in Job |-> fetch'[j]]
        /\ upload' = [j \in Job |-> upload'[j]]
    BY DEF ConnectionEnds
  <2>2. \A j \in Job : work'[j] \in WorkType /\ fetch'[j] \in FetchType /\ upload'[j] \in UploadType
    BY EndsOneJob
  <2> QED
    BY <2>1, <2>2
<1>3. JobsOK'
  <2> SUFFICES ASSUME NEW i \in Job PROVE JobInv(work'[i], fetch'[i], upload'[i], i \in asked')
    BY DEF JobsOK, JobInv, Honest
  <2> QED
    BY EndsOneJob
<1>4. PermitOK' /\ OneExtraction'
  <2>1. \A i \in Job : Runs(fetch'[i]) <=> Runs(fetch[i])
    BY EndsOneJob
  <2> QED
    BY <1>1, <2>1 DEF ChInv, PermitOK, OneExtraction, Runs
<1>5. GenOK' /\ ResultsOK'
  BY <1>1, EndsOneJob DEF GenOK, ResultsOK
<1>6. Cardinality({j \in Job : work'[j].listed /\ work'[j].gen = gen'}) <= MaxActiveJobs
  <2>1. {j \in Job : work'[j].listed /\ work'[j].gen = gen'} \subseteq Mine
    BY <1>1, EndsOneJob
  <2> QED
    BY <2>1, MineShrinks
<1>7. /\ link' \in BOOLEAN /\ results' \in Seq(Job) /\ Len(results') <= ResultCapacity
      /\ asked' \subseteq Job /\ gen' \in 0 .. MaxConns /\ permits' \in 0 .. 1 /\ panics' \in 0 .. MaxPanics
  <2>1. /\ asked \subseteq Job /\ gen \in 0 .. MaxConns /\ permits \in 0 .. 1 /\ panics \in 0 .. MaxPanics
    BY DEF ChInv, ChTypeOK
  <2>2. results' \in Seq(Job) /\ Len(results') <= ResultCapacity
    BY <1>1, ChannelAssumption
  <2>3. asked' \subseteq Job
    BY <1>1, <2>1 DEF Mine
  <2> QED
    BY <1>1, <2>1, <2>2, <2>3
<1>8. ChTypeOK'
  BY <1>2, <1>6, <1>7 DEF ChTypeOK
<1> QED
  BY <1>3, <1>4, <1>5, <1>8 DEF ChInv

-----------------------------------------------------------------------------
(* The theorems.                                                           *)

(* Every step of agent, server and network keeps the invariant.            *)
LEMMA ChStepInv == ChInv /\ [ChNext]_chVars => ChInv'
<1> SUFFICES ASSUME ChInv, [ChNext]_chVars PROVE ChInv'
  OBVIOUS
<1>1. CASE Connect
  BY <1>1, ConnectStep
<1>2. CASE ConnectionEnds
  BY <1>2, ConnectionEndsStep
<1>3. CASE WriteResult
  BY <1>3, WriteResultStep
<1>4. ASSUME NEW j \in Job, StartJob(j) \/ CancelJob(j) PROVE ChInv'
  BY <1>4, StartJobStep, CancelJobStep
<1>5. ASSUME NEW j \in Job, Worker(j) PROVE ChInv'
  BY <1>5, BadRangeStep, AcquirePermitStep, WorkerCancelledStep, FirstChunkStep, NoChunkStep,
     UploadEndsStep, BothDoneStep, StoppedStep DEF Worker
<1>6. ASSUME NEW j \in Job, WorkerPanics(j) \/ Supervisor(j) PROVE ChInv'
  BY <1>6, WorkerPanicsStep, SettleStep, ReportStep DEF Supervisor
<1>7. ASSUME NEW j \in Job, PushChunk(j) \/ FetchEnds(j) PROVE ChInv'
  BY <1>7, PushChunkStep, FetchEndsStep
<1>8. ASSUME NEW j \in Job, BodyTakes(j) \/ BodyEnds(j) \/ UploadAnswered(j) PROVE ChInv'
  BY <1>8, BodyTakesStep, BodyEndsStep, UploadAnsweredStep
<1>9. CASE UNCHANGED chVars
  BY <1>9 DEF chVars, conn, ChInv, ChTypeOK, JobsOK, PermitOK, OneExtraction, GenOK, ResultsOK, JobInv, Honest
<1> QED
  BY <1>1, <1>2, <1>3, <1>4, <1>5, <1>6, <1>7, <1>8, <1>9 DEF ChNext

(* The inductive invariant of the agent's channel: every job's worker,     *)
(* extraction and upload fit together, the permit of the extraction        *)
(* semaphore is with the one extraction that runs, no job is of a          *)
(* connection to come, and only settled jobs are in the result queue.      *)
THEOREM ChannelInvariant == ChSpec => []ChInv
BY ChInitInv, ChStepInv, PTL DEF ChSpec

(* The values keep to their types; in particular jobs holds at most        *)
(* MAX_ACTIVE_JOBS jobs of a connection and the result queue at most       *)
(* RESULT_CHANNEL_CAPACITY results.                                        *)
THEOREM ChannelTypes == ChSpec => []ChTypeOK
<1>1. ChInv => ChTypeOK
  BY DEF ChInv
<1> QED
  BY <1>1, ChannelInvariant, PTL

(* A published result means that the producer and its permit are gone:     *)
(* terminal_after_worker waits for the latch after a panic, and run_job    *)
(* for the stopped fetch after a cancel or a failed upload.                *)
THEOREM PublishedIsStopped == ChSpec => []SettledIsStopped
<1>1. ChInv => SettledIsStopped
  BY DEF ChInv, JobsOK, JobInv, SettledIsStopped, Settled
<1> QED
  BY <1>1, ChannelInvariant, PTL

(* Extractions never overlap, whatever connection started them and         *)
(* whatever became of the worker that took the semaphore's permit.         *)
THEOREM ExtractionsSerialized == ChSpec => []OneExtraction
<1>1. ChInv => OneExtraction
  BY DEF ChInv
<1> QED
  BY <1>1, ChannelInvariant, PTL

(* What a terminal result says of the extraction, the upload and the       *)
(* cancellation is so, from terminal_from_fetch until it is written.       *)
THEOREM ResultsAreHonest == ChSpec => []ResultIsHonest
<1>1. ChInv => ResultIsHonest
  BY DEF ChInv, JobsOK, JobInv, Honest, ResultIsHonest
<1> QED
  BY <1>1, ChannelInvariant, PTL

=============================================================================
