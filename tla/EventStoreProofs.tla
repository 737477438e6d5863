-------------------------- MODULE EventStoreProofs --------------------------
(* The event store, for any set of events, any settings and either backend: *)
(* the flags and their history, the full text index, what an acknowledged  *)
(* commit means, and that the store implements EventLifecycle.             *)
EXTENDS EventStore, Counting

ArchiveEntries == {"archived", "auto-archived"}

(* The history h explains the flags of a row.                              *)
Explains(h, arch, esc) ==
  /\ arch <=> \E i \in DOMAIN h : h[i] \in ArchiveEntries
  /\ esc <=> LastIs(h, "escalated")

(* A row that is not in the store is as it was submitted; one that is has  *)
(* been stored once and its history explains its flags.                    *)
RowOK(e) ==
  IF doc[e].st = "stored"
  THEN doc[e].copies = 1 /\ Explains(doc[e].hist, doc[e].arch, doc[e].esc)
  ELSE doc[e] = Fresh(doc[e].st, doc[e].tag)

RowsOK == \A e \in Events : RowOK(e)

(* Where an event in the sink's queue may be: on SQLite nowhere else.      *)
QueueOK == \A e \in queue : doc[e].st # "new" /\ (store = "sqlite" => doc[e].st = "queued")

AckedOK == \A e \in acked : doc[e].st \in {"stored", "gone"}

UpdOK == upd \in [Actors -> Updates \union {None}]

(* Only SQLite has transactions and an index; what a transaction that is   *)
(* not stale read of the table still holds.                                *)
TxOK == /\ store # "sqlite" => tx = None /\ ~fts
        /\ tx # None /\ ~tx.stale => tx.fts = fts

StoreInv == /\ StoreTypeOK /\ UpdOK
            /\ RowsOK /\ QueueOK /\ AckedOK
            /\ TxOK /\ SearchIndexExact

-----------------------------------------------------------------------------
(* Operators.                                                              *)

(* Any history of one entry is explained by that entry.                    *)
LEMMA ExplainsFresh ==
  ASSUME NEW tag \in BOOLEAN
  PROVE  Explains(IF tag THEN <<"auto-archived">> ELSE <<>>, tag, FALSE)
BY DEF Explains, LastIs, Escalations, ArchiveEntries

(* A further entry of the history and the flags it sets.                   *)
LEMMA ExplainsAppend ==
  ASSUME NEW h \in Seq(Entries), NEW entry \in Entries,
         NEW arch \in BOOLEAN, NEW esc \in BOOLEAN, Explains(h, arch, esc)
  PROVE  Explains(Append(h, entry), arch \/ entry \in ArchiveEntries,
                  (esc \/ entry = "escalated") /\ entry # "de-escalated")
<1> DEFINE k == Append(h, entry)  n == Len(h)
<1>1. /\ n \in Nat /\ DOMAIN h = 1 .. n /\ DOMAIN k = 1 .. n + 1
      /\ \A i \in 1 .. n : k[i] = h[i]
      /\ k[n + 1] = entry
  OBVIOUS
<1> HIDE DEF k, n
<1>2. (arch \/ entry \in ArchiveEntries) <=> \E i \in DOMAIN k : k[i] \in ArchiveEntries
  <2>1. (\E i \in DOMAIN k : k[i] \in ArchiveEntries)
          <=> (\E i \in DOMAIN h : h[i] \in ArchiveEntries) \/ entry \in ArchiveEntries
    BY <1>1
  <2> QED
    BY <2>1 DEF Explains
<1>3. ((esc \/ entry = "escalated") /\ entry # "de-escalated") <=> LastIs(k, "escalated")
  <2>1. CASE entry \in {"escalated", "de-escalated"}
    <3>1. n + 1 \in Escalations(k) /\ \A j \in Escalations(k) : j <= n + 1
      BY <1>1, <2>1 DEF Escalations
    <3>2. \A i \in Escalations(k) : (\A j \in Escalations(k) : j <= i) => i = n + 1
      BY <3>1, <1>1 DEF Escalations
    <3>3. LastIs(k, "escalated") <=> entry = "escalated"
      BY <3>1, <3>2, <1>1 DEF LastIs
    <3> QED
      BY <3>3, <2>1
  <2>2. CASE entry \notin {"escalated", "de-escalated"}
    <3>1. Escalations(k) = Escalations(h)
      BY <1>1, <2>2 DEF Escalations
    <3>2. \A i \in Escalations(h) : k[i] = h[i]
      BY <1>1 DEF Escalations
    <3>3. LastIs(k, "escalated") <=> LastIs(h, "escalated")
      BY <3>1, <3>2 DEF LastIs
    <3> QED
      BY <3>3, <2>2 DEF Explains
  <2> QED
    BY <2>1, <2>2
<1> QED
  BY <1>2, <1>3 DEF Explains, k

(* The row of an event as the importer submits it.                         *)
LEMMA FreshType ==
  ASSUME NEW st \in {"new", "queued", "stored", "gone"}, NEW tag \in BOOLEAN
  PROVE  /\ Fresh(st, tag) \in DocState
         /\ Fresh(st, tag).st = st /\ Fresh(st, tag).tag = tag
         /\ Fresh(st, tag).copies = 0 /\ Fresh(st, tag).esc = FALSE
         /\ Fresh(st, tag).arch = tag
         /\ Fresh(st, tag).hist = IF tag THEN <<"auto-archived">> ELSE <<>>
<1>1. <<"auto-archived">> \in Seq(Entries) /\ <<>> \in Seq(Entries)
  BY DEF Entries
<1> QED
  BY <1>1 DEF Fresh, DocState

(* What an operation leaves of a row, and what it changes.                 *)
LEMMA MarkedType ==
  ASSUME NEW d \in DocState, NEW entry \in Entries
  PROVE  /\ Marked(d, entry) \in DocState
         /\ Marked(d, entry).st = d.st /\ Marked(d, entry).tag = d.tag
         /\ Marked(d, entry).copies = d.copies
         /\ Marked(d, entry).hist = Append(d.hist, entry)
         /\ Marked(d, entry).arch = (d.arch \/ entry \in ArchiveEntries)
         /\ Marked(d, entry).esc = ((d.esc \/ entry = "escalated") /\ entry # "de-escalated")
<1>1. Append(d.hist, entry) \in Seq(Entries) /\ d.arch \in BOOLEAN /\ d.esc \in BOOLEAN
  BY DEF DocState
<1>2. CASE entry = "de-escalated"
  <2>1. Marked(d, entry) = [d EXCEPT !.hist = Append(d.hist, entry), !.esc = FALSE]
    BY <1>2 DEF Marked, Untagged
  <2> QED
    BY <2>1, <1>1, <1>2 DEF DocState, ArchiveEntries
<1>3. CASE entry # "de-escalated"
  <2>1. Marked(d, entry) = [d EXCEPT !.hist = Append(d.hist, entry),
                                     !.arch = d.arch \/ entry \in ArchiveEntries,
                                     !.esc = d.esc \/ entry = "escalated"]
    BY <1>3 DEF Marked, ArchiveEntries
  <2> QED
    BY <2>1, <1>1, <1>3 DEF DocState
<1> QED
  BY <1>2, <1>3

-----------------------------------------------------------------------------
(* The four ways in which a step changes the rows.                         *)

Submits(e) == /\ doc[e].st = "new"
              /\ \E tag \in BOOLEAN : doc' = [doc EXCEPT ![e] = Fresh("queued", tag)]
Commits(S) == S \subseteq queue \ Stored /\ doc' = Put(S)
Changes(S, entry) == S \subseteq Stored /\ entry \in Entries /\ doc' = Apply(S, entry)
Removes(S) == /\ S \subseteq Stored
              /\ store = "sqlite" => \A e \in S : ~doc[e].esc
              /\ doc' = [e \in Events |-> IF e \in S THEN Fresh("gone", e \in queue /\ doc[e].tag)
                                                   ELSE doc[e]]

(* What the proofs below need of the rows before a step.                   *)
DocInv == doc \in [Events -> DocState] /\ RowsOK

StNow(e) == doc[e].st

(* Submitting changes one row, which is not in the store yet.              *)
LEMMA SubmitsRows ==
  ASSUME DocInv, NEW e \in Events, Submits(e)
  PROVE  /\ DocInv'
         /\ \A f \in Events : /\ StNow(f)' = IF f = e THEN "queued" ELSE StNow(f)
                              /\ f # e => doc'[f] = doc[f]
         /\ Stored' = Stored
<1> PICK tag \in BOOLEAN : doc' = [doc EXCEPT ![e] = Fresh("queued", tag)]
  BY DEF Submits
<1> DEFINE d == Fresh("queued", tag)
<1>1. d \in DocState /\ d.st = "queued" /\ d = Fresh(d.st, d.tag)
  BY FreshType
<1> HIDE DEF d
<1>2. doc' \in [Events -> DocState] /\ \A f \in Events : doc'[f] = IF f = e THEN d ELSE doc[f]
  BY <1>1 DEF DocInv, d
<1>3. RowsOK'
  BY <1>1, <1>2 DEF DocInv, RowsOK, RowOK
<1>4. \A f \in Events : StNow(f)' = IF f = e THEN "queued" ELSE StNow(f)
  BY <1>1, <1>2 DEF StNow
<1>5. Stored' = Stored
  BY <1>4 DEF Stored, StNow, Submits
<1> QED
  BY <1>2, <1>3, <1>4, <1>5 DEF DocInv

(* A commit stores each event it takes once and touches no flag.           *)
LEMMA CommitsRows ==
  ASSUME DocInv, queue \subseteq Events, NEW S, Commits(S)
  PROVE  /\ DocInv'
         /\ \A e \in Events : StNow(e)' = IF e \in S THEN "stored" ELSE StNow(e)
         /\ \A e \in Events : doc'[e].arch = doc[e].arch /\ doc'[e].esc = doc[e].esc
         /\ Stored' = Stored \union S
<1> DEFINE d(e) == [doc[e] EXCEPT !.st = "stored", !.copies = doc[e].copies + 1]
<1>1. \A e \in Events : doc[e] \in DocState
  BY DEF DocInv
<1>2. \A e \in Events : /\ d(e) \in DocState
                       /\ d(e).st = "stored" /\ d(e).copies = doc[e].copies + 1
                       /\ d(e).hist = doc[e].hist /\ d(e).arch = doc[e].arch
                       /\ d(e).esc = doc[e].esc
  <2> SUFFICES ASSUME NEW r \in DocState
               PROVE  LET c == [r EXCEPT !.st = "stored", !.copies = r.copies + 1]
                      IN  /\ c \in DocState
                          /\ c.st = "stored" /\ c.copies = r.copies + 1
                          /\ c.hist = r.hist /\ c.arch = r.arch /\ c.esc = r.esc
    BY <1>1
  <2>1. r.copies \in Nat /\ r.copies + 1 \in Nat
    BY DEF DocState
  <2> QED
    BY <2>1 DEF DocState
<1>3. doc' = [e \in Events |-> IF e \in S THEN d(e) ELSE doc[e]]
  BY DEF Commits, Put
<1>4. S \subseteq Events /\ \A e \in S : doc[e].st # "stored"
  BY DEF Commits, Stored
<1> HIDE DEF d
<1>5. /\ doc' \in [Events -> DocState]
      /\ \A e \in Events : doc'[e] = IF e \in S THEN d(e) ELSE doc[e]
  BY <1>1, <1>2, <1>3
<1>6. ASSUME NEW e \in Events PROVE RowOK(e)'
  <2>1. CASE e \in S
    <3>1. doc[e] = Fresh(doc[e].st, doc[e].tag)
      BY <1>4, <2>1 DEF DocInv, RowsOK, RowOK
    <3>2. doc[e].st \in {"new", "queued", "stored", "gone"} /\ doc[e].tag \in BOOLEAN
      BY <1>1 DEF DocState
    <3>3. /\ doc[e].copies = 0 /\ doc[e].esc = FALSE
          /\ doc[e].arch = doc[e].tag
          /\ doc[e].hist = IF doc[e].tag THEN <<"auto-archived">> ELSE <<>>
      <4> SUFFICES ASSUME NEW r, NEW st \in {"new", "queued", "stored", "gone"},
                          NEW tag \in BOOLEAN, r = Fresh(st, tag), tag = r.tag
                   PROVE  /\ r.copies = 0 /\ r.esc = FALSE /\ r.arch = r.tag
                          /\ r.hist = IF r.tag THEN <<"auto-archived">> ELSE <<>>
        BY <3>1, <3>2
      <4> QED
        BY FreshType
    <3>4. Explains(doc[e].hist, doc[e].arch, doc[e].esc)
      BY <3>2, <3>3, ExplainsFresh
    <3>5. doc'[e] = d(e)
      BY <1>5, <2>1
    <3> QED
      BY <3>3, <3>4, <3>5, <1>2 DEF RowOK
  <2>2. CASE e \notin S
    <3>1. doc'[e] = doc[e] /\ RowOK(e)
      BY <1>5, <2>2 DEF DocInv, RowsOK
    <3> QED
      BY <3>1 DEF RowOK
  <2> QED
    BY <2>1, <2>2
<1>7. \A e \in Events : StNow(e)' = IF e \in S THEN "stored" ELSE StNow(e)
  BY <1>2, <1>5 DEF StNow
<1>8. Stored' = Stored \union S
  BY <1>4, <1>7 DEF Stored, StNow
<1> QED
  BY <1>2, <1>5, <1>6, <1>7, <1>8 DEF DocInv, RowsOK

(* An update of flags writes the entry that explains it, on stored rows    *)
(* only.                                                                   *)
LEMMA ChangesRows ==
  ASSUME DocInv, NEW S, NEW entry, Changes(S, entry)
  PROVE  /\ DocInv'
         /\ \A e \in Events : StNow(e)' = StNow(e)
         /\ \A e \in Events :
              /\ doc'[e].arch = (doc[e].arch \/ (e \in S /\ entry \in ArchiveEntries))
              /\ doc'[e].esc = IF e \in S THEN (doc[e].esc \/ entry = "escalated")
                                             /\ entry # "de-escalated"
                               ELSE doc[e].esc
         /\ Stored' = Stored
<1>1. \A e \in Events : doc[e] \in DocState /\ doc[e].arch \in BOOLEAN /\ doc[e].esc \in BOOLEAN
                       /\ doc[e].hist \in Seq(Entries)
  BY DEF DocInv, DocState
<1>2. doc' = [e \in Events |-> IF e \in S THEN Marked(doc[e], entry) ELSE doc[e]]
  BY DEF Changes, Apply
<1>3. entry \in Entries /\ S \subseteq Events /\ \A e \in S : doc[e].st = "stored"
  BY DEF Changes, Stored
<1>4. /\ doc' \in [Events -> DocState]
      /\ \A e \in Events : doc'[e] = IF e \in S THEN Marked(doc[e], entry) ELSE doc[e]
  BY <1>1, <1>2, <1>3, MarkedType
<1>5. ASSUME NEW e \in S
      PROVE  /\ doc'[e].st = "stored" /\ doc'[e].copies = doc[e].copies
             /\ doc'[e].hist = Append(doc[e].hist, entry)
             /\ doc'[e].arch = (doc[e].arch \/ entry \in ArchiveEntries)
             /\ doc'[e].esc = ((doc[e].esc \/ entry = "escalated") /\ entry # "de-escalated")
  <2>1. doc'[e] = Marked(doc[e], entry) /\ doc[e] \in DocState
    BY <1>1, <1>3, <1>4
  <2> QED
    BY <2>1, <1>3, MarkedType
<1>6. ASSUME NEW e \in Events PROVE RowOK(e)'
  <2>0. RowOK(e)
    BY DEF DocInv, RowsOK
  <2>1. CASE e \in S
    <3>1. doc[e].copies = 1 /\ Explains(doc[e].hist, doc[e].arch, doc[e].esc)
      BY <2>0, <2>1, <1>3 DEF RowOK
    <3>2. Explains(Append(doc[e].hist, entry), doc[e].arch \/ entry \in ArchiveEntries,
                   (doc[e].esc \/ entry = "escalated") /\ entry # "de-escalated")
      BY <3>1, <2>1, <1>1, <1>3, ExplainsAppend
    <3>3. Explains(doc'[e].hist, doc'[e].arch, doc'[e].esc)
      BY <3>2, <2>1, <1>5, Zenon
    <3> QED
      BY <3>1, <3>3, <2>1, <1>5 DEF RowOK
  <2>2. CASE e \notin S
    BY <2>0, <2>2, <1>4 DEF RowOK
  <2> QED
    BY <2>1, <2>2
<1>7. \A e \in Events : StNow(e)' = StNow(e)
  BY <1>3, <1>4, <1>5 DEF StNow
<1>8. Stored' = Stored
  BY <1>7 DEF Stored, StNow
<1>9. ASSUME NEW e \in Events
      PROVE  /\ doc'[e].arch = (doc[e].arch \/ (e \in S /\ entry \in ArchiveEntries))
             /\ doc'[e].esc = IF e \in S THEN (doc[e].esc \/ entry = "escalated")
                                            /\ entry # "de-escalated"
                              ELSE doc[e].esc
  BY <1>1, <1>4, <1>5
<1> QED
  BY <1>4, <1>6, <1>7, <1>8, <1>9 DEF DocInv, RowsOK

(* A removed row is as if it had never been stored.                        *)
LEMMA RemovesRows ==
  ASSUME DocInv, NEW S, Removes(S)
  PROVE  /\ DocInv'
         /\ \A e \in Events : StNow(e)' = IF e \in S THEN "gone" ELSE StNow(e)
         /\ \A e \in Events \ S : doc'[e] = doc[e]
         /\ Stored' = Stored \ S
<1> DEFINE d(e) == Fresh("gone", e \in queue /\ doc[e].tag)
<1>1. \A e \in Events : doc[e] \in DocState /\ doc[e].tag \in BOOLEAN
  BY DEF DocInv, DocState
<1>2. ASSUME NEW e \in Events
      PROVE  d(e) \in DocState /\ d(e).st = "gone" /\ d(e) = Fresh(d(e).st, d(e).tag)
  <2>1. (e \in queue /\ doc[e].tag) \in BOOLEAN
    OBVIOUS
  <2> QED
    BY <2>1, FreshType
<1>3. doc' = [e \in Events |-> IF e \in S THEN d(e) ELSE doc[e]] /\ S \subseteq Events
  BY DEF Removes, Stored
<1> HIDE DEF d
<1>4. /\ doc' \in [Events -> DocState]
      /\ \A e \in Events : doc'[e] = IF e \in S THEN d(e) ELSE doc[e]
  BY <1>1, <1>2, <1>3
<1>5. RowsOK'
  BY <1>2, <1>4 DEF DocInv, RowsOK, RowOK
<1>6. \A e \in Events : StNow(e)' = IF e \in S THEN "gone" ELSE StNow(e)
  BY <1>2, <1>4 DEF StNow
<1>7. Stored' = Stored \ S
  BY <1>6 DEF Stored, StNow
<1> QED
  BY <1>3, <1>4, <1>5, <1>6, <1>7 DEF DocInv

-----------------------------------------------------------------------------
(* The invariant.                                                          *)

Scalars == /\ now \in 0 .. MaxDay /\ tries \in 0 .. MaxTries - 1
           /\ filterq \in BOOLEAN /\ ret \in {"sleep", "size", "days", "archive"}
           /\ ops \in 0 .. MaxOps /\ faults \in 0 .. MaxFaults

(* At the start nothing is stored, queued, indexed or under way.           *)
LEMMA StoreInitInv == StoreInit => StoreInv
<1> SUFFICES ASSUME StoreInit PROVE StoreInv
  OBVIOUS
<1>1. \A e \in Events : doc[e] = Fresh("new", FALSE)
  BY DEF StoreInit
<1>2. \A e \in Events : doc[e] \in DocState /\ doc[e].st = "new" /\ RowOK(e)
  BY <1>1, FreshType, ZenonT(60) DEF RowOK
<1>3. doc \in [Events -> DocState] /\ Stored = {}
  BY <1>2 DEF StoreInit, Stored
<1>a. fts = (store = "sqlite")
  BY DEF StoreInit
<1>b. fts \in BOOLEAN
  BY <1>a, Zenon
<1>c. /\ store \in Stores /\ now = 0 /\ queue = {} /\ acked = {} /\ tx = None /\ tries = 0
      /\ idx = {} /\ ret = "sleep" /\ filterq = FALSE /\ ops = 0 /\ faults = 0
  BY DEF StoreInit
<1>d. /\ 0 \in 0 .. MaxDay /\ 0 \in 0 .. MaxTries - 1
      /\ 0 \in 0 .. MaxOps /\ 0 \in 0 .. MaxFaults
  BY StoreAssumption
<1>4. StoreTypeOK
  BY <1>3, <1>b, <1>c, <1>d DEF StoreTypeOK
<1> QED
  BY <1>2, <1>3, <1>4, StoreAssumption
  DEF StoreInit, StoreInv, RowsOK, QueueOK, AckedOK, UpdOK, TxOK, SearchIndexExact

(* What has to be shown of a step that leaves the sink, its queue and the  *)
(* index alone and changes at most some rows of the store.                 *)
LEMMA RowsOnly ==
  ASSUME StoreInv, UNCHANGED <<store, queue, acked, tx, fts, idx>>, Scalars', UpdOK',
         UNCHANGED doc \/ \E S \in SUBSET Stored, entry \in Entries : Changes(S, entry)
  PROVE  StoreInv'
<1>0. DocInv
  BY DEF StoreInv, StoreTypeOK, DocInv
<1>1. DocInv' /\ Stored' = Stored /\ \A e \in Events : StNow(e)' = StNow(e)
  <2>1. CASE UNCHANGED doc
    BY <2>1, <1>0 DEF DocInv, RowsOK, RowOK, Stored, StNow
  <2>2. ASSUME NEW S \in SUBSET Stored, NEW entry \in Entries, Changes(S, entry)
        PROVE DocInv' /\ Stored' = Stored /\ \A e \in Events : StNow(e)' = StNow(e)
    BY <2>2, <1>0, ChangesRows
  <2> QED
    BY <2>1, <2>2
<1>2. StoreTypeOK'
  BY <1>1 DEF StoreInv, StoreTypeOK, DocInv, Scalars
<1>3. QueueOK' /\ AckedOK'
  BY <1>1 DEF StoreInv, StoreTypeOK, QueueOK, AckedOK, StNow
<1>4. TxOK' /\ SearchIndexExact'
  BY <1>1 DEF StoreInv, TxOK, SearchIndexExact
<1> QED
  BY <1>1, <1>2, <1>3, <1>4 DEF StoreInv, DocInv

(* An update-by-query that found nothing is over at once.                  *)
LEMMA PendingType ==
  ASSUME NEW S \in SUBSET Events, NEW entry \in Entries
  PROVE  Pending(S, entry) \in Updates \union {None}
BY DEF Pending, Updates

(* Conflicts take documents out of updates under way.                      *)
LEMMA ConflictType ==
  ASSUME UpdOK, NEW S, NEW a
  PROVE  Conflict(S, a) \in [Actors -> Updates \union {None}]
<1> SUFFICES ASSUME NEW b \in Actors, upd[b] # None
             PROVE  Pending(upd[b].docs \ S, upd[b].entry) \in Updates \union {None}
  BY DEF Conflict, UpdOK
<1>1. upd[b].docs \ S \in SUBSET Events /\ upd[b].entry \in Entries
  BY DEF UpdOK, Updates
<1> QED
  BY <1>1, PendingType

(* One operation on a set of rows.                                         *)
LEMMA UpdateStep ==
  ASSUME StoreInv, NEW a \in Actors, NEW S \in SUBSET Stored, NEW entry \in Entries,
         Update(a, S, entry)
  PROVE  UpdOK' /\ (UNCHANGED doc \/ Changes(S, entry))
<1>1. CASE store = "sqlite"
  BY <1>1 DEF Update, Changes, StoreInv, UpdOK
<1>2. CASE store # "sqlite"
  <2>1. Pending(S, entry) \in Updates \union {None}
    BY PendingType DEF Stored
  <2>2. upd' = [upd EXCEPT ![a] = Pending(S, entry)] /\ UNCHANGED doc
    BY <1>2 DEF Update
  <2> QED
    BY <2>1, <2>2 DEF StoreInv, UpdOK
<1> QED
  BY <1>1, <1>2

(* An operation of the user, one step on SQLite and two on Elasticsearch.  *)
LEMMA UserOpStep ==
  ASSUME StoreInv, NEW S \in SUBSET Stored, NEW entry \in Entries, UserOp(S, entry)
  PROVE  StoreInv'
<1>1. UpdOK' /\ (UNCHANGED doc \/ Changes(S, entry))
  BY UpdateStep DEF UserOp, Actors
<1>2. Scalars' /\ UNCHANGED <<store, queue, acked, tx, fts, idx>>
  BY StoreAssumption DEF UserOp, Scalars, StoreInv, StoreTypeOK
<1> QED
  BY <1>1, <1>2, RowsOnly

(* The importer queues an event and may start the transaction.             *)
LEMMA SubmitStep ==
  ASSUME StoreInv, NEW e \in Events, Enqueue(e) PROVE StoreInv'
<1>0. DocInv
  BY DEF StoreInv, StoreTypeOK, DocInv
<1>1. Attr[e].tags \subseteq BOOLEAN
  BY StoreAssumption DEF EventAttr
<1>2. Submits(e)
  BY <1>1 DEF Enqueue, Submits
<1>3. /\ DocInv'
      /\ \A f \in Events : /\ StNow(f)' = IF f = e THEN "queued" ELSE StNow(f)
                           /\ f # e => doc'[f] = doc[f]
      /\ Stored' = Stored
  BY <1>0, <1>2, SubmitsRows
<1>4. /\ queue' = queue \union {e} /\ StNow(e) = "new"
      /\ UNCHANGED <<store, now, acked, tx, tries, fts, idx, ret, upd, ops, filterq, faults>>
  BY DEF Enqueue, StNow
<1>5. StoreTypeOK'
  BY <1>3, <1>4 DEF StoreInv, StoreTypeOK, DocInv
<1>6. QueueOK' /\ AckedOK'
  BY <1>3, <1>4 DEF StoreInv, StoreTypeOK, QueueOK, AckedOK, StNow
<1>7. TxOK' /\ SearchIndexExact' /\ UpdOK'
  BY <1>3, <1>4 DEF StoreInv, TxOK, SearchIndexExact, UpdOK
<1> QED
  BY <1>3, <1>5, <1>6, <1>7 DEF StoreInv, DocInv

(* Rows are stored: by the sink's transaction, or by a bulk request that   *)
(* may leave the queue as it is.                                           *)
LEMMA CommitStep ==
  ASSUME StoreInv, NEW S \in SUBSET queue, Commits(S),
         UNCHANGED <<store, now, fts, ret, upd, ops, filterq>>,
         Scalars',
         \/ S = queue /\ queue' = {} /\ acked' = acked \union queue
         \/ store # "sqlite" /\ UNCHANGED <<queue, acked>>,
         tx' = None,
         idx' = IF fts THEN idx \union S ELSE idx
  PROVE  StoreInv'
<1>0. DocInv /\ queue \subseteq Events
  BY DEF StoreInv, StoreTypeOK, DocInv
<1>1. /\ DocInv'
      /\ \A e \in Events : StNow(e)' = IF e \in S THEN "stored" ELSE StNow(e)
      /\ Stored' = Stored \union S
  BY <1>0, CommitsRows
<1>2. StoreTypeOK'
  BY <1>0, <1>1 DEF StoreInv, StoreTypeOK, DocInv, Scalars
<1>3. QueueOK' /\ AckedOK'
  BY <1>0, <1>1 DEF StoreInv, StoreTypeOK, QueueOK, AckedOK, StNow
<1>4. TxOK' /\ SearchIndexExact' /\ UpdOK'
  BY <1>1 DEF StoreInv, TxOK, SearchIndexExact, UpdOK
<1> QED
  BY <1>1, <1>2, <1>3, <1>4 DEF StoreInv, DocInv

(* Rows are deleted, which the trigger tells the index.                    *)
LEMMA DeleteStep ==
  ASSUME StoreInv, NEW S, Removes(S),
         UNCHANGED <<store, queue, acked, tx, fts>>,
         Scalars', UpdOK', idx' = idx \ S
  PROVE  StoreInv'
<1>0. DocInv
  BY DEF StoreInv, StoreTypeOK, DocInv
<1>1. /\ DocInv'
      /\ \A e \in Events : StNow(e)' = IF e \in S THEN "gone" ELSE StNow(e)
      /\ Stored' = Stored \ S
  BY <1>0, RemovesRows
<1>2. StoreTypeOK'
  BY <1>1 DEF StoreInv, StoreTypeOK, DocInv, Scalars
<1>3. \A e \in S : StNow(e) = "stored"
  BY DEF Removes, Stored, StNow
<1>4. QueueOK' /\ AckedOK'
  BY <1>1, <1>3 DEF StoreInv, StoreTypeOK, QueueOK, AckedOK, StNow
<1>5. TxOK' /\ SearchIndexExact'
  BY <1>1 DEF StoreInv, TxOK, SearchIndexExact
<1> QED
  BY <1>1, <1>2, <1>4, <1>5 DEF StoreInv, DocInv

(* The sets of rows that the operations select are stored.                 *)
LEMMA SelectsStored ==
  /\ \A g : SqliteArchiveSel(g) \in SUBSET Stored
  /\ \A g, to : SqliteEscalateSel(g, to) \in SUBSET Stored
  /\ \A g, entry : ElasticOpSel(g, entry) \in SUBSET Stored
  /\ \A e : SqliteArchiveId(e) \in SUBSET Stored /\ SqliteEscalateId(e) \in SUBSET Stored
           /\ SqliteCommentId(e) \in SUBSET Stored /\ ElasticId(e) \in SUBSET Stored
  /\ FilterSel \in SUBSET Stored /\ AgedSel \in SUBSET Stored
BY DEF SqliteArchiveSel, SqliteEscalateSel, ElasticOpSel, ElasticTagSel, ElasticUntagSel,
       ElasticGroupSel, SqliteArchiveId, SqliteEscalateId, SqliteCommentId, ElasticId,
       FilterSel, AgedSel

(* Archiving a line is an operation on stored rows ...                     *)
LEMMA ArchivesStored ==
  ASSUME NEW N, ArchiveGroup(N)
  PROVE  \E S \in SUBSET Stored : UserOp(S, "archived")
<1>1. PICK h : UserOp(IF store = "sqlite" THEN SqliteArchiveSel(AlertGroupSpec(N, h))
                      ELSE ElasticOpSel(AlertGroupSpec(N, h), "archived"), "archived")
  BY DEF ArchiveGroup
<1> QED
  BY <1>1, SelectsStored

(* ... and so are escalating and de-escalating it.                         *)
LEMMA StarsStored ==
  ASSUME EscalateGroup \/ DeescalateGroup
  PROVE  \E S \in SUBSET Stored, entry \in Entries : UserOp(S, entry)
<1>1. PICK up : StarGroup(up)
  BY DEF EscalateGroup, DeescalateGroup
<1>2. PICK entry : entry = IF up THEN "escalated" ELSE "de-escalated"
  OBVIOUS
<1>3. PICK h : UserOp(IF store = "sqlite" THEN SqliteEscalateSel(AlertGroupSpec({}, h), up)
                      ELSE ElasticOpSel(AlertGroupSpec({}, h), entry), entry)
  BY <1>1, <1>2 DEF StarGroup
<1> QED
  BY <1>2, <1>3, SelectsStored DEF Entries

(* Archive, escalate, de-escalate, comment, and looking at the inbox.      *)
LEMMA UserStep ==
  ASSUME StoreInv, User PROVE StoreInv'
<1>0. Entries = {"archived", "auto-archived", "escalated", "de-escalated", "comment"}
  BY DEF Entries
<1>1. CASE ListAlerts
  <2>1. /\ UNCHANGED <<store, now, doc, queue, acked, tx, tries, fts, idx, ret, upd, ops, faults>>
        /\ \E h \in Sensors : QueueFilters(h)
    BY <1>1 DEF ListAlerts
  <2>2. filterq' \in BOOLEAN
    BY <2>1 DEF QueueFilters, StoreInv, StoreTypeOK
  <2> QED
    BY <2>1, <2>2, RowsOnly DEF Scalars, StoreInv, StoreTypeOK, UpdOK
<1>2. ASSUME NEW N, ArchiveGroup(N) PROVE StoreInv'
  <2>1. PICK S \in SUBSET Stored : UserOp(S, "archived")
    BY <1>2, ArchivesStored
  <2> QED
    BY <2>1, <1>0, UserOpStep
<1>3. CASE EscalateGroup \/ DeescalateGroup
  <2>1. PICK S \in SUBSET Stored, entry \in Entries : UserOp(S, entry)
    BY <1>3, StarsStored
  <2> QED
    BY <2>1, UserOpStep
<1>5. ASSUME NEW e, ArchiveEvent(e) \/ EscalateEvent(e) \/ DeescalateEvent(e) \/ CommentEvent(e)
      PROVE StoreInv'
  <2>1. PICK S \in SUBSET Stored, entry \in Entries : UserOp(S, entry)
    BY <1>0, <1>5, SelectsStored DEF ArchiveEvent, EscalateEvent, DeescalateEvent, CommentEvent
  <2> QED
    BY <2>1, UserOpStep
<1> QED
  BY <1>1, <1>2, <1>3, <1>5 DEF User

(* Transactions, commits, bulk requests and their failures.                *)
LEMMA SinkStep ==
  ASSUME StoreInv, Sink PROVE StoreInv'
<1>1. CASE SinkBegin
  <2>1. /\ UNCHANGED <<store, now, doc, queue, acked, tries, fts, idx, ret, upd, ops, filterq, faults>>
        /\ store = "sqlite" /\ tx' = [fts |-> fts, stale |-> FALSE]
    BY <1>1 DEF SinkBegin
  <2>2. fts \in BOOLEAN
    BY DEF StoreInv, StoreTypeOK
  <2>3. tx' \in [fts : BOOLEAN, stale : BOOLEAN] /\ tx'.fts = fts'
    BY <2>1, <2>2
  <2>4. StoreTypeOK' /\ UpdOK'
    BY <2>1, <2>3 DEF StoreInv, StoreTypeOK, UpdOK
  <2>5. RowsOK' /\ QueueOK' /\ AckedOK' /\ SearchIndexExact'
    BY <2>1 DEF StoreInv, RowsOK, RowOK, QueueOK, AckedOK, SearchIndexExact, Stored
  <2>6. TxOK'
    BY <2>1, <2>3 DEF TxOK
  <2> QED
    BY <2>4, <2>5, <2>6 DEF StoreInv
<1>2. CASE SinkCommit
  <2>1. /\ doc' = Put(queue) /\ acked' = acked \union queue /\ queue' = {}
        /\ tx' = None /\ tries' = 0 /\ idx' = (IF tx.fts THEN idx \union queue ELSE idx)
        /\ tx # None /\ ~tx.stale
        /\ UNCHANGED <<store, now, fts, ret, upd, ops, filterq, faults>>
    BY <1>2 DEF SinkCommit
  <2>2. store = "sqlite" /\ tx.fts = fts
    BY <2>1 DEF StoreInv, TxOK
  <2>3. queue \subseteq queue \ Stored
    BY <2>2 DEF StoreInv, QueueOK, Stored
  <2>4. Commits(queue)
    BY <2>1, <2>3 DEF Commits
  <2>5. Scalars'
    BY <2>1, StoreAssumption DEF Scalars, StoreInv, StoreTypeOK
  <2> QED
    BY <2>1, <2>2, <2>4, <2>5, CommitStep
<1>3. CASE SinkLocked
  <2>1. /\ UNCHANGED <<store, now, doc, queue, acked, fts, idx, ret, upd, ops, filterq>>
        /\ tx' = None /\ tries' = IF tries + 1 < MaxTries THEN tries + 1 ELSE 0
        /\ faults' = faults \/ (faults < MaxFaults /\ faults' = faults + 1)
    BY <1>3 DEF SinkLocked
  <2>2. Scalars'
    BY <2>1, StoreAssumption DEF Scalars, StoreInv, StoreTypeOK
  <2>3. StoreTypeOK' /\ UpdOK'
    BY <2>1, <2>2 DEF StoreInv, StoreTypeOK, UpdOK, Scalars
  <2>4. RowsOK' /\ QueueOK' /\ AckedOK' /\ SearchIndexExact' /\ TxOK'
    BY <2>1 DEF StoreInv, RowsOK, RowOK, QueueOK, AckedOK, SearchIndexExact, Stored, TxOK
  <2> QED
    BY <2>3, <2>4 DEF StoreInv
<1>4. CASE BulkOk
  <2>1. /\ store = "elastic" /\ queue \subseteq queue \ Stored
        /\ doc' = Put(queue) /\ acked' = acked \union queue /\ queue' = {}
        /\ UNCHANGED <<store, now, tx, tries, fts, idx, ret, upd, ops, filterq, faults>>
    BY <1>4 DEF BulkOk
  <2>2. Commits(queue) /\ tx' = None /\ ~fts
    BY <2>1 DEF Commits, StoreInv, TxOK
  <2>3. Scalars'
    BY <2>1 DEF Scalars, StoreInv, StoreTypeOK
  <2> QED
    BY <2>1, <2>2, <2>3, CommitStep
<1>5. ASSUME NEW S \in SUBSET queue, BulkFails(S) PROVE StoreInv'
  <2>1. /\ store = "elastic" /\ S \subseteq queue \ Stored /\ doc' = Put(S)
        /\ faults' = faults \/ (faults < MaxFaults /\ faults' = faults + 1)
        /\ UNCHANGED <<store, now, queue, acked, tx, tries, fts, idx, ret, upd, ops, filterq>>
    BY <1>5 DEF BulkFails
  <2>2. Commits(S) /\ tx' = None /\ ~fts
    BY <2>1 DEF Commits, StoreInv, TxOK
  <2>3. Scalars'
    BY <2>1, StoreAssumption DEF Scalars, StoreInv, StoreTypeOK
  <2> QED
    BY <2>1, <2>2, <2>3, CommitStep
<1> QED
  BY <1>1, <1>2, <1>3, <1>4, <1>5 DEF Sink

(* The stages of retention and auto-archive.                               *)
LEMMA RetentionStep ==
  ASSUME StoreInv, Retention PROVE StoreInv'
<1>1. CASE SizeRound
  <2>1. /\ store = "sqlite"
        /\ UNCHANGED <<store, now, queue, acked, tx, tries, fts, upd, ops, filterq, faults>>
    BY <1>1 DEF SizeRound
  <2>2. Scalars' /\ UpdOK'
    BY <1>1, <2>1 DEF SizeRound, GetDays, Scalars, StoreInv, StoreTypeOK, UpdOK
  <2>3. CASE UNCHANGED <<doc, idx>>
    BY <2>1, <2>2, <2>3, RowsOnly
  <2>4. ASSUME NEW D \in Oldest({e \in Stored : ~doc[e].esc}, Limit), Delete(D)
        PROVE  StoreInv'
    <3>1. Removes(D) /\ idx' = idx \ D
      BY <2>4 DEF Removes, Delete, Oldest
    <3> QED
      BY <3>1, <2>1, <2>2, DeleteStep
  <2> QED
    BY <1>1, <2>3, <2>4 DEF SizeRound
<1>2. CASE DaysRound
  <2>1. /\ store = "sqlite" /\ ret' = "archive"
        /\ UNCHANGED <<store, now, queue, acked, tx, tries, fts, upd, ops, filterq, faults>>
    BY <1>2 DEF DaysRound
  <2>2. Scalars' /\ UpdOK'
    BY <2>1 DEF Scalars, StoreInv, StoreTypeOK, UpdOK
  <2>3. PICK D \in Oldest({e \in Stored : Day(e) < now - RetainDays /\ ~doc[e].esc}, Limit) : Delete(D)
    BY <1>2 DEF DaysRound
  <2>4. Removes(D) /\ idx' = idx \ D
    BY <2>3 DEF Removes, Delete, Oldest
  <2> QED
    BY <2>1, <2>2, <2>4, DeleteStep
<1>3. CASE DeleteIndices
  <2> DEFINE S == {e \in Stored : now - Day(e) > RetainDays}
  <2>1. /\ store = "elastic" /\ ret' = "archive" /\ Delete(S) /\ upd' = Conflict(S, None)
        /\ UNCHANGED <<store, now, queue, acked, tx, tries, fts, ops, filterq, faults>>
    BY <1>3 DEF DeleteIndices
  <2>2. Scalars'
    BY <2>1 DEF Scalars, StoreInv, StoreTypeOK
  <2>3. UpdOK'
    BY <2>1, ConflictType DEF StoreInv, UpdOK
  <2>4. Removes(S) /\ idx' = idx \ S
    BY <2>1 DEF Removes, Delete
  <2> QED
    BY <2>1, <2>2, <2>3, <2>4, DeleteStep
<1>4. CASE AgeArchive
  <2>1. /\ ret' = "sleep"
        /\ UNCHANGED <<store, now, queue, acked, tx, tries, fts, idx, ops, filterq, faults>>
    BY <1>4 DEF AgeArchive
  <2>2. Scalars'
    BY <2>1 DEF Scalars, StoreInv, StoreTypeOK
  <2>3. UpdOK' /\ (UNCHANGED doc \/ Changes(AgedSel, "auto-archived"))
    <3>1. CASE Update("retention", AgedSel, "auto-archived")
      BY <3>1, UpdateStep, SelectsStored DEF Actors, Entries
    <3>2. CASE UNCHANGED <<doc, upd>>
      BY <3>2 DEF StoreInv, UpdOK
    <3> QED
      BY <1>4, <3>1, <3>2 DEF AgeArchive
  <2> QED
    BY <2>1, <2>2, <2>3, SelectsStored, RowsOnly DEF Entries
<1>5. CASE RetentionWakes
  BY <1>5, RowsOnly DEF RetentionWakes, GetSize, GetDays, Scalars, StoreInv, StoreTypeOK, UpdOK
<1> QED
  BY <1>1, <1>2, <1>3, <1>4, <1>5 DEF Retention

(* Full text search switched by the API, which holds the writer, or by the *)
(* evebox command, which makes an open transaction stale.                  *)
LEMMA SetFtsStep ==
  ASSUME StoreInv, NEW on \in BOOLEAN, ApiSetsFts(on) \/ CommandSetsFts(on) PROVE StoreInv'
<1>1. /\ store = "sqlite" /\ fts' = on /\ idx' = (IF on THEN Stored ELSE {})
      /\ ops < MaxOps /\ ops' = ops + 1
      /\ UNCHANGED <<store, now, doc, queue, acked, tries, ret, upd, filterq, faults>>
  BY DEF ApiSetsFts, CommandSetsFts, SetFts
<1>2. \/ tx' = None
      \/ tx' \in [fts : BOOLEAN, stale : BOOLEAN] /\ tx'.stale
  <2>1. CASE ApiSetsFts(on)
    BY <2>1, <1>1 DEF ApiSetsFts, WriterFree
  <2>2. CASE CommandSetsFts(on)
    BY <2>2 DEF CommandSetsFts, Outdate, StoreInv, StoreTypeOK
  <2> QED
    BY <2>1, <2>2
<1>3. StoreTypeOK' /\ UpdOK'
  BY <1>1, <1>2, StoreAssumption DEF StoreInv, StoreTypeOK, UpdOK, Stored
<1>4. RowsOK' /\ QueueOK' /\ AckedOK' /\ SearchIndexExact'
  BY <1>1 DEF StoreInv, RowsOK, RowOK, QueueOK, AckedOK, SearchIndexExact, Stored
<1>5. TxOK'
  BY <1>1, <1>2 DEF TxOK
<1> QED
  BY <1>3, <1>4, <1>5 DEF StoreInv

(* Every step of users, sink, retention and commands keeps the invariant.  *)
LEMMA StoreStepInv == StoreInv /\ [StoreNext]_storeVars => StoreInv'
<1> SUFFICES ASSUME StoreInv, [StoreNext]_storeVars PROVE StoreInv'
  OBVIOUS
<1>1. ASSUME NEW e \in Events, SqliteSubmit(e) \/ ElasticSubmit(e) PROVE StoreInv'
  BY <1>1, SubmitStep DEF SqliteSubmit, ElasticSubmit
<1>2. CASE FilterArchive
  <2>1. UpdOK' /\ (UNCHANGED doc \/ Changes(FilterSel, "auto-archived"))
    BY <1>2, UpdateStep, SelectsStored DEF FilterArchive, Actors, Entries
  <2>2. Scalars' /\ UNCHANGED <<store, queue, acked, tx, fts, idx>>
    BY <1>2 DEF FilterArchive, Scalars, StoreInv, StoreTypeOK
  <2> QED
    BY <2>1, <2>2, SelectsStored, RowsOnly DEF Entries
<1>3. ASSUME NEW a \in Actors, UpdateHits(a) PROVE StoreInv'
  <2> DEFINE hits == upd[a].docs \cap Stored
  <2>1. /\ upd[a] # None /\ doc' = Apply(hits, upd[a].entry)
        /\ upd' = [Conflict(hits, a) EXCEPT ![a] = None]
        /\ UNCHANGED <<store, now, queue, acked, tx, tries, fts, idx, ret, ops, filterq, faults>>
    BY <1>3 DEF UpdateHits
  <2>2. upd[a].entry \in Entries
    BY <2>1 DEF StoreInv, UpdOK, Updates
  <2>3. Changes(hits, upd[a].entry)
    BY <2>1, <2>2 DEF Changes
  <2>4. UpdOK'
    BY <2>1, ConflictType DEF StoreInv, UpdOK
  <2>5. Scalars'
    BY <2>1 DEF Scalars, StoreInv, StoreTypeOK
  <2>6. hits \in SUBSET Stored
    OBVIOUS
  <2> HIDE DEF hits
  <2> QED
    BY <2>1, <2>2, <2>3, <2>4, <2>5, <2>6, RowsOnly
<1>4. CASE CommandOptimizes
  <2>1. /\ store = "sqlite" /\ tx # None /\ ops < MaxOps /\ ops' = ops + 1
        /\ tx' = [tx EXCEPT !.stale = TRUE]
        /\ UNCHANGED <<store, now, doc, queue, acked, tries, fts, idx, ret, upd, filterq, faults>>
    BY <1>4 DEF CommandOptimizes, Outdate
  <2>2. tx' \in [fts : BOOLEAN, stale : BOOLEAN] /\ tx'.stale
    BY <2>1 DEF StoreInv, StoreTypeOK
  <2>3. StoreTypeOK' /\ UpdOK'
    BY <2>1, <2>2, StoreAssumption DEF StoreInv, StoreTypeOK, UpdOK
  <2>4. RowsOK' /\ QueueOK' /\ AckedOK' /\ SearchIndexExact' /\ TxOK'
    BY <2>1, <2>2 DEF StoreInv, RowsOK, RowOK, QueueOK, AckedOK, SearchIndexExact, Stored, TxOK
  <2> QED
    BY <2>3, <2>4 DEF StoreInv
<1>5. CASE NextDay
  BY <1>5, StoreAssumption, RowsOnly DEF NextDay, Scalars, StoreInv, StoreTypeOK, UpdOK
<1>6. CASE UNCHANGED storeVars
  BY <1>6, RowsOnly DEF storeVars, Scalars, StoreInv, StoreTypeOK, UpdOK
<1> QED
  BY <1>1, <1>2, <1>3, <1>4, <1>5, <1>6, UserStep, SinkStep, RetentionStep, SetFtsStep
  DEF StoreNext

(* The inductive invariant holds in every state of the event store.        *)
THEOREM StoreInvariant == StoreSpec => []StoreInv
BY StoreInitInv, StoreStepInv, PTL DEF StoreSpec

(* Every variable of the store keeps its type.                             *)
THEOREM StoreTypes == StoreSpec => []StoreTypeOK
<1>1. StoreInv => StoreTypeOK
  BY DEF StoreInv
<1> QED
  BY <1>1, StoreInvariant, PTL

(* An event is archived exactly when its history says by whom, and         *)
(* escalated exactly when the last escalation entry says so: no update,    *)
(* overlapped by any other, sets a flag without its entry.                 *)
THEOREM HistoryExplainsFlags == StoreSpec => []HistoryExplains
<1>1. StoreInv => HistoryExplains
  BY DEF StoreInv, RowsOK, RowOK, Explains, HistoryExplains, Stored, ArchiveEntries
<1> QED
  BY <1>1, StoreInvariant, PTL

(* The full text index holds the stored events and no other while the      *)
(* table exists, and nothing remains of it while it does not, whoever      *)
(* switches it while the sink's transaction is open.                       *)
THEOREM SearchIndexIsExact == StoreSpec => []SearchIndexExact
<1>1. StoreInv => SearchIndexExact
  BY DEF StoreInv
<1> QED
  BY <1>1, StoreInvariant, PTL

(* What the sink acknowledged was stored, and nothing is stored twice by   *)
(* the retry of a locked, partly failed or unanswered commit.              *)
THEOREM AckedIsStoredOnce == StoreSpec => []AckedStoredOnce
<1>1. StoreInv => AckedStoredOnce
  <2> SUFFICES ASSUME StoreInv PROVE \A e \in Events : doc[e].copies <= 1
    BY DEF StoreInv, AckedOK, AckedStoredOnce
  <2> TAKE e \in Events
  <2>1. CASE doc[e].st = "stored"
    BY <2>1 DEF StoreInv, RowsOK, RowOK
  <2>2. CASE doc[e].st # "stored"
    <3>1. doc[e] = Fresh(doc[e].st, doc[e].tag)
      BY <2>2 DEF StoreInv, RowsOK, RowOK
    <3>2. \A st, tag : Fresh(st, tag).copies = 0
      BY DEF Fresh
    <3>3. doc[e].copies = 0
      BY <3>1, <3>2
    <3> QED
      BY <3>3
  <2> QED
    BY <2>1, <2>2
<1> QED
  BY <1>1, StoreInvariant, PTL

-----------------------------------------------------------------------------
(* The refinement of EventLifecycle: the abstract variables by name.       *)

stage == [e \in Events |-> CASE doc[e].st = "stored" -> "stored"
                             [] doc[e].st = "gone" -> "removed"
                             [] OTHER -> "absent"]
archived == {e \in Stored : doc[e].arch}
escalated == {e \in Stored : doc[e].esc}

(* How the abstract stages read off the rows.                              *)
LEMMA StageValues ==
  /\ \A e \in Events : stage[e] = IF doc[e].st = "stored" THEN "stored"
                                 ELSE IF doc[e].st = "gone" THEN "removed" ELSE "absent"
  /\ Life!In("stored") = Stored
  /\ Life!In("removed") = {e \in Events : doc[e].st = "gone"}
  /\ Life!In("absent") = {e \in Events : doc[e].st \notin {"stored", "gone"}}
BY DEF Life!In, Stored, stage

(* A step after which no abstract variable has changed.                    *)
LEMMA Stutters ==
  ASSUME UNCHANGED store, UNCHANGED stage, UNCHANGED archived, UNCHANGED escalated
  PROVE  UNCHANGED Life!lifeVars
BY DEF Life!lifeVars, stage, archived, escalated

(* Queueing an event is not visible in its life.                           *)
LEMMA SubmitStutters ==
  ASSUME StoreInv, UNCHANGED store, NEW e \in Events, Submits(e)
  PROVE  UNCHANGED Life!lifeVars
<1>1. DocInv
  BY DEF StoreInv, StoreTypeOK, DocInv
<1>2. /\ \A f \in Events : /\ StNow(f)' = IF f = e THEN "queued" ELSE StNow(f)
                           /\ f # e => doc'[f] = doc[f]
      /\ Stored' = Stored
  BY <1>1, SubmitsRows
<1>3. StNow(e) = "new" /\ e \notin Stored
  BY DEF Submits, StNow, Stored
<1>4. UNCHANGED stage
  BY <1>2, <1>3 DEF stage, StNow
<1>5. UNCHANGED archived /\ UNCHANGED escalated
  <2>1. \A f \in Stored : f # e /\ f \in Events
    BY <1>3 DEF Stored
  <2> QED
    BY <1>2, <2>1 DEF archived, escalated
<1> QED
  BY <1>4, <1>5, Stutters

(* A commit is the arrival of what it stores.                              *)
LEMMA CommitArrives ==
  ASSUME StoreInv, UNCHANGED store, NEW S \in SUBSET queue, Commits(S)
  PROVE  S \in SUBSET Events /\ Life!Arrive(S)
<1>1. DocInv /\ queue \subseteq Events
  BY DEF StoreInv, StoreTypeOK, DocInv
<1>2. /\ DocInv'
      /\ \A e \in Events : StNow(e)' = IF e \in S THEN "stored" ELSE StNow(e)
      /\ \A e \in Events : doc'[e].arch = doc[e].arch /\ doc'[e].esc = doc[e].esc
      /\ Stored' = Stored \union S
  BY <1>1, CommitsRows
<1>3. ASSUME NEW e \in S
      PROVE  /\ e \in Events /\ doc[e].st # "stored"
             /\ store = "sqlite" => doc[e].st = "queued"
  BY <1>1, <1>3 DEF Commits, Stored, StoreInv, QueueOK
<1>4. \A e \in S : doc[e].esc = FALSE
  <2> SUFFICES ASSUME NEW e \in S PROVE doc[e].esc = FALSE
    OBVIOUS
  <2>0. RowOK(e) /\ doc[e].st # "stored"
    BY <1>3 DEF StoreInv, RowsOK
  <2>1. doc[e] = Fresh(doc[e].st, doc[e].tag)
    BY <2>0 DEF RowOK
  <2>2. \A st, tag : Fresh(st, tag).esc = FALSE
    BY DEF Fresh
  <2> QED
    BY <2>1, <2>2
<1>5. S \subseteq Life!In("absent") \union (IF store = "sqlite" THEN {} ELSE Life!In("removed"))
  <2> SUFFICES ASSUME NEW e \in S
               PROVE  \/ e \in Life!In("absent")
                      \/ store # "sqlite" /\ e \in Life!In("removed")
    OBVIOUS
  <2>1. CASE doc[e].st = "gone"
    <3>1. store # "sqlite" /\ e \in Events
      BY <1>3, <2>1
    <3> QED
      BY <2>1, <3>1, StageValues
  <2>2. CASE doc[e].st # "gone"
    <3>1. doc[e].st \notin {"stored", "gone"} /\ e \in Events
      BY <1>3, <2>2
    <3> QED
      BY <3>1, StageValues
  <2> QED
    BY <2>1, <2>2
<1>6. stage' = [e \in Events |-> IF e \in S THEN "stored" ELSE stage[e]]
  BY <1>2 DEF stage, StNow
<1>7. archived' = archived \union {e \in S : doc[e].arch}
  BY <1>2, <1>3 DEF archived, Stored
<1>8. escalated' = escalated
  BY <1>2, <1>3, <1>4 DEF escalated, Stored
<1>9. \E A \in SUBSET S : archived' = archived \union A
  BY <1>7
<1>10. UNCHANGED (store = "sqlite")
  OBVIOUS
<1>11. S \in SUBSET Events
  BY <1>3
<1> QED
  BY <1>5, <1>6, <1>8, <1>9, <1>10, <1>11 DEF Life!Arrive, stage, archived, escalated

(* An update is an archiving, an escalation, its end, or nothing.          *)
LEMMA ChangeIsLife ==
  ASSUME StoreInv, UNCHANGED store, NEW S \in SUBSET Stored, NEW entry \in Entries,
         Changes(S, entry)
  PROVE  /\ S \in SUBSET Events
         /\ Life!Archive(S) \/ Life!SetEscalated(S) \/ UNCHANGED Life!lifeVars
<1>1. DocInv /\ S \in SUBSET Events
  BY DEF StoreInv, StoreTypeOK, DocInv, Stored
<1>2. /\ \A e \in Events : StNow(e)' = StNow(e)
      /\ \A e \in Events :
              /\ doc'[e].arch = (doc[e].arch \/ (e \in S /\ entry \in ArchiveEntries))
              /\ doc'[e].esc = IF e \in S THEN (doc[e].esc \/ entry = "escalated")
                                             /\ entry # "de-escalated"
                               ELSE doc[e].esc
      /\ Stored' = Stored
  BY <1>1, ChangesRows
<1>3. UNCHANGED stage
  BY <1>2 DEF stage, StNow
<1>4. S \subseteq Life!In("stored")
  BY StageValues
<1>5. CASE entry \in ArchiveEntries
  <2>1. archived' = archived \union S
    BY <1>2, <1>5 DEF archived, Stored
  <2>2. escalated' = escalated
    BY <1>2, <1>5 DEF escalated, Stored, ArchiveEntries
  <2> QED
    BY <1>1, <1>3, <1>4, <2>1, <2>2 DEF Life!Archive, stage, archived, escalated
<1>6. CASE entry \notin ArchiveEntries
  <2>1. archived' = archived
    BY <1>2, <1>6 DEF archived, Stored
  <2>2. escalated' \in {escalated \union S, escalated \ S} \/ escalated' = escalated
    <3>1. CASE entry = "escalated"
      BY <1>2, <3>1 DEF escalated, Stored
    <3>2. CASE entry = "de-escalated"
      BY <1>2, <3>2 DEF escalated, Stored
    <3>3. CASE entry = "comment"
      BY <1>2, <3>3 DEF escalated, Stored
    <3> QED
      BY <1>6, <3>1, <3>2, <3>3 DEF Entries, ArchiveEntries
  <2> QED
    BY <1>1, <1>3, <1>4, <2>1, <2>2, Stutters DEF Life!SetEscalated, stage, archived, escalated
<1> QED
  BY <1>5, <1>6

(* A deletion is a removal, which on SQLite spares escalated events.       *)
LEMMA RemoveIsLife ==
  ASSUME StoreInv, UNCHANGED store, NEW S, Removes(S)
  PROVE  S \in SUBSET Events /\ Life!Remove(S)
<1>1. DocInv /\ S \in SUBSET Events
  BY DEF StoreInv, StoreTypeOK, DocInv, Removes, Stored
<1>2. /\ \A e \in Events : StNow(e)' = IF e \in S THEN "gone" ELSE StNow(e)
      /\ \A e \in Events \ S : doc'[e] = doc[e]
      /\ Stored' = Stored \ S
  BY <1>1, RemovesRows
<1>3. S \subseteq Life!In("stored")
  BY StageValues DEF Removes
<1>4. stage' = [e \in Events |-> IF e \in S THEN "removed" ELSE stage[e]]
  BY <1>2 DEF stage, StNow
<1>5. archived' = archived \ S /\ escalated' = escalated \ S
  BY <1>2 DEF archived, escalated, Stored
<1>6. store = "sqlite" => S \cap escalated = {}
  BY DEF Removes, escalated
<1> QED
  BY <1>1, <1>3, <1>4, <1>5, <1>6 DEF Life!Remove, stage, archived, escalated

(* Every step of the store changes the rows in at most one of the four ways. *)
RowStep ==
  \/ UNCHANGED doc
  \/ \E e \in Events : Submits(e)
  \/ \E S \in SUBSET queue : Commits(S)
  \/ \E S \in SUBSET Stored, entry \in Entries : Changes(S, entry)
  \/ \E S : Removes(S)

(* An update of either backend changes rows or only what is under way.     *)
LEMMA UpdateRowStep ==
  ASSUME StoreInv, NEW a \in Actors, NEW S \in SUBSET Stored, NEW entry \in Entries,
         Update(a, S, entry)
  PROVE  RowStep
BY UpdateStep DEF RowStep

(* Every action is one of the four kinds of row step, or touches no row.   *)
LEMMA StepKinds ==
  ASSUME StoreInv, StoreNext PROVE UNCHANGED store /\ RowStep
<1>0. Entries = {"archived", "auto-archived", "escalated", "de-escalated", "comment"} /\ "user" \in Actors
  BY DEF Entries, Actors
<1>1. ASSUME NEW e \in Events, SqliteSubmit(e) \/ ElasticSubmit(e)
      PROVE  UNCHANGED store /\ RowStep
  <2>1. Attr[e].tags \subseteq BOOLEAN
    BY StoreAssumption DEF EventAttr
  <2> QED
    BY <1>1, <2>1 DEF SqliteSubmit, ElasticSubmit, Enqueue, Submits, RowStep
<1>2. CASE Sink
  <2>1. CASE SinkBegin \/ SinkLocked
    BY <2>1 DEF SinkBegin, SinkLocked, RowStep
  <2>2. CASE SinkCommit
    <3>1. store = "sqlite" /\ doc' = Put(queue) /\ UNCHANGED store
      BY <2>2 DEF SinkCommit, StoreInv, TxOK
    <3>2. Commits(queue)
      BY <3>1 DEF Commits, StoreInv, QueueOK, Stored
    <3> QED
      BY <3>1, <3>2 DEF RowStep
  <2>3. CASE BulkOk
    <3>1. Commits(queue) /\ UNCHANGED store
      BY <2>3 DEF BulkOk, Commits
    <3> QED
      BY <3>1 DEF RowStep
  <2>4. ASSUME NEW S \in SUBSET queue, BulkFails(S) PROVE UNCHANGED store /\ RowStep
    BY <2>4 DEF BulkFails, Commits, RowStep
  <2> QED
    BY <1>2, <2>1, <2>2, <2>3, <2>4 DEF Sink
<1>3. CASE Retention
  <2>1. CASE SizeRound
    <3>1. ASSUME NEW D \in Oldest({e \in Stored : ~doc[e].esc}, Limit), Delete(D) PROVE Removes(D)
      BY <3>1 DEF Removes, Delete, Oldest
    <3> QED
      BY <2>1, <3>1 DEF SizeRound, RowStep
  <2>2. CASE DaysRound
    <3>1. ASSUME NEW D \in Oldest({e \in Stored : Day(e) < now - RetainDays /\ ~doc[e].esc}, Limit),
                 Delete(D)
          PROVE  Removes(D)
      BY <3>1 DEF Removes, Delete, Oldest
    <3> QED
      BY <2>2, <3>1 DEF DaysRound, RowStep
  <2>3. CASE DeleteIndices
    <3>1. Removes({e \in Stored : now - Day(e) > RetainDays}) /\ UNCHANGED store
      BY <2>3 DEF DeleteIndices, Delete, Removes
    <3> QED
      BY <3>1 DEF RowStep
  <2>4. CASE AgeArchive
    <3>1. CASE Update("retention", AgedSel, "auto-archived")
      BY <3>1, <2>4, UpdateRowStep, SelectsStored DEF AgeArchive, Actors, Entries
    <3>2. CASE UNCHANGED <<doc, upd>>
      BY <3>2, <2>4 DEF AgeArchive, RowStep
    <3> QED
      BY <2>4, <3>1, <3>2 DEF AgeArchive
  <2>5. CASE RetentionWakes
    BY <2>5 DEF RetentionWakes, RowStep
  <2> QED
    BY <1>3, <2>1, <2>2, <2>3, <2>4, <2>5 DEF Retention
<1>4. CASE User
  <2>1. CASE ListAlerts
    BY <2>1 DEF ListAlerts, RowStep
  <2>2. ASSUME NEW S \in SUBSET Stored, NEW entry \in Entries, UserOp(S, entry)
        PROVE  UNCHANGED store /\ RowStep
    BY <2>2, <1>0, UpdateRowStep DEF UserOp
  <2>3. CASE (\E N : ArchiveGroup(N)) \/ EscalateGroup \/ DeescalateGroup
    <3>1. PICK S \in SUBSET Stored, entry \in Entries : UserOp(S, entry)
      BY <1>0, <2>3, ArchivesStored, StarsStored
    <3> QED
      BY <3>1, <2>2
  <2>4. ASSUME NEW e, ArchiveEvent(e) \/ EscalateEvent(e) \/ DeescalateEvent(e) \/ CommentEvent(e)
        PROVE  UNCHANGED store /\ RowStep
    <3>1. PICK S \in SUBSET Stored, entry \in Entries : UserOp(S, entry)
      BY <1>0, <2>4, SelectsStored DEF ArchiveEvent, EscalateEvent, DeescalateEvent, CommentEvent
    <3> QED
      BY <3>1, <2>2
  <2> QED
    BY <1>4, <2>1, <2>3, <2>4 DEF User
<1>5. CASE FilterArchive
  BY <1>5, UpdateRowStep, SelectsStored DEF FilterArchive, Actors, Entries
<1>6. ASSUME NEW a \in Actors, UpdateHits(a) PROVE UNCHANGED store /\ RowStep
  <2> DEFINE hits == upd[a].docs \cap Stored
  <2>1. upd[a] # None /\ doc' = Apply(hits, upd[a].entry) /\ UNCHANGED store
    BY <1>6 DEF UpdateHits
  <2>2. upd[a].entry \in Entries /\ hits \in SUBSET Stored
    BY <2>1 DEF StoreInv, UpdOK, Updates
  <2> HIDE DEF hits
  <2> QED
    BY <2>1, <2>2 DEF Changes, RowStep
<1>7. ASSUME NEW on \in BOOLEAN, ApiSetsFts(on) \/ CommandSetsFts(on)
      PROVE  UNCHANGED store /\ RowStep
  BY <1>7 DEF ApiSetsFts, CommandSetsFts, SetFts, RowStep
<1>8. CASE CommandOptimizes \/ NextDay
  BY <1>8 DEF CommandOptimizes, NextDay, RowStep
<1> QED
  BY <1>1, <1>2, <1>3, <1>4, <1>5, <1>6, <1>7, <1>8 DEF StoreNext

(* Every step of the store is a step of the abstract life or leaves it     *)
(* unchanged.                                                              *)
LEMMA StepIsLife ==
  StoreInv /\ [StoreNext]_storeVars => [Life!LifeNext]_(Life!lifeVars)
<1> SUFFICES ASSUME StoreInv, [StoreNext]_storeVars PROVE [Life!LifeNext]_(Life!lifeVars)
  OBVIOUS
<1>1. UNCHANGED store /\ RowStep
  BY StepKinds DEF storeVars, RowStep
<1>2. CASE UNCHANGED doc
  <2>1. UNCHANGED stage /\ UNCHANGED archived /\ UNCHANGED escalated
    BY <1>2 DEF stage, archived, escalated, Stored
  <2> QED
    BY <1>1, <2>1, Stutters
<1>3. ASSUME NEW e \in Events, Submits(e) PROVE UNCHANGED Life!lifeVars
  BY <1>1, <1>3, SubmitStutters
<1>4. ASSUME NEW S \in SUBSET queue, Commits(S) PROVE Life!LifeNext
  BY <1>1, <1>4, CommitArrives DEF Life!LifeNext
<1>5. ASSUME NEW S \in SUBSET Stored, NEW entry \in Entries, Changes(S, entry)
      PROVE  [Life!LifeNext]_(Life!lifeVars)
  BY <1>1, <1>5, ChangeIsLife DEF Life!LifeNext
<1>6. ASSUME NEW S, Removes(S) PROVE Life!LifeNext
  BY <1>1, <1>6, RemoveIsLife DEF Life!LifeNext
<1> QED
  BY <1>1, <1>2, <1>3, <1>4, <1>5, <1>6 DEF RowStep

(* The empty store is the abstract initial state.                          *)
LEMMA InitIsLife == StoreInit => Life!LifeInit
<1> SUFFICES ASSUME StoreInit PROVE Life!LifeInit
  OBVIOUS
<1>1. \A e \in Events : doc[e].st = "new"
  BY DEF StoreInit, Fresh
<1>2. stage = [e \in Events |-> "absent"] /\ archived = {} /\ escalated = {}
  BY <1>1 DEF stage, archived, escalated, Stored
<1>3. (store = "sqlite") \in BOOLEAN
  OBVIOUS
<1> QED
  BY <1>2, <1>3 DEF Life!LifeInit, stage, archived, escalated

(* Both databases implement the life of an event: archiving is for good,   *)
(* every operation of the sinks, the user, the retention task and the      *)
(* filters is one step of it or none, and on SQLite no escalated event is  *)
(* removed and no removed one comes back.                                  *)
THEOREM StoreImplementsLife == StoreSpec => ImplementsLifecycle
BY InitIsLife, StepIsLife, StoreInvariant, PTL DEF StoreSpec, ImplementsLifecycle, Life!LifeSpec

-----------------------------------------------------------------------------
(* The line on the screen. *)

(* A line on the screen, as the listing made it: the events it stood for   *)
(* are of its group and its sensor, and its times are those of two of them.*)
LineType == [sid : Nat, ip : Nat \union {None}, host : Sensors, names : SUBSET Names,
             rows : SUBSET Events, min : Nat, max : Nat]

LineOK(g) ==
  /\ g \in LineType
  /\ \A e \in g.rows : SameGroup(e, g) /\ InWindow(e, g) /\ OnSensor(e, g.host)
  /\ \E f, h \in g.rows : Day(f) = g.min /\ Day(h) = g.max

(* SQLite has no update under way between two steps.                       *)
ShownInv ==
  /\ shown # None => LineOK(shown)
  /\ store = "sqlite" => \A a \in Actors : upd[a] = None

(* A listing reads alerts of one sensor; the line it makes of them is the  *)
(* group of one of them and its oldest and newest times.                   *)
LEMMA LineIsOK ==
  ASSUME NEW rows \in SUBSET Events, NEW e \in rows, NEW h \in Sensors,
         \A f \in rows : Attr[f].alert /\ OnSensor(f, h)
  PROVE  LineOK(Line(rows, e, h))
<1> DEFINE group == Group(rows, e)
           days == {Day(f) : f \in group}
<1>1. group \in SUBSET Events /\ e \in group /\ \A f \in group : OnSensor(f, h)
  BY DEF Group, SameGroup
<1>2. \A f \in Events : /\ Attr[f].sid \in Nat /\ Attr[f].ip \in Nat \union {None} /\ Day(f) \in Nat
  BY StoreAssumption DEF EventAttr, Day
<1>3. days \in SUBSET Nat /\ days # {}
  BY <1>1, <1>2
<1>4. IsFiniteSet(days)
  <2>1. IsFiniteSet(group)
    BY <1>1, StoreAssumption, FS_Subset
  <2>2. PICK day : day = [f \in Events |-> Day(f)]
    OBVIOUS
  <2>3. IsFiniteSet({day[f] : f \in group})
    BY <2>1, FiniteImage
  <2>4. days = {day[f] : f \in group}
    BY <1>1, <2>2
  <2> QED
    BY <2>3, <2>4
<1>5. \E d \in days : \A x \in days : d <= x
  BY <1>3, LeastExists
<1>6. \E d \in days : \A x \in days : x <= d
  BY <1>3, <1>4, FiniteGreatest
<1>7. \E d \in days : \A x \in days : d >= x
  <2>1. PICK d \in days : \A x \in days : x <= d
    BY <1>6
  <2>2. \A x \in days : d >= x
    BY <1>3, <2>1
  <2> QED
    BY <2>2
<1> DEFINE low == CHOOSE d \in days : \A x \in days : d <= x
           high == CHOOSE d \in days : \A x \in days : d >= x
<1>8. low \in days /\ (\A x \in days : low <= x) /\ high \in days /\ (\A x \in days : high >= x)
  BY <1>5, <1>7
<1>9. Line(rows, e, h) = [sid |-> Attr[e].sid, ip |-> Attr[e].ip, host |-> h, names |-> {},
                          rows |-> group, min |-> low, max |-> high]
  BY DEF Line
<1> HIDE DEF low, high
<1>10. PICK f \in group, g \in group : Day(f) = low /\ Day(g) = high
  BY <1>8
<1>11. \A x \in group : low <= Day(x) /\ Day(x) <= high
  <2>1. ASSUME NEW x \in group PROVE low <= Day(x) /\ Day(x) <= high
    <3>1. Day(x) \in days
      OBVIOUS
    <3>2. low \in Nat /\ high \in Nat /\ Day(x) \in Nat
      BY <1>3, <1>8, <3>1
    <3> QED
      BY <1>8, <3>1, <3>2
  <2> QED
    BY <2>1
<1>12. \A x \in group : SameGroup(x, Attr[e])
  BY DEF Group
<1>13. low \in Nat /\ high \in Nat
  BY <1>3, <1>8
<1> HIDE DEF group, days
<1>14. Line(rows, e, h) \in LineType
  BY <1>1, <1>2, <1>9, <1>13 DEF LineType
<1>15. \A x \in group : SameGroup(x, Line(rows, e, h)) /\ InWindow(x, Line(rows, e, h))
  BY <1>9, <1>11, <1>12 DEF SameGroup, InWindow
<1>16. Line(rows, e, h).rows = group /\ Line(rows, e, h).host = h
       /\ Line(rows, e, h).min = low /\ Line(rows, e, h).max = high
  BY <1>9
<1> QED
  BY <1>1, <1>10, <1>14, <1>15, <1>16 DEF LineOK

(* Whichever listing is asked for, the line on the screen is a good one.   *)
LEMMA ListedLineOK ==
  ASSUME ListAlerts PROVE LineOK(shown')
<1>1. PICK h \in Sensors :
        shown' \in IF store = "sqlite" THEN TimedLines(h) \union GroupedLines(h) ELSE BucketLines(h)
  BY DEF ListAlerts
<1>2. \E rows \in SUBSET Events : \E e \in rows :
        shown' = Line(rows, e, h) /\ \A f \in rows : Attr[f].alert /\ OnSensor(f, h)
  <2>1. CASE shown' \in TimedLines(h)
    <3>1. PICK cut \in SqliteInbox(h) :
            shown' \in {Line({f \in SqliteInbox(h) : Day(f) >= Day(cut)}, e, h) :
                           e \in {f \in SqliteInbox(h) : Day(f) >= Day(cut)}}
      BY <2>1 DEF TimedLines
    <3>2. PICK rows : rows = {f \in SqliteInbox(h) : Day(f) >= Day(cut)}
      OBVIOUS
    <3>3. rows \in SUBSET Events /\ \A f \in rows : Attr[f].alert /\ OnSensor(f, h)
      BY <3>2 DEF SqliteInbox, Stored
    <3>4. \E e \in rows : shown' = Line(rows, e, h)
      BY <3>1, <3>2
    <3> QED
      BY <3>3, <3>4
  <2>2. CASE shown' \in GroupedLines(h)
    <3>1. PICK rows : rows = GroupedInbox(h)
      OBVIOUS
    <3>2. rows \in SUBSET Events /\ \A f \in rows : Attr[f].alert /\ OnSensor(f, h)
      BY <3>1 DEF GroupedInbox, Stored
    <3>3. \E e \in rows : shown' = Line(rows, e, h)
      BY <2>2, <3>1 DEF GroupedLines
    <3> QED
      BY <3>2, <3>3
  <2>3. CASE shown' \in BucketLines(h)
    <3>1. PICK rows : rows = ElasticInbox(h)
      OBVIOUS
    <3>2. rows \in SUBSET Events /\ \A f \in rows : Attr[f].alert /\ OnSensor(f, h)
      BY <3>1 DEF ElasticInbox, Stored
    <3>3. \E e \in rows : shown' = Line(rows, e, h)
      BY <2>3, <3>1 DEF BucketLines
    <3> QED
      BY <3>2, <3>3
  <2> QED
    BY <1>1, <2>1, <2>2, <2>3
<1> QED
  BY <1>2, LineIsOK

(* Only a listing puts a line on the screen and only an archive takes it   *)
(* off.                                                                    *)
LEMMA ShownStep ==
  ASSUME StoreInv, ShownInv, [StoreNext]_storeVars PROVE ShownInv'
<1>1. UNCHANGED store
  BY StepKinds DEF storeVars
<1>2. (shown # None => LineOK(shown))'
  <2>1. CASE ListAlerts
    BY <2>1, ListedLineOK
  <2>2. CASE \E N : ArchiveGroup(N)
    BY <2>2 DEF ArchiveGroup
  <2>3. CASE UNCHANGED shown
    BY <2>3 DEF ShownInv, LineOK, SameGroup, InWindow, OnSensor, Day, LineType
  <2>4. ListAlerts \/ (\E N : ArchiveGroup(N)) \/ UNCHANGED shown
    <3>1. CASE User
      BY <3>1 DEF User, EscalateGroup, DeescalateGroup, StarGroup, ArchiveEvent, EscalateEvent,
         DeescalateEvent, CommentEvent
    <3>2. CASE Sink
      BY <3>2 DEF Sink, SinkBegin, SinkCommit, SinkLocked, BulkOk, BulkFails
    <3>3. CASE Retention
      BY <3>3 DEF Retention, SizeRound, DaysRound, DeleteIndices, AgeArchive, RetentionWakes
    <3>4. CASE \E e \in Events : SqliteSubmit(e) \/ ElasticSubmit(e)
      BY <3>4 DEF SqliteSubmit, ElasticSubmit, Enqueue
    <3>5. CASE FilterArchive \/ (\E a \in Actors : UpdateHits(a)) \/ CommandOptimizes \/ NextDay
      BY <3>5 DEF FilterArchive, UpdateHits, CommandOptimizes, NextDay
    <3>6. CASE \E on \in BOOLEAN : ApiSetsFts(on) \/ CommandSetsFts(on)
      BY <3>6 DEF ApiSetsFts, CommandSetsFts, SetFts
    <3>7. CASE UNCHANGED storeVars
      BY <3>7 DEF storeVars
    <3> QED
      BY <3>1, <3>2, <3>3, <3>4, <3>5, <3>6, <3>7 DEF StoreNext
  <2> QED
    BY <2>1, <2>2, <2>3, <2>4
<1>3. ASSUME store = "sqlite" PROVE UNCHANGED upd
  <2>1. CASE User
    <3>1. ASSUME NEW S, NEW entry, UserOp(S, entry) PROVE UNCHANGED upd
      BY <1>3, <3>1 DEF UserOp, Update
    <3> QED
      BY <2>1, <3>1, ArchivesStored, StarsStored
      DEF User, ListAlerts, ArchiveEvent, EscalateEvent, DeescalateEvent, CommentEvent
  <2>2. CASE Sink
    BY <2>2 DEF Sink, SinkBegin, SinkCommit, SinkLocked, BulkOk, BulkFails
  <2>3. CASE Retention
    BY <1>3, <2>3 DEF Retention, SizeRound, DaysRound, DeleteIndices, AgeArchive, RetentionWakes, Update
  <2>4. CASE \E e \in Events : SqliteSubmit(e) \/ ElasticSubmit(e)
    BY <2>4 DEF SqliteSubmit, ElasticSubmit, Enqueue
  <2>5. CASE FilterArchive \/ CommandOptimizes \/ NextDay
    BY <1>3, <2>5 DEF FilterArchive, CommandOptimizes, NextDay, Update
  <2>6. CASE \E a \in Actors : UpdateHits(a)
    BY <1>3, <2>6 DEF UpdateHits, ShownInv
  <2>7. CASE \E on \in BOOLEAN : ApiSetsFts(on) \/ CommandSetsFts(on)
    BY <2>7 DEF ApiSetsFts, CommandSetsFts, SetFts
  <2>8. CASE UNCHANGED storeVars
    BY <2>8 DEF storeVars
  <2> QED
    BY <2>1, <2>2, <2>3, <2>4, <2>5, <2>6, <2>7, <2>8 DEF StoreNext
<1> QED
  BY <1>1, <1>2, <1>3 DEF ShownInv

(* What the request of an archive selects: of the line, the events that    *)
(* hold the names; besides, nothing that is not between two of its events, *)
(* of its signature and its addresses.                                     *)
Selects(S, N) ==
  /\ \A e \in shown.rows \cap Stored : N \subseteq Attr[e].names => doc[e].arch \/ e \in S
  /\ \A e \in S : /\ N \subseteq Attr[e].names
                  /\ \E f, g \in shown.rows :
                       /\ Day(f) <= Day(e) /\ Day(e) <= Day(g)
                       /\ Attr[f].sid = Attr[e].sid /\ Attr[f].ip = Attr[e].ip

(* The request has the fields of the line and looks events up by them.     *)
LEMMA RequestSelects ==
  ASSUME shown # None, LineOK(shown), NEW N \in SUBSET Names, NEW h \in {None, shown.host}
  PROVE  /\ Selects(SqliteArchiveSel(AlertGroupSpec(N, h)), N)
         /\ Selects(ElasticOpSel(AlertGroupSpec(N, h), "archived"), N)
<1>1. PICK q : q = AlertGroupSpec(N, h)
  OBVIOUS
<1>2. /\ q.sid = shown.sid /\ q.ip = shown.ip /\ q.min = shown.min /\ q.max = shown.max
      /\ q.names = N /\ q.host = h
  BY <1>1 DEF AlertGroupSpec, LineOK, LineType
<1>3. /\ SqliteArchiveSel(q) = {e \in Stored : SameGroup(e, shown) /\ N \subseteq Attr[e].names
                                            /\ InWindow(e, shown) /\ ~doc[e].arch}
      /\ ElasticOpSel(q, "archived") =
           {e \in Stored : /\ SameGroup(e, shown) /\ N \subseteq Attr[e].names
                          /\ InWindow(e, shown) /\ OnSensor(e, h) /\ ~doc[e].arch}
  BY <1>2 DEF SqliteArchiveSel, ElasticOpSel, ElasticTagSel, ElasticGroupSel, SameGroup, InWindow, Named
<1>4. \A e \in shown.rows : SameGroup(e, shown) /\ InWindow(e, shown) /\ OnSensor(e, h)
  BY DEF LineOK, OnSensor
<1>5. PICK f \in shown.rows, g \in shown.rows : Day(f) = shown.min /\ Day(g) = shown.max
  BY DEF LineOK
<1>6. ASSUME NEW e \in Stored, SameGroup(e, shown), InWindow(e, shown)
      PROVE  /\ Day(f) <= Day(e) /\ Day(e) <= Day(g)
             /\ Attr[f].sid = Attr[e].sid /\ Attr[f].ip = Attr[e].ip
  BY <1>4, <1>5, <1>6 DEF SameGroup, InWindow
<1> QED
  BY <1>1, <1>3, <1>4, <1>6 DEF Selects

(* An archive reaches exactly what its request selects: in one statement   *)
(* on SQLite, as the hits of its update on Elasticsearch.                  *)
LEMMA ArchiveReaches ==
  ASSUME StoreInv, ShownInv, NEW S \in SUBSET Stored, \A e \in S : ~doc[e].arch, UserOp(S, "archived")
  PROVE  \A e : Archives(e) <=> e \in S
<1>1. DocInv
  BY DEF StoreInv, StoreTypeOK, DocInv
<1>2. CASE store = "sqlite"
  <2>1. doc' = Apply(S, "archived") /\ upd'["user"] = None
    BY <1>2 DEF UserOp, Update, ShownInv, Actors
  <2>2. Changes(S, "archived")
    BY <2>1 DEF Changes, Entries
  <2>3. \A e \in Events : doc'[e].arch = (doc[e].arch \/ (e \in S /\ "archived" \in ArchiveEntries))
    BY <1>1, <2>2, ChangesRows
  <2> QED
    BY <2>1, <2>3 DEF Archives, ArchiveEntries, Stored
<1>3. CASE store # "sqlite"
  <2>1. doc' = doc /\ upd' = [upd EXCEPT !["user"] = Pending(S, "archived")]
    BY <1>3 DEF UserOp, Update
  <2>2. upd'["user"] = Pending(S, "archived")
    BY <2>1 DEF StoreInv, UpdOK, Actors
  <2>3. S # {} => Pending(S, "archived").docs = S /\ Pending(S, "archived") # None
    <3>1. ASSUME S # {} PROVE Pending(S, "archived") = [docs |-> S, entry |-> "archived"]
      BY <3>1 DEF Pending
    <3>2. [docs |-> S, entry |-> "archived"] \in Updates
      BY DEF Updates, Stored, Entries
    <3> QED
      BY <3>1, <3>2, NoneAssumption
  <2>4. S = {} => Pending(S, "archived") = None
    BY DEF Pending
  <2> QED
    BY <2>1, <2>2, <2>3, <2>4 DEF Archives
<1> QED
  BY <1>2, <1>3

(* Archiving a line of the inbox archives what the line stood for when it  *)
(* was listed, and nothing newer or older than that, on either backend and *)
(* whatever was stored, archived or removed since.                         *)
THEOREM ArchiveIsTheLine == StoreSpec => ArchiveMatchesLine
<1>1. StoreInit => ShownInv
  BY DEF StoreInit, ShownInv
<1>2. StoreSpec => []ShownInv
  BY <1>1, ShownStep, StoreInvariant, PTL DEF StoreSpec
<1>3. ASSUME StoreInv, ShownInv, NEW N \in SUBSET Names, ArchiveGroup(N)
      PROVE  /\ \A e \in shown.rows \cap Stored :
                   N \subseteq Attr[e].names => doc[e].arch \/ Archives(e)
             /\ \A e \in Stored : Archives(e) =>
                   /\ N \subseteq Attr[e].names
                   /\ \E f, g \in shown.rows :
                        /\ Day(f) <= Day(e) /\ Day(e) <= Day(g)
                        /\ Attr[f].sid = Attr[e].sid /\ Attr[f].ip = Attr[e].ip
  <2>1. PICK h \in {None, shown.host} :
          UserOp(IF store = "sqlite" THEN SqliteArchiveSel(AlertGroupSpec(N, h))
                 ELSE ElasticOpSel(AlertGroupSpec(N, h), "archived"), "archived")
    BY <1>3 DEF ArchiveGroup
  <2>2. shown # None /\ LineOK(shown)
    BY <1>3 DEF ArchiveGroup, ShownInv
  <2>3. PICK S : /\ S = IF store = "sqlite" THEN SqliteArchiveSel(AlertGroupSpec(N, h))
                        ELSE ElasticOpSel(AlertGroupSpec(N, h), "archived")
                 /\ UserOp(S, "archived")
    BY <2>1
  <2>4. Selects(S, N)
    BY <2>2, <2>3, RequestSelects
  <2>5. S \in SUBSET Stored
    BY <2>3, SelectsStored
  <2>6. \A e \in S : ~doc[e].arch
    BY <2>3 DEF SqliteArchiveSel, ElasticOpSel, ElasticTagSel
  <2>7. \A e : Archives(e) <=> e \in S
    BY <1>3, <2>3, <2>5, <2>6, ArchiveReaches
  <2> QED
    BY <2>4, <2>7 DEF Selects
<1>4. StoreInv /\ ShownInv /\ [StoreNext]_storeVars =>
        [\A N \in SUBSET Names : ArchiveGroup(N) =>
           /\ \A e \in shown.rows \cap Stored :
                 N \subseteq Attr[e].names => doc[e].arch \/ Archives(e)
           /\ \A e \in Stored : Archives(e) =>
                 /\ N \subseteq Attr[e].names
                 /\ \E f, g \in shown.rows :
                      /\ Day(f) <= Day(e) /\ Day(e) <= Day(g)
                      /\ Attr[f].sid = Attr[e].sid /\ Attr[f].ip = Attr[e].ip]_storeVars
  BY <1>3
<1> QED
  BY <1>2, <1>4, StoreInvariant, PTL DEF StoreSpec, ArchiveMatchesLine
=============================================================================
