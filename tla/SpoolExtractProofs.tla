------------------------- MODULE SpoolExtractProofs -------------------------
(***************************************************************************)
(* Packet extraction and the purge, for any number of capture threads,     *)
(* files, packets and requests.  The recording (RecInv) keeps what a file  *)
(* name says of its packets; the extraction (ExtInv) keeps what its        *)
(* cursors have left apart from what went out; KnownOK follows every       *)
(* packet that was on disk when the spool was listed; PurgeInv follows the *)
(* purge.                                                                  *)
(***************************************************************************)
EXTENDS SpoolExtract, Counting, SequenceTheorems, TLAPS

-----------------------------------------------------------------------------
(* Orders and sums. *)

(* Ascending(S) lists every number of a finite set once, in order.         *)
LEMMA AscendingLists ==
  ASSUME NEW S \in SUBSET Nat, IsFiniteSet(S)
  PROVE  /\ Cardinality(S) \in Nat
         /\ Ascending(S) \in [1 .. Cardinality(S) -> S]
         /\ \A x \in S : \E n \in 1 .. Cardinality(S) : Ascending(S)[n] = x
         /\ \A m, n \in 1 .. Cardinality(S) : m < n => Ascending(S)[m] < Ascending(S)[n]
<1>1. Ascending(S) = Enumerated(S)
  BY DEF Ascending, Enumerated
<1> QED BY <1>1, EnumeratedInOrder

(* The sum over the first files of a list is what adding one at a time     *)
(* gives.                                                                  *)
LEMMA SizeOfFirstIs ==
  ASSUME NEW files, Len(files) \in Nat, \A k \in 1 .. Len(files) : files[k].size \in Nat
  PROVE  /\ \A n \in 0 .. Len(files) : SizeOfFirst(files, n) \in Nat
         /\ SizeOfFirst(files, 0) = 0
         /\ \A n \in 1 .. Len(files) :
              SizeOfFirst(files, n) = SizeOfFirst(files, n - 1) + files[n].size
<1> DEFINE L == Len(files)
           Sums(n, f) == f[0] = 0 /\ \A k \in 1 .. n : f[k] = f[k - 1] + files[k].size
           P(n) == n <= L => \E f \in [0 .. n -> Nat] : Sums(n, f)
           S == {n \in Nat : P(n)}
           G(g) == g = [k \in 0 .. L |-> IF k = 0 THEN 0 ELSE g[k - 1] + files[k].size]
           sum == CHOOSE g : G(g)
<1>1. 0 \in S
  <2>1. [x \in 0 .. 0 |-> 0] \in [0 .. 0 -> Nat] /\ Sums(0, [x \in 0 .. 0 |-> 0])
    OBVIOUS
  <2> QED BY <2>1
<1>2. ASSUME NEW n \in Nat, n \in S PROVE n + 1 \in S
  <2>0. P(n) /\ n + 1 \in Nat /\ (P(n + 1) => n + 1 \in S)
    <3> HIDE DEF P
    <3> QED BY <1>2
  <2> SUFFICES ASSUME n + 1 <= L PROVE \E f \in [0 .. n + 1 -> Nat] : Sums(n + 1, f)
    BY <2>0
  <2>1. PICK f \in [0 .. n -> Nat] : Sums(n, f)
    BY <2>0
  <2> DEFINE g == [x \in 0 .. n + 1 |-> IF x = n + 1 THEN f[n] + files[n + 1].size ELSE f[x]]
  <2>2. f[n] \in Nat /\ files[n + 1].size \in Nat
    OBVIOUS
  <2>3. g \in [0 .. n + 1 -> Nat]
    BY <2>2
  <2>4. Sums(n + 1, g)
    <3>1. g[0] = 0
      BY <2>1
    <3>2. ASSUME NEW k \in 1 .. n + 1 PROVE g[k] = g[k - 1] + files[k].size
      <4>1. CASE k = n + 1
        BY <4>1
      <4>2. CASE k # n + 1
        <5>1. k \in 1 .. n /\ k - 1 \in 0 .. n /\ k - 1 # n + 1
          BY <4>2
        <5> QED BY <2>1, <4>2, <5>1
      <4> QED BY <4>1, <4>2
    <3> QED BY <3>1, <3>2
  <2> QED BY <2>3, <2>4
<1>3. L \in S
  <2> HIDE DEF S
  <2>1. Nat \subseteq S
    BY <1>1, <1>2, Induction
  <2> QED BY <2>1
<1>4. PICK f \in [0 .. L -> Nat] : Sums(L, f)
  BY <1>3
<1>5. G(f)
  <2>1. ASSUME NEW k \in 0 .. L PROVE f[k] = IF k = 0 THEN 0 ELSE f[k - 1] + files[k].size
    BY <1>4
  <2> QED BY <2>1
<1>6. G(sum)
  BY <1>5
<1>7. \A n : SizeOfFirst(files, n) = sum[n]
  BY DEF SizeOfFirst
<1> HIDE DEF sum
<1>8. sum[0] = 0
  BY <1>6
<1>9. ASSUME NEW n \in 1 .. L PROVE sum[n] = sum[n - 1] + files[n].size
  BY <1>6
<1>10. ASSUME NEW n \in 0 .. L PROVE sum[n] \in Nat
  <2> DEFINE T == {k \in Nat : k <= L => sum[k] \in Nat}
  <2>1. 0 \in T
    BY <1>8
  <2>2. ASSUME NEW k \in Nat, k \in T PROVE k + 1 \in T
    <3> SUFFICES ASSUME k + 1 <= L PROVE sum[k + 1] \in Nat
      OBVIOUS
    <3>1. sum[k + 1] = sum[k] + files[k + 1].size
      BY <1>9
    <3>2. sum[k] \in Nat /\ files[k + 1].size \in Nat
      BY <2>2
    <3> QED BY <3>1, <3>2
  <2> HIDE DEF T
  <2>3. Nat \subseteq T
    BY <2>1, <2>2, Induction
  <2> QED BY <2>3 DEF T
<1> QED BY <1>7, <1>8, <1>9, <1>10

(* The whole seconds of a time.                                            *)
LEMMA WholeSeconds ==
  ASSUME NEW a \in Nat
  PROVE  /\ a \div TicksPerSec \in Nat /\ (a \div TicksPerSec) * TicksPerSec \in Nat
         /\ (a \div TicksPerSec) * TicksPerSec <= a
         /\ a < (a \div TicksPerSec) * TicksPerSec + TicksPerSec
BY SpoolAssumption

-----------------------------------------------------------------------------
(* The recording. *)

Pkt == [kind : Kinds, ts : Nat, thread : Threads, id : Nat \X Nat]
File == [thread : Threads, name : Nat, link : Links, mtime : Nat, there : BOOLEAN, packets : Seq(Pkt)]

(* A packet of a file: its thread and place, no later than now, with a tag *)
(* only where the link type has tags, and captured after the file's name.  *)
PacketOK(f, i, k, now) ==
  LET p == f.packets[k]
  IN  /\ p.thread = f.thread /\ p.id = <<i, k>> /\ p.ts <= now
      /\ p.kind.vlan => f.link = "ethernet"
      /\ f.name * TicksPerSec <= p.ts + Jitter

RecordTypes == clock \in Nat /\ file \in Seq(File)

FilesOK ==
  \A i \in DOMAIN file :
    /\ file[i].name * TicksPerSec <= clock
    /\ \A k \in 1 .. Len(file[i].packets) : PacketOK(file[i], i, k, clock)

(* What a thread wrote before it began a file is from before the end of    *)
(* the second the file is named after, late packets apart.                 *)
RotationOK ==
  \A i, j \in DOMAIN file : i < j /\ file[i].thread = file[j].thread =>
    \A k \in 1 .. Len(file[i].packets) :
      file[i].packets[k].ts < file[j].name * TicksPerSec + TicksPerSec + Jitter

RecInv == RecordTypes /\ FilesOK /\ RotationOK

(* What every step leaves of a file: only its packets and its              *)
(* modification time change while it is there.                             *)
FileGrows(f, g) ==
  /\ g.thread = f.thread /\ g.name = f.name /\ g.link = f.link
  /\ g.there => f.there
  /\ Len(f.packets) <= Len(g.packets)
  /\ \A k \in 1 .. Len(f.packets) : g.packets[k] = f.packets[k]

Grows ==
  /\ Len(file) <= Len(file')
  /\ \A i \in 1 .. Len(file) : FileGrows(file[i], file'[i])

(* The fields of a recorded file.                                          *)
LEMMA FileTypes ==
  ASSUME RecordTypes, NEW i \in DOMAIN file
  PROVE  /\ i \in Nat \ {0} /\ i \in 1 .. Len(file) /\ Len(file) \in Nat
         /\ file[i] \in File /\ file[i].thread \in Threads /\ file[i].name \in Nat
         /\ file[i].link \in Links /\ file[i].mtime \in Nat /\ file[i].there \in BOOLEAN
         /\ file[i].packets \in Seq(Pkt) /\ Len(file[i].packets) \in Nat
         /\ \A k \in 1 .. Len(file[i].packets) :
              file[i].packets[k] \in Pkt /\ file[i].packets[k].ts \in Nat
<1>1. i \in Nat \ {0} /\ i \in 1 .. Len(file) /\ Len(file) \in Nat /\ file[i] \in File
  BY DEF RecordTypes
<1>2. /\ file[i].thread \in Threads /\ file[i].name \in Nat /\ file[i].link \in Links
      /\ file[i].mtime \in Nat /\ file[i].there \in BOOLEAN /\ file[i].packets \in Seq(Pkt)
  BY <1>1 DEF File
<1>3. /\ Len(file[i].packets) \in Nat
      /\ \A k \in 1 .. Len(file[i].packets) : file[i].packets[k] \in Pkt
  BY <1>2
<1>4. \A q \in Pkt : q.ts \in Nat
  BY DEF Pkt
<1> QED BY <1>1, <1>2, <1>3, <1>4

(* The file a thread writes to is its last one.                            *)
LEMMA CurrentIsLast ==
  ASSUME RecordTypes, NEW t, FilesOf(t) # {}
  PROVE  Current(t) \in DOMAIN file /\ file[Current(t)].thread = t
         /\ \A j \in DOMAIN file : file[j].thread = t => j <= Current(t)
<1>1. FilesOf(t) \in SUBSET Nat /\ Len(file) \in Nat /\ \A x \in FilesOf(t) : x <= Len(file)
  BY DEF FilesOf, RecordTypes
<1>2. \E i \in FilesOf(t) : \A j \in FilesOf(t) : j <= i
  BY <1>1, GreatestExists
<1>3. Current(t) \in FilesOf(t) /\ \A j \in FilesOf(t) : j <= Current(t)
  BY <1>2 DEF Current
<1> QED BY <1>3 DEF FilesOf

(* Recording a packet.                                                     *)
LEMMA RecordKeeps ==
  ASSUME RecInv, NEW t \in Threads, NEW kind \in Kinds, NEW ts, Record(t, kind, ts)
  PROVE  RecInv' /\ Grows
<1> DEFINE c == Current(t)
           f == file[c]
           p == Packet(t, kind, ts, c, Len(f.packets) + 1)
           g == [f EXCEPT !.packets = Append(f.packets, p), !.mtime = clock]
<1>1. /\ c \in DOMAIN file /\ f.thread = t
      /\ \A j \in DOMAIN file : file[j].thread = t => j <= c
  BY CurrentIsLast DEF RecInv, Record
<1>2. /\ file' = [file EXCEPT ![c] = g] /\ clock' = clock
      /\ kind.vlan => f.link = "ethernet"
  <2>1. file' = [file EXCEPT ![c] = g] /\ clock' = clock
    BY <1>1 DEF Record, RecInv, RecordTypes
  <2>2. kind.vlan => f.link = "ethernet"
    BY DEF Record
  <2> QED BY <2>1, <2>2
<1>3. ts \in Nat /\ ts <= clock /\ clock <= ts + Jitter /\ clock \in Nat /\ Jitter \in Nat
  BY SpoolAssumption DEF Record, Stamps, RecInv, RecordTypes
<1>4. f \in File /\ f.packets \in Seq(Pkt) /\ Len(f.packets) \in Nat /\ c \in Nat
  BY <1>1, FileTypes DEF RecInv
<1>5. p \in Pkt /\ p.ts = ts /\ p.thread = t /\ p.kind = kind /\ p.id = <<c, Len(f.packets) + 1>>
  BY <1>3, <1>4 DEF Packet, Pkt
<1> HIDE DEF c, p
<1>6. /\ g \in File /\ g.thread = f.thread /\ g.name = f.name /\ g.link = f.link /\ g.there = f.there
      /\ g.packets = Append(f.packets, p)
  <2>1. Append(f.packets, p) \in Seq(Pkt)
    BY <1>4, <1>5
  <2> QED BY <1>3, <1>4, <2>1 DEF File
<1>7. /\ Len(g.packets) = Len(f.packets) + 1 /\ g.packets[Len(f.packets) + 1] = p
      /\ \A k \in 1 .. Len(f.packets) : g.packets[k] = f.packets[k]
  BY <1>4, <1>5, <1>6
<1> HIDE DEF g
<1>8. /\ DOMAIN file' = DOMAIN file /\ Len(file') = Len(file) /\ file'[c] = g
      /\ \A i \in DOMAIN file : i # c => file'[i] = file[i]
  BY <1>1, <1>2 DEF RecInv, RecordTypes
<1>9. RecordTypes'
  BY <1>1, <1>2, <1>3, <1>6 DEF RecInv, RecordTypes
<1>10. FilesOK'
  <2> SUFFICES ASSUME NEW i \in DOMAIN file
               PROVE  /\ file'[i].name * TicksPerSec <= clock
                      /\ \A k \in 1 .. Len(file'[i].packets) : PacketOK(file'[i], i, k, clock)
    BY <1>2, <1>8 DEF FilesOK
  <2>1. CASE i # c
    BY <1>8, <2>1 DEF RecInv, FilesOK
  <2>2. CASE i = c
    <3>1. f.name * TicksPerSec <= clock /\ f.name \in Nat /\ f.name * TicksPerSec \in Nat
      BY <1>1, <1>4, SpoolAssumption DEF RecInv, FilesOK, File
    <3>2. ASSUME NEW k \in 1 .. Len(g.packets) PROVE PacketOK(g, c, k, clock)
      <4>1. CASE k \in 1 .. Len(f.packets)
        <5>1. PacketOK(f, c, k, clock)
          BY <1>1, <4>1 DEF RecInv, FilesOK
        <5> QED BY <1>6, <1>7, <4>1, <5>1 DEF PacketOK
      <4>2. CASE k = Len(f.packets) + 1
        BY <1>1, <1>2, <1>3, <1>5, <1>6, <1>7, <3>1, <4>2 DEF PacketOK
      <4> QED BY <1>4, <1>7, <4>1, <4>2
    <3> QED BY <1>6, <1>8, <2>2, <3>1, <3>2
  <2> QED BY <2>1, <2>2
<1>11. RotationOK'
  <2> SUFFICES ASSUME NEW i \in DOMAIN file, NEW j \in DOMAIN file, i < j,
                      file'[i].thread = file'[j].thread, NEW k \in 1 .. Len(file'[i].packets)
               PROVE  file'[i].packets[k].ts < file'[j].name * TicksPerSec + TicksPerSec + Jitter
    BY <1>8 DEF RotationOK
  <2>1. file[i].thread = file[j].thread /\ file'[j].name = file[j].name
    BY <1>6, <1>8
  <2>2. i # c
    BY <1>1, <2>1, <1>4 DEF RecInv, RecordTypes
  <2> QED BY <1>8, <2>1, <2>2 DEF RecInv, RotationOK
<1>12. Grows
  <2> SUFFICES ASSUME NEW i \in 1 .. Len(file) PROVE FileGrows(file[i], file'[i])
    BY <1>8 DEF Grows, RecInv, RecordTypes
  <2>1. i \in DOMAIN file /\ Len(file[i].packets) \in Nat
    BY DEF RecInv, RecordTypes, File
  <2>2. CASE i = c
    BY <1>4, <1>6, <1>7, <1>8, <2>2 DEF FileGrows
  <2>3. CASE i # c
    BY <1>8, <2>1, <2>3 DEF FileGrows
  <2> QED BY <2>2, <2>3
<1> QED BY <1>9, <1>10, <1>11, <1>12 DEF RecInv

(* Starting a new file.                                                    *)
LEMMA RotateKeeps ==
  ASSUME RecInv, NEW t \in Threads, NEW kind \in Kinds, NEW ts, NEW link \in Links,
         Rotate(t, kind, ts, link)
  PROVE  RecInv' /\ Grows
<1> DEFINE c == Len(file) + 1
           name == ts \div TicksPerSec
           p == Packet(t, kind, ts, c, 1)
           g == [thread |-> t, name |-> name, link |-> link, mtime |-> clock,
                 there |-> TRUE, packets |-> <<p>>]
<1>1. file' = Append(file, g) /\ clock' = clock /\ (kind.vlan => link = "ethernet")
  BY DEF Rotate
<1>2. ts \in Nat /\ ts <= clock /\ clock <= ts + Jitter /\ clock \in Nat /\ Jitter \in Nat
      /\ TicksPerSec \in Nat
  BY SpoolAssumption DEF Rotate, Stamps, RecInv, RecordTypes
<1>3. /\ name \in Nat /\ name * TicksPerSec \in Nat /\ name * TicksPerSec <= ts
      /\ ts < name * TicksPerSec + TicksPerSec
  BY <1>2, WholeSeconds
<1> HIDE DEF name
<1>4. c \in Nat /\ Len(file) \in Nat
  BY DEF RecInv, RecordTypes
<1>5. p \in Pkt /\ p.ts = ts /\ p.thread = t /\ p.kind = kind /\ p.id = <<c, 1>>
  BY <1>2, <1>4 DEF Packet, Pkt
<1> HIDE DEF p
<1>6. /\ g \in File /\ g.thread = t /\ g.name = name /\ g.link = link
      /\ Len(g.packets) = 1 /\ g.packets[1] = p
  BY <1>2, <1>3, <1>5 DEF File
<1> HIDE DEF g
<1>7. /\ Len(file') = Len(file) + 1 /\ file'[c] = g /\ DOMAIN file' = 1 .. c /\ DOMAIN file = 1 .. Len(file)
      /\ \A i \in 1 .. Len(file) : file'[i] = file[i]
      /\ file' \in Seq(File)
  BY <1>1, <1>4, <1>6 DEF RecInv, RecordTypes
<1>8. RecordTypes'
  BY <1>1, <1>2, <1>7 DEF RecordTypes
<1>9. FilesOK'
  <2> SUFFICES ASSUME NEW i \in 1 .. c
               PROVE  /\ file'[i].name * TicksPerSec <= clock
                      /\ \A k \in 1 .. Len(file'[i].packets) : PacketOK(file'[i], i, k, clock)
    BY <1>1, <1>7 DEF FilesOK
  <2>1. CASE i \in 1 .. Len(file)
    BY <1>7, <2>1 DEF RecInv, FilesOK
  <2>2. CASE i = c
    <3>1. PacketOK(g, c, 1, clock)
      BY <1>1, <1>2, <1>3, <1>5, <1>6 DEF PacketOK
    <3>2. g.name * TicksPerSec <= clock
      BY <1>2, <1>3, <1>6
    <3>3. 1 .. Len(g.packets) = {1}
      BY <1>6
    <3> QED BY <1>7, <2>2, <3>1, <3>2, <3>3
  <2> QED BY <1>4, <2>1, <2>2
<1>10. RotationOK'
  <2> SUFFICES ASSUME NEW i \in 1 .. c, NEW j \in 1 .. c, i < j,
                      file'[i].thread = file'[j].thread, NEW k \in 1 .. Len(file'[i].packets)
               PROVE  file'[i].packets[k].ts < file'[j].name * TicksPerSec + TicksPerSec + Jitter
    BY <1>7 DEF RotationOK
  <2>1. i \in 1 .. Len(file) /\ file'[i] = file[i]
    BY <1>4, <1>7
  <2>2. CASE j \in 1 .. Len(file)
    BY <1>7, <2>1, <2>2 DEF RecInv, RotationOK
  <2>3. CASE j = c
    <3>1. file[i].packets[k].ts <= clock /\ file[i].packets[k].ts \in Nat
      <4>1. i \in DOMAIN file /\ k \in 1 .. Len(file[i].packets)
        BY <1>7, <2>1
      <4> QED BY <4>1, FileTypes DEF RecInv, FilesOK, PacketOK
    <3>2. file'[j].name = name
      BY <1>6, <1>7, <2>3
    <3>3. file'[i].packets[k].ts <= clock /\ file'[i].packets[k].ts \in Nat
      BY <2>1, <3>1
    <3> DEFINE limit == name * TicksPerSec + TicksPerSec + Jitter
               last == file'[i].packets[k].ts
    <3>4. clock < limit /\ limit \in Nat /\ limit = file'[j].name * TicksPerSec + TicksPerSec + Jitter
      BY <1>2, <1>3, <3>2
    <3>5. last <= clock /\ last \in Nat
      BY <3>3
    <3> HIDE DEF limit, last
    <3>6. last < limit
      BY <1>2, <3>4, <3>5
    <3> QED BY <3>4, <3>6 DEF last
  <2> QED BY <1>4, <2>2, <2>3
<1>11. Grows
  <2> SUFFICES ASSUME NEW i \in 1 .. Len(file) PROVE FileGrows(file[i], file'[i])
    BY <1>4, <1>7 DEF Grows
  <2>1. Len(file[i].packets) \in Nat
    BY <1>7, FileTypes DEF RecInv
  <2> QED BY <1>7, <2>1 DEF FileGrows
<1> QED BY <1>8, <1>9, <1>10, <1>11 DEF RecInv

(* Time passing.                                                           *)
LEMMA TickKeeps ==
  ASSUME RecInv, Tick
  PROVE  RecInv' /\ Grows
<1>1. clock \in Nat /\ clock' = clock + 1 /\ file' = file
  BY DEF RecInv, RecordTypes, Tick
<1>2. FilesOK'
  <2> SUFFICES ASSUME NEW i \in DOMAIN file
               PROVE  /\ file[i].name * TicksPerSec <= clock'
                      /\ \A k \in 1 .. Len(file[i].packets) : PacketOK(file[i], i, k, clock')
    BY <1>1 DEF FilesOK
  <2>1. /\ file[i] \in File /\ file[i].name * TicksPerSec <= clock
        /\ \A k \in 1 .. Len(file[i].packets) : PacketOK(file[i], i, k, clock)
    BY DEF RecInv, FilesOK, RecordTypes
  <2>2. file[i].name * TicksPerSec <= clock'
    <3>1. file[i].name * TicksPerSec \in Nat
      BY <2>1, SpoolAssumption DEF File
    <3> QED BY <1>1, <2>1, <3>1
  <2>3. ASSUME NEW k \in 1 .. Len(file[i].packets) PROVE PacketOK(file[i], i, k, clock')
    <3>1. file[i].packets[k].ts \in Nat
      BY FileTypes DEF RecInv
    <3> QED BY <1>1, <2>1, <3>1 DEF PacketOK
  <2> QED BY <2>2, <2>3
<1>3. RotationOK' /\ RecordTypes'
  BY <1>1 DEF RecInv, RotationOK, RecordTypes
<1>4. Grows
  BY <1>1 DEF Grows, FileGrows, RecInv, RecordTypes, File
<1> QED BY <1>2, <1>3, <1>4 DEF RecInv

(* A capture file is removed.                                              *)
Removed(c) == clock' = clock /\ file' = [file EXCEPT ![c].there = FALSE]

Removes == \E c \in DOMAIN file : Removed(c)

(* The purge deletes a file.                                               *)
LEMMA DeleteKeeps ==
  ASSUME RecInv, NEW c \in DOMAIN file, Removed(c)
  PROVE  /\ RecInv' /\ Grows
         /\ \A i \in DOMAIN file : file'[i].there <=> file[i].there /\ i # c
<1> DEFINE g == [file[c] EXCEPT !.there = FALSE]
<1>1. file' = [file EXCEPT ![c] = g] /\ clock' = clock
  BY DEF Removed
<1>2. file[c] \in File
  BY DEF RecInv, RecordTypes
<1>3. /\ g \in File /\ g.thread = file[c].thread /\ g.name = file[c].name /\ g.link = file[c].link
      /\ g.packets = file[c].packets /\ g.there = FALSE
  BY <1>2 DEF File
<1> HIDE DEF g
<1>4. /\ DOMAIN file' = DOMAIN file /\ Len(file') = Len(file) /\ file'[c] = g
      /\ \A i \in DOMAIN file : i # c => file'[i] = file[i]
  BY <1>1 DEF RecInv, RecordTypes
<1>5. \A i \in DOMAIN file : /\ file'[i].thread = file[i].thread /\ file'[i].name = file[i].name
                             /\ file'[i].link = file[i].link /\ file'[i].packets = file[i].packets
  BY <1>3, <1>4
<1>6. RecordTypes'
  BY <1>1, <1>3 DEF RecInv, RecordTypes
<1>7. FilesOK' /\ RotationOK'
  <2>1. ASSUME NEW i \in DOMAIN file, NEW k PROVE PacketOK(file[i], i, k, clock) => PacketOK(file'[i], i, k, clock)
    BY <1>5 DEF PacketOK
  <2>2. FilesOK'
    BY <1>1, <1>4, <1>5, <2>1 DEF RecInv, FilesOK
  <2>3. RotationOK'
    BY <1>4, <1>5 DEF RecInv, RotationOK
  <2> QED BY <2>2, <2>3
<1>8. Grows
  <2> SUFFICES ASSUME NEW i \in 1 .. Len(file) PROVE FileGrows(file[i], file'[i])
    BY <1>4 DEF Grows, RecInv, RecordTypes
  <2>1. i \in DOMAIN file /\ Len(file[i].packets) \in Nat
    BY DEF RecInv, RecordTypes, File
  <2> QED BY <1>3, <1>4, <1>5, <2>1 DEF FileGrows
<1>9. ASSUME NEW i \in DOMAIN file PROVE file'[i].there <=> file[i].there /\ i # c
  <2>1. file[i].there \in BOOLEAN
    BY FileTypes DEF RecInv
  <2> QED BY <1>3, <1>4, <2>1
<1> QED BY <1>6, <1>7, <1>8, <1>9 DEF RecInv

(* The other steps do not write files.                                     *)
LEMMA OthersKeep ==
  ASSUME RecInv, UNCHANGED <<clock, file>>
  PROVE  RecInv' /\ Grows
<1>1. RecInv'
  BY DEF RecInv, RecordTypes, FilesOK, RotationOK, PacketOK
<1>2. Grows
  BY DEF Grows, FileGrows, RecInv, RecordTypes, File
<1> QED BY <1>1, <1>2

(* The recording is kept by every step, and only grows: no packet already  *)
(* written is changed, and a deleted file does not come back.              *)
LEMMA RecordStep ==
  ASSUME RecInv, [SpoolNext]_spoolVars
  PROVE  RecInv' /\ Grows
<1>1. CASE Sensor
  BY <1>1, RecordKeeps, RotateKeeps, TickKeeps DEF Sensor
<1>2. CASE Removes
  BY <1>2, DeleteKeeps DEF Removes
<1>3. CASE UNCHANGED <<clock, file>>
  BY <1>3, OthersKeep
<1>4. Sensor \/ Removes \/ UNCHANGED <<clock, file>>
  <2>1. PurgeDeletes => Removes \/ UNCHANGED <<clock, file>>
    <3> SUFFICES ASSUME PurgeDeletes PROVE Removes \/ UNCHANGED <<clock, file>>
      OBVIOUS
    <3> DEFINE c == purge.listed[purge.next].file
    <3>1. file' = [file EXCEPT ![c].there = FALSE] /\ clock' = clock
      BY DEF PurgeDeletes
    <3> HIDE DEF c
    <3>2. c \notin DOMAIN file => file' = file
      BY <3>1 DEF RecInv, RecordTypes
    <3> QED BY <3>1, <3>2 DEF Removes, Removed
  <2> QED
  BY <2>1 DEF SpoolNext, List, Fetch, Stops, Purge, Start, OpenFile, OutOfDescriptors, ReadPacket, EndOfFile,
         GroupExhausted, Finish, SkipFile, WritePacket, SizeReached, Stop, PurgeLists, PurgeFails,
         PurgeEnds, fillRest, spoolVars
<1> QED BY <1>1, <1>2, <1>3, <1>4

(* An empty spool is a well-formed recording.                              *)
LEMMA RecordInit ==
  ASSUME SpoolInit
  PROVE  RecInv
BY DEF SpoolInit, RecInv, RecordTypes, FilesOK, RotationOK

-----------------------------------------------------------------------------
(* The purge. *)

Entry == [file : Nat, size : Nat, modified : Nat]

(* The first files of a list are no larger than more of them.              *)
LEMMA SizesAdd ==
  ASSUME NEW files \in Seq(Entry)
  PROVE  \A m, n \in 0 .. Len(files) : m <= n => SizeOfFirst(files, m) <= SizeOfFirst(files, n)
<1> DEFINE L == Len(files)
           S(n) == SizeOfFirst(files, n)
           T == {d \in Nat : \A m \in 0 .. L : m + d <= L => S(m) <= S(m + d)}
<1>1. L \in Nat /\ \A k \in 1 .. L : files[k].size \in Nat
  <2>1. L \in Nat /\ \A k \in 1 .. L : files[k] \in Entry
    OBVIOUS
  <2>2. \A e \in Entry : e.size \in Nat
    BY DEF Entry
  <2> QED BY <2>1, <2>2
<1>2. /\ \A n \in 0 .. L : S(n) \in Nat
      /\ \A n \in 1 .. L : S(n) = S(n - 1) + files[n].size
  BY <1>1, SizeOfFirstIs
<1> HIDE DEF S, L
<1>3. 0 \in T
  <2>1. ASSUME NEW m \in 0 .. L PROVE m + 0 = m /\ S(m) <= S(m)
    BY <1>1, <1>2
  <2> QED BY <2>1
<1>4. ASSUME NEW d \in Nat, d \in T PROVE d + 1 \in T
  <2> SUFFICES ASSUME NEW m \in 0 .. L, m + (d + 1) <= L PROVE S(m) <= S(m + (d + 1))
    OBVIOUS
  <2>1. m + d \in 0 .. L /\ m + (d + 1) \in 1 .. L /\ (m + (d + 1)) - 1 = m + d
    BY <1>1
  <2>2. S(m) <= S(m + d)
    BY <1>1, <1>4, <2>1
  <2>3. S(m + (d + 1)) = S(m + d) + files[m + (d + 1)].size
    BY <1>2, <2>1
  <2>4. S(m) \in Nat /\ S(m + d) \in Nat /\ files[m + (d + 1)].size \in Nat
    BY <1>1, <1>2, <2>1
  <2> HIDE DEF T
  <2> QED BY <2>2, <2>3, <2>4
<1>5. Nat \subseteq T
  <2> HIDE DEF T
  <2> QED BY <1>3, <1>4, Induction
<1>6. ASSUME NEW m \in 0 .. L, NEW n \in 0 .. L, m <= n PROVE S(m) <= S(n)
  <2>1. n - m \in T /\ m + (n - m) = n /\ n <= L
    <3> HIDE DEF T
    <3> QED BY <1>1, <1>5, <1>6
  <2> QED BY <2>1
<1> QED BY <1>6 DEF S, L

Fitting(files, policy, n) ==
  IF policy.by = "count" THEN n <= policy.n ELSE SizeOfFirst(files, n) <= policy.n

(* A purge keeps as many files as its limit allows and no fewer.           *)
LEMMA KeepCountFits ==
  ASSUME NEW files \in Seq(Entry), NEW policy, policy.n \in Nat
  PROVE  /\ KeepCount(files, policy) \in 0 .. Len(files)
         /\ Fitting(files, policy, KeepCount(files, policy))
         /\ KeepCount(files, policy) < Len(files)
              => ~Fitting(files, policy, KeepCount(files, policy) + 1)
<1> DEFINE L == Len(files)
           S(n) == SizeOfFirst(files, n)
           A == {n \in 1 .. L : S(n) <= policy.n}
<1>1. L \in Nat /\ \A k \in 1 .. L : files[k].size \in Nat
  <2>1. L \in Nat /\ \A k \in 1 .. L : files[k] \in Entry
    OBVIOUS
  <2>2. \A e \in Entry : e.size \in Nat
    BY DEF Entry
  <2> QED BY <2>1, <2>2
<1>2. CASE policy.by = "count"
  BY <1>1, <1>2 DEF KeepCount, Fitting
<1>3. CASE policy.by # "count"
  <2>1. S(0) = 0 /\ \A n \in 0 .. L : S(n) \in Nat
    BY <1>1, SizeOfFirstIs
  <2>2. \A m, n \in 0 .. L : m <= n => S(m) <= S(n)
    BY SizesAdd
  <2>3. KeepCount(files, policy) = Cardinality(A) /\ \A n : Fitting(files, policy, n) <=> S(n) <= policy.n
    BY <1>3 DEF KeepCount, Fitting
  <2> HIDE DEF S, L
  <2>4. \E K \in 0 .. L : A = 1 .. K /\ S(K) <= policy.n /\ (K < L => ~(S(K + 1) <= policy.n))
    <3>1. CASE A = {}
      <4>1. 0 \in 0 .. L /\ A = 1 .. 0 /\ S(0) <= policy.n
        BY <1>1, <2>1, <3>1
      <4>2. 0 < L => ~(S(0 + 1) <= policy.n)
        <5>1. 0 < L => 1 \in 1 .. L
          BY <1>1
        <5>2. 1 \notin A
          BY <3>1
        <5> QED BY <5>1, <5>2
      <4> QED BY <4>1, <4>2
    <3>2. CASE A # {}
      <4>1. A \in SUBSET Nat /\ \A x \in A : x <= L
        BY <1>1
      <4>2. PICK K \in A : \A x \in A : x <= K
        BY <1>1, <3>2, <4>1, GreatestExists
      <4>3. K \in 1 .. L /\ S(K) <= policy.n
        BY <4>2
      <4>4. \A x \in 1 .. K : x \in A
        <5> TAKE x \in 1 .. K
        <5>1. x \in 1 .. L /\ x \in 0 .. L /\ K \in 0 .. L /\ x <= K
          BY <1>1, <4>3
        <5>2. S(x) <= S(K) /\ S(x) \in Nat /\ S(K) \in Nat
          BY <2>1, <2>2, <5>1
        <5>3. S(x) <= policy.n
          BY <4>3, <5>2
        <5> QED BY <5>1, <5>3
      <4>5. \A x \in A : x \in 1 .. K
        BY <1>1, <4>2, <4>3
      <4>6. K < L => ~(S(K + 1) <= policy.n)
        <5>1. K + 1 \notin A
          BY <1>1, <4>2, <4>3
        <5>2. K < L => K + 1 \in 1 .. L
          BY <1>1, <4>3
        <5> QED BY <5>1, <5>2
      <4> HIDE DEF A
      <4>7. A = 1 .. K
        BY <4>4, <4>5, Zenon
      <4>8. K \in 0 .. L
        BY <1>1, <4>3
      <4> QED BY <4>3, <4>6, <4>7, <4>8
    <3> QED BY <3>1, <3>2
  <2>5. PICK K \in 0 .. L : A = 1 .. K /\ S(K) <= policy.n /\ (K < L => ~(S(K + 1) <= policy.n))
    BY <2>4
  <2> HIDE DEF A
  <2>6. Cardinality(A) = K
    BY <1>1, <2>5, FS_Interval
  <2> QED BY <2>3, <2>5, <2>6 DEF L
<1> QED BY <1>2, <1>3

(* The directory is listed with every file once.                           *)
LEMMA NewestLists ==
  ASSUME RecordTypes
  PROVE  /\ Newest \in Seq(Entry)
         /\ \A n \in 1 .. Len(Newest) : Newest[n].file \in DOMAIN file /\ file[Newest[n].file].there
         /\ \A m, n \in 1 .. Len(Newest) : Newest[m].file = Newest[n].file => m = n
         /\ \A m, n \in 1 .. Len(Newest) : m <= n => Newest[m].modified >= Newest[n].modified
<1> DEFINE S == {i \in DOMAIN file : file[i].there}
           R == {p \in S \X S : Newer(p[1], p[2])}
           N == Cardinality(S)
           C(n) == CHOOSE i \in S : Cardinality({j \in S : Newer(j, i)}) = n - 1
           E(i) == [file |-> i, size |-> Len(file[i].packets), modified |-> file[i].mtime]
<1>1. S \in SUBSET Nat /\ \A i \in S : file[i].mtime \in Nat /\ i \in DOMAIN file /\ file[i].there
  BY FileTypes
<1>2. \A x, y \in S : <<x, y>> \in R <=> Newer(x, y)
  OBVIOUS
<1>3. IsFiniteSet(S)
  <2>1. IsFiniteSet(1 .. Len(file)) /\ S \in SUBSET (1 .. Len(file))
    BY FS_Interval DEF RecordTypes
  <2> QED BY <2>1, FS_Subset
<1>4. Newest = [n \in 1 .. N |-> E(C(n))]
  BY DEF Newest
<1>5. ASSUME NEW i \in S PROVE E(i) \in Entry /\ E(i).file = i /\ E(i).modified = file[i].mtime
  BY <1>1, FileTypes DEF Entry
<1> HIDE DEF R, E
<1>6. StrictOrder(R, S)
  <2> HIDE DEF S
  <2> QED BY <1>1, <1>2 DEF StrictOrder, Newer
<1>7. ASSUME NEW n \in 1 .. N PROVE Ranked(R, S)[n] = C(n)
  <2>1. Ranked(R, S)[n] = CHOOSE x \in S : Cardinality(Below(R, S, x)) = n - 1
    BY DEF Ranked
  <2>2. \A x \in S : Below(R, S, x) = {j \in S : Newer(j, x)}
    BY <1>2 DEF Below
  <2>3. \A x \in S : Cardinality(Below(R, S, x)) = n - 1 <=> Cardinality({j \in S : Newer(j, x)}) = n - 1
    BY <2>2
  <2>4. (CHOOSE x \in S : Cardinality(Below(R, S, x)) = n - 1) = C(n)
    <3> HIDE DEF S, R
    <3> QED BY <2>3
  <2> QED BY <2>1, <2>4
<1>8. /\ Ranked(R, S) \in [1 .. N -> S]
      /\ \A m, n \in 1 .. N : m < n => <<Ranked(R, S)[m], Ranked(R, S)[n]>> \in R
  <2> HIDE DEF S
  <2> QED BY <1>3, <1>6, RankedLists
<1>9. N \in Nat
  BY <1>3, FS_CardinalityType
<1>10. \A n \in 1 .. N : C(n) \in S
  BY <1>7, <1>8
<1> HIDE DEF C, N
<1>11. \A m, n \in 1 .. N : C(m) = C(n) => m = n
  <2> HIDE DEF S
  <2>1. ASSUME NEW m \in 1 .. N, NEW n \in 1 .. N, m < n PROVE C(m) # C(n)
    BY <1>6, <1>7, <1>8, <1>10, <2>1 DEF StrictOrder
  <2>2. \A m, n \in 1 .. N : m < n \/ n < m \/ m = n
    BY <1>9
  <2> QED BY <2>1, <2>2
<1>16. \A m, n \in 1 .. N : m <= n => file[C(m)].mtime >= file[C(n)].mtime
  <2> SUFFICES ASSUME NEW m \in 1 .. N, NEW n \in 1 .. N, m <= n
               PROVE  file[C(m)].mtime >= file[C(n)].mtime
    OBVIOUS
  <2>1. C(m) \in S /\ C(n) \in S /\ file[C(m)].mtime \in Nat /\ file[C(n)].mtime \in Nat
    <3> HIDE DEF S
    <3>1. C(m) \in S /\ C(n) \in S
      BY <1>10
    <3> QED BY <1>1, <3>1
  <2>2. CASE m = n
    BY <2>1, <2>2
  <2>3. CASE m < n
    <3>1. <<C(m), C(n)>> \in R
      <4> HIDE DEF S
      <4> QED BY <1>7, <1>8, <2>3
    <3>2. Newer(C(m), C(n))
      <4> HIDE DEF S
      <4> QED BY <1>2, <2>1, <3>1
    <3> QED BY <2>1, <3>2 DEF Newer
  <2> QED BY <1>9, <2>2, <2>3
<1> HIDE DEF S
<1>12. /\ Newest \in [1 .. N -> Entry]
       /\ \A n \in 1 .. N : Newest[n].file = C(n) /\ Newest[n].modified = file[C(n)].mtime
  BY <1>4, <1>5, <1>10
<1>13. Newest \in Seq(Entry) /\ Len(Newest) = N
  BY <1>9, <1>12
<1>14. \A n \in 1 .. N : Newest[n].file \in DOMAIN file /\ file[Newest[n].file].there
  BY <1>1, <1>10, <1>12
<1>15. \A m, n \in 1 .. N : Newest[m].file = Newest[n].file => m = n
  BY <1>11, <1>12
<1>17. \A m, n \in 1 .. N : m <= n => Newest[m].modified >= Newest[n].modified
  BY <1>12, <1>16
<1> QED BY <1>13, <1>14, <1>15, <1>17

(* The files of a set, the others with no size.                            *)
Masked(files, S) ==
  [n \in 1 .. Len(files) |-> [size |-> IF n \in S THEN files[n].size ELSE 0]]

(* What a set of files takes is what the list of them takes.               *)
LEMMA BytesIsSum ==
  ASSUME NEW files \in Seq(Entry), NEW S
  PROVE  Bytes(files, S) = SizeOfFirst(Masked(files, S), Len(files))
<1> DEFINE L == Len(files)
           M == Masked(files, S)
           F(g) == [n \in 0 .. L |-> IF n = 0 THEN 0 ELSE g[n - 1] + (IF n \in S THEN files[n].size ELSE 0)]
           G(g) == [n \in 0 .. Len(M) |-> IF n = 0 THEN 0 ELSE g[n - 1] + M[n].size]
           f == CHOOSE g : g = F(g)
           h == CHOOSE g : g = G(g)
<1>1. L \in Nat /\ Len(M) = L
  BY DEF Masked
<1>2. \A n \in 1 .. L : M[n].size = (IF n \in S THEN files[n].size ELSE 0)
  BY DEF Masked
<1>3. \A g : F(g) = G(g)
  <2> TAKE g
  <2> HIDE DEF M, L
  <2>1. \A n \in 0 .. L : n # 0 => n \in 1 .. L
    BY <1>1
  <2> QED BY <1>1, <1>2, <2>1
<1>4. f = h
  <2> HIDE DEF F, G
  <2>1. \A g : g = F(g) <=> g = G(g)
    BY <1>3
  <2> QED BY <2>1
<1>5. Bytes(files, S) = f[L]
  BY DEF Bytes
<1>6. SizeOfFirst(M, L) = h[L]
  BY DEF SizeOfFirst
<1> QED BY <1>4, <1>5, <1>6

(* The first files of a list take what adding them one at a time gives.    *)
LEMMA BytesOfFirst ==
  ASSUME NEW files \in Seq(Entry), NEW K \in 0 .. Len(files)
  PROVE  Bytes(files, 1 .. K) = SizeOfFirst(files, K)
<1> DEFINE L == Len(files)
           M == Masked(files, 1 .. K)
           f == [n \in 0 .. L |-> SizeOfFirst(M, n)]
           g == [n \in 0 .. L |-> SizeOfFirst(files, IF n <= K THEN n ELSE K)]
<1>1. L \in Nat /\ K \in 0 .. L /\ \A k \in 1 .. L : files[k].size \in Nat
  <2>1. L \in Nat /\ \A k \in 1 .. L : files[k] \in Entry
    OBVIOUS
  <2>2. \A e \in Entry : e.size \in Nat
    BY DEF Entry
  <2> QED BY <2>1, <2>2
<1>2. Len(M) = L /\ \A k \in 1 .. L : M[k].size = (IF k <= K THEN files[k].size ELSE 0)
  <2>1. \A k \in 1 .. L : k \in 1 .. K <=> k <= K
    BY <1>1
  <2> QED BY <1>1, <2>1 DEF Masked
<1> HIDE DEF L, M
<1>3. \A k \in 1 .. L : M[k].size \in Nat
  BY <1>1, <1>2
<1>4. /\ \A n \in 0 .. L : SizeOfFirst(M, n) \in Nat
      /\ SizeOfFirst(M, 0) = 0
      /\ \A n \in 1 .. L : SizeOfFirst(M, n) = SizeOfFirst(M, n - 1) + M[n].size
  BY <1>1, <1>2, <1>3, SizeOfFirstIs
<1>5. /\ \A n \in 0 .. L : SizeOfFirst(files, n) \in Nat
      /\ SizeOfFirst(files, 0) = 0
      /\ \A n \in 1 .. L : SizeOfFirst(files, n) = SizeOfFirst(files, n - 1) + files[n].size
  BY <1>1, SizeOfFirstIs DEF L
<1>6. Alike(L, f, g)
  <2>1. f[0] = g[0]
    BY <1>1, <1>4, <1>5
  <2>2. ASSUME NEW k \in 1 .. L, f[k - 1] = g[k - 1] PROVE f[k] = g[k]
    <3>1. k \in 0 .. L /\ k - 1 \in 0 .. L
      BY <1>1
    <3>2. f[k] = f[k - 1] + M[k].size
      BY <1>4, <3>1
    <3>3. CASE k <= K
      <4>1. g[k] = g[k - 1] + files[k].size
        BY <1>1, <1>5, <3>1, <3>3
      <4> HIDE DEF f, g
      <4> QED BY <1>2, <2>2, <3>2, <3>3, <4>1
    <3>4. CASE K < k
      <4>1. g[k] = SizeOfFirst(files, K) /\ g[k - 1] = SizeOfFirst(files, K)
        <5>1. ~(k <= K) /\ (k - 1 <= K => k - 1 = K)
          BY <1>1, <3>4
        <5> QED BY <3>1, <5>1
      <4>2. M[k].size = 0 /\ f[k - 1] \in Nat
        BY <1>1, <1>2, <1>4, <3>1, <3>4
      <4> HIDE DEF f, g
      <4> QED BY <2>2, <3>2, <4>1, <4>2
    <3> QED BY <1>1, <3>3, <3>4
  <2> HIDE DEF f, g
  <2> QED BY <2>1, <2>2 DEF Alike
<1>7. f[L] = g[L]
  <2> HIDE DEF f, g
  <2> QED BY <1>1, <1>6, SameIteration
<1>8. SizeOfFirst(M, L) = SizeOfFirst(files, K)
  <2>1. (IF L <= K THEN L ELSE K) = K
    BY <1>1
  <2> QED BY <1>1, <1>7, <2>1
<1> QED BY <1>8, BytesIsSum DEF L, M

-----------------------------------------------------------------------------

PurgeTypes ==
  purge \in [pc : {"idle", "deleting", "over"}, policy : Policies \cup {None}, listed : Seq(Entry),
             next : Nat, failed : SUBSET Nat, result : {"none", "ok", "failed"}]

KeptFiles == KeepCount(purge.listed, purge.policy)

(* What a purge listed is still recorded, each file once, newest first.    *)
ListedOnce ==
  /\ \A n \in 1 .. Len(purge.listed) : purge.listed[n].file \in DOMAIN file
  /\ \A m, n \in 1 .. Len(purge.listed) : purge.listed[m].file = purge.listed[n].file => m = n
  /\ \A m, n \in 1 .. Len(purge.listed) :
       m <= n => purge.listed[m].modified >= purge.listed[n].modified

(* A file a purge listed is there: one to keep, one it has not come to, or *)
(* one that could not be removed.                                          *)
Spared(n) == n <= KeptFiles \/ purge.next <= n \/ n \in purge.failed

Deleting ==
  /\ purge.policy \in Policies /\ KeptFiles < purge.next
  /\ \A n \in purge.failed : KeptFiles < n /\ n < purge.next
  /\ purge.policy.force =>
       \A n \in 1 .. Len(purge.listed) : file[purge.listed[n].file].there <=> Spared(n)
  /\ purge.pc = "over" /\ purge.policy.force =>
       Len(purge.listed) < purge.next /\ (purge.result = "ok" <=> purge.failed = {})

PurgeInv == PurgeTypes /\ ListedOnce /\ (purge.pc # "idle" => Deleting)

(* No purge has listed the directory yet.                                  *)
LEMMA PurgeInit ==
  ASSUME SpoolInit
  PROVE  PurgeInv
BY DEF SpoolInit, PurgeInv, PurgeTypes, ListedOnce

(* A step that leaves the purge and the files' presence alone.             *)
LEMMA PurgeKept ==
  ASSUME RecInv, PurgeInv, Grows, UNCHANGED purge,
         \A i \in DOMAIN file : file'[i].there = file[i].there
  PROVE  PurgeInv'
<1>1. \A i \in DOMAIN file : i \in DOMAIN file'
  BY DEF Grows, RecInv, RecordTypes
<1>2. PurgeTypes'
  BY DEF PurgeInv, PurgeTypes
<1>3. ListedOnce'
  BY <1>1 DEF PurgeInv, ListedOnce
<1>4. purge'.pc # "idle" => Deleting'
  <2>1. \A n \in 1 .. Len(purge.listed) :
          file'[purge.listed[n].file].there = file[purge.listed[n].file].there
    BY DEF PurgeInv, ListedOnce
  <2> QED BY <2>1 DEF PurgeInv, Deleting, KeptFiles, Spared
<1> QED BY <1>2, <1>3, <1>4 DEF PurgeInv

(* The listing.                                                            *)
LEMMA PurgeListsKeeps ==
  ASSUME RecInv, PurgeInv, NEW policy \in Policies, PurgeLists(policy)
  PROVE  PurgeInv'
<1> DEFINE K == KeepCount(Newest, policy)
           L == Len(Newest)
<1>1. /\ Newest \in Seq(Entry) /\ L \in Nat
      /\ \A n \in 1 .. L : Newest[n].file \in DOMAIN file /\ file[Newest[n].file].there
      /\ \A m, n \in 1 .. L : Newest[m].file = Newest[n].file => m = n
      /\ \A m, n \in 1 .. L : m <= n => Newest[m].modified >= Newest[n].modified
  BY NewestLists DEF RecInv
<1>2. K \in 0 .. L
  <2>1. policy.n \in Nat
    BY SpoolAssumption
  <2> QED BY <1>1, <2>1, KeepCountFits
<1>3. /\ file' = file /\ purge'.pc = (IF policy.force THEN "deleting" ELSE "over")
      /\ purge'.policy = policy /\ purge'.listed = Newest /\ purge'.next = K + 1 /\ purge'.failed = {}
      /\ purge' = [pc |-> IF policy.force THEN "deleting" ELSE "over", policy |-> policy,
                   listed |-> Newest, next |-> K + 1, failed |-> {},
                   result |-> IF policy.force THEN "none" ELSE "ok"]
  BY DEF PurgeLists
<1> HIDE DEF K, L
<1>4. PurgeTypes'
  <2>1. K + 1 \in Nat
    BY <1>1, <1>2
  <2> QED BY <1>1, <1>3, <2>1 DEF PurgeTypes
<1>5. ListedOnce'
  BY <1>1, <1>3 DEF ListedOnce, L
<1>6. Deleting'
  <2>1. KeptFiles' = K
    BY <1>3 DEF KeptFiles, K
  <2>2. policy.force => purge'.pc # "over"
    BY <1>3
  <2>3. \A n \in 1 .. L : Spared(n)'
    <3>1. \A n \in 1 .. L : n <= K \/ K + 1 <= n
      BY <1>1, <1>2
    <3> QED BY <1>3, <2>1, <3>1 DEF Spared
  <2>4. \A n \in 1 .. L : file'[Newest[n].file].there
    BY <1>1, <1>3
  <2>5. K < K + 1
    BY <1>1, <1>2
  <2> QED BY <1>3, <2>1, <2>2, <2>3, <2>4, <2>5 DEF Deleting, L
<1> QED BY <1>4, <1>5, <1>6 DEF PurgeInv

(* What a removal, done or failed, finds.                                  *)
LEMMA DoomedIs ==
  ASSUME PurgeInv, Doomed
  PROVE  /\ purge.next \in 1 .. Len(purge.listed) /\ KeptFiles \in Nat /\ KeptFiles < purge.next
         /\ PurgeTypes /\ ListedOnce /\ Deleting /\ purge.pc = "deleting" /\ purge.listed \in Seq(Entry)
         /\ purge.next \in Nat /\ purge.next + 1 \in Nat
         /\ \A n \in purge.failed : KeptFiles < n /\ n < purge.next /\ n < purge.next + 1
<1>1. /\ PurgeTypes /\ ListedOnce /\ Deleting /\ purge.pc = "deleting"
      /\ purge.listed \in Seq(Entry) /\ purge.policy \in Policies /\ purge.next \in Nat
      /\ purge.next <= Len(purge.listed) /\ KeptFiles < purge.next
  BY DEF PurgeInv, PurgeTypes, Deleting, Doomed
<1>2. KeptFiles \in 0 .. Len(purge.listed)
  <2>1. purge.policy.n \in Nat
    BY <1>1, SpoolAssumption
  <2> QED BY <1>1, <2>1, KeepCountFits DEF KeptFiles
<1>3. \A n \in purge.failed : n \in Nat /\ KeptFiles < n /\ n < purge.next
  BY <1>1 DEF PurgeTypes, Deleting
<1> QED BY <1>1, <1>2, <1>3

(* A removal.                                                              *)
LEMMA PurgeDeletesKeeps ==
  ASSUME RecInv, PurgeInv, PurgeDeletes
  PROVE  PurgeInv'
<1> DEFINE c == purge.listed[purge.next].file
<1>1. /\ purge.next \in 1 .. Len(purge.listed) /\ KeptFiles \in Nat /\ KeptFiles < purge.next
      /\ PurgeTypes /\ ListedOnce /\ Deleting /\ purge.pc = "deleting" /\ purge.listed \in Seq(Entry)
      /\ purge.next \in Nat /\ purge.next + 1 \in Nat
      /\ \A n \in purge.failed : KeptFiles < n /\ n < purge.next /\ n < purge.next + 1
  BY DoomedIs DEF PurgeDeletes
<1>2. /\ purge' = [purge EXCEPT !.next = @ + 1]
      /\ clock' = clock /\ file' = [file EXCEPT ![c].there = FALSE]
  BY DEF PurgeDeletes
<1>3. /\ purge'.pc = "deleting" /\ purge'.listed = purge.listed /\ purge'.policy = purge.policy
      /\ purge'.next = purge.next + 1 /\ purge'.failed = purge.failed /\ PurgeTypes'
  BY <1>1, <1>2 DEF PurgeTypes
<1>4. c \in DOMAIN file
  BY <1>1 DEF ListedOnce
<1>5. Grows /\ \A j \in DOMAIN file : j \in DOMAIN file' /\ (file'[j].there <=> file[j].there /\ j # c)
  <2>1. Removed(c)
    BY <1>2 DEF Removed
  <2> HIDE DEF c
  <2> QED BY <1>4, <2>1, DeleteKeeps DEF Grows, RecInv, RecordTypes
<1>6. ListedOnce'
  BY <1>1, <1>3, <1>5 DEF ListedOnce
<1>7. Deleting'
  <2>1. KeptFiles' = KeptFiles
    BY <1>3 DEF KeptFiles
  <2>2. ASSUME NEW n \in 1 .. Len(purge.listed), purge.policy.force
        PROVE  file'[purge.listed[n].file].there <=> Spared(n)'
    <3> DEFINE f == purge.listed[n].file
    <3>1. f \in DOMAIN file /\ (f = c <=> n = purge.next)
      BY <1>1 DEF ListedOnce
    <3>2. file[f].there <=> Spared(n)
      BY <1>1, <2>2 DEF Deleting
    <3>3. file'[f].there <=> file[f].there /\ n # purge.next
      <4> HIDE DEF c, f
      <4> QED BY <1>5, <3>1
    <3>4. Spared(n)' <=> n <= KeptFiles \/ purge.next + 1 <= n \/ n \in purge.failed
      BY <1>3, <2>1 DEF Spared
    <3>5. CASE n = purge.next
      <4>1. ~(n <= KeptFiles) /\ ~(purge.next + 1 <= n)
        BY <1>1, <3>5
      <4>2. n \notin purge.failed
        BY <1>1, <3>5
      <4> QED BY <3>3, <3>4, <3>5, <4>1, <4>2
    <3>6. CASE n # purge.next
      <4>1. purge.next <= n <=> purge.next + 1 <= n
        BY <1>1, <3>6
      <4> QED BY <3>2, <3>3, <3>4, <3>6, <4>1 DEF Spared
    <3> QED BY <3>5, <3>6
  <2>3. KeptFiles < purge.next + 1
    BY <1>1
  <2>4. \A n \in purge'.failed : KeptFiles < n /\ n < purge.next + 1
    BY <1>1, <1>3
  <2> QED BY <1>1, <1>3, <2>1, <2>2, <2>3, <2>4 DEF Deleting
<1> QED BY <1>3, <1>6, <1>7 DEF PurgeInv

(* A removal that fails.                                                   *)
LEMMA PurgeFailsKeeps ==
  ASSUME RecInv, PurgeInv, PurgeFails
  PROVE  PurgeInv'
<1>1. /\ purge.next \in 1 .. Len(purge.listed) /\ KeptFiles \in Nat /\ KeptFiles < purge.next
      /\ PurgeTypes /\ ListedOnce /\ Deleting /\ purge.pc = "deleting" /\ purge.listed \in Seq(Entry)
      /\ purge.next \in Nat /\ purge.next + 1 \in Nat
      /\ \A n \in purge.failed : KeptFiles < n /\ n < purge.next /\ n < purge.next + 1
  BY DoomedIs DEF PurgeFails
<1>2. purge' = [purge EXCEPT !.next = @ + 1, !.failed = @ \cup {purge.next}] /\ file' = file
  BY DEF PurgeFails
<1>3. /\ purge'.pc = "deleting" /\ purge'.listed = purge.listed /\ purge'.policy = purge.policy
      /\ purge'.next = purge.next + 1 /\ purge'.failed = purge.failed \cup {purge.next} /\ PurgeTypes'
  BY <1>1, <1>2 DEF PurgeTypes
<1>4. ListedOnce'
  BY <1>1, <1>2, <1>3 DEF ListedOnce
<1>5. Deleting'
  <2>1. KeptFiles' = KeptFiles
    BY <1>3 DEF KeptFiles
  <2>2. ASSUME NEW n \in 1 .. Len(purge.listed) PROVE Spared(n)' <=> Spared(n)
    <3>1. purge.next <= n <=> purge.next + 1 <= n \/ n = purge.next
      BY <1>1
    <3> QED BY <1>3, <2>1, <3>1 DEF Spared
  <2>3. KeptFiles < purge.next + 1
    BY <1>1
  <2>4. \A n \in purge'.failed : KeptFiles < n /\ n < purge.next + 1
    BY <1>1, <1>3
  <2> QED BY <1>1, <1>2, <1>3, <2>1, <2>2, <2>3, <2>4 DEF Deleting
<1> QED BY <1>3, <1>4, <1>5 DEF PurgeInv

(* The end.                                                                *)
LEMMA PurgeEndsKeeps ==
  ASSUME RecInv, PurgeInv, PurgeEnds
  PROVE  PurgeInv'
<1>1. /\ purge' = [purge EXCEPT !.pc = "over",
                                !.result = IF purge.failed = {} THEN "ok" ELSE "failed"]
      /\ purge.pc = "deleting" /\ purge.next > Len(purge.listed)
      /\ PurgeTypes /\ file' = file
  BY DEF PurgeEnds, PurgeInv
<1>2. /\ purge'.pc = "over" /\ purge'.listed = purge.listed /\ purge'.policy = purge.policy
      /\ purge'.next = purge.next /\ purge'.failed = purge.failed
      /\ purge'.result = "ok" <=> purge.failed = {}
      /\ PurgeTypes'
  BY <1>1 DEF PurgeTypes
<1>3. Len(purge.listed) < purge.next
  BY <1>1 DEF PurgeTypes
<1> QED BY <1>1, <1>2, <1>3 DEF PurgeInv, ListedOnce, Deleting, KeptFiles, Spared

(* What of its list a purge has left is what it keeps, what it has not     *)
(* come to and what failed, at every step of the sensor and of the purge.  *)
LEMMA PurgeStep ==
  ASSUME RecInv, PurgeInv, [SpoolNext]_spoolVars
  PROVE  PurgeInv'
<1>1. Grows
  BY RecordStep
<1>2. CASE Purge
  BY <1>2, PurgeListsKeeps, PurgeDeletesKeeps, PurgeFailsKeeps, PurgeEndsKeeps DEF Purge
<1>3. CASE Sensor
  <2>1. UNCHANGED purge
    BY <1>3 DEF Sensor, Tick, Record, Rotate
  <2>2. ASSUME NEW t \in Threads, NEW kind \in Kinds, NEW ts, Record(t, kind, ts)
        PROVE  \A i \in DOMAIN file : file'[i].there = file[i].there
    <3>1. Current(t) \in DOMAIN file
      BY <2>2, CurrentIsLast DEF RecInv, Record
    <3>2. file[Current(t)] \in File
      BY <3>1, FileTypes DEF RecInv
    <3> QED BY <2>2, <3>1, <3>2 DEF Record, RecInv, RecordTypes, File
  <2>3. ASSUME NEW t \in Threads, NEW kind \in Kinds, NEW ts, NEW link, Rotate(t, kind, ts, link)
        PROVE  \A i \in DOMAIN file : file'[i].there = file[i].there
    <3> DEFINE g == [thread |-> t, name |-> ts \div TicksPerSec, link |-> link, mtime |-> clock,
                     there |-> TRUE, packets |-> <<Packet(t, kind, ts, Len(file) + 1, 1)>>]
    <3>1. file' = Append(file, g)
      BY <2>3 DEF Rotate
    <3> HIDE DEF g
    <3> QED BY <3>1 DEF RecInv, RecordTypes
  <2>4. ASSUME Tick PROVE \A i \in DOMAIN file : file'[i].there = file[i].there
    BY <2>4 DEF Tick
  <2>5. \A i \in DOMAIN file : file'[i].there = file[i].there
    BY <1>3, <2>2, <2>3, <2>4 DEF Sensor
  <2> QED BY <1>1, <2>1, <2>5, PurgeKept
<1>4. CASE UNCHANGED <<file, purge>>
  BY <1>1, <1>4, PurgeKept
<1>5. Purge \/ Sensor \/ UNCHANGED <<file, purge>>
  BY DEF SpoolNext, List, Fetch, Stops, Start, OpenFile, OutOfDescriptors, ReadPacket, EndOfFile,
         GroupExhausted, Finish, SkipFile, WritePacket, SizeReached, Stop, fillRest, spoolVars
<1> QED BY <1>2, <1>3, <1>4, <1>5

(* A set of the first files is allowed when they fit.                      *)
LEMMA AllowedIs ==
  ASSUME purge.listed \in Seq(Entry), NEW n \in 0 .. Len(purge.listed)
  PROVE  Allowed(1 .. n) <=> Fitting(purge.listed, purge.policy, n)
<1>1. Cardinality(1 .. n) = n
  BY FS_Interval
<1>2. Bytes(purge.listed, 1 .. n) = SizeOfFirst(purge.listed, n)
  BY BytesOfFirst
<1> QED BY <1>1, <1>2 DEF Allowed, Fitting

(* A purge at its end has left what fits its limit and what failed.        *)
LEMMA PurgeLimit ==
  ASSUME RecInv, PurgeInv
  PROVE  PurgeWithinLimit
<1> SUFFICES ASSUME purge.pc = "over", purge.policy.force PROVE PurgeWithinLimit
  BY DEF PurgeWithinLimit
<1> DEFINE L == Len(purge.listed)
           K == KeptFiles
           left == {n \in DOMAIN purge.listed : file[purge.listed[n].file].there}
           meant == left \ purge.failed
           others == DOMAIN purge.listed \ meant
<1>1. /\ purge.listed \in Seq(Entry) /\ purge.policy \in Policies /\ Deleting /\ ListedOnce
      /\ purge.next \in Nat /\ L < purge.next /\ (purge.result = "ok" <=> purge.failed = {})
      /\ \A n \in purge.failed : K < n
  BY DEF PurgeInv, PurgeTypes, Deleting
<1>2. /\ K \in 0 .. L /\ Fitting(purge.listed, purge.policy, K)
      /\ K < L => ~Fitting(purge.listed, purge.policy, K + 1)
  BY <1>1, SpoolAssumption, KeepCountFits DEF KeptFiles
<1>3. DOMAIN purge.listed = 1 .. L /\ L \in Nat /\ K \in Nat
  BY <1>1, <1>2
<1>4. \A n \in 1 .. L : file[purge.listed[n].file].there <=> n <= K \/ n \in purge.failed
  <2>1. \A n \in 1 .. L : ~(purge.next <= n)
    BY <1>1, <1>3
  <2> QED BY <1>1, <2>1 DEF Deleting, Spared
<1> HIDE DEF L, K
<1>5. meant = 1 .. K
  <2>1. \A n : n \in meant <=> n \in 1 .. L /\ (n <= K \/ n \in purge.failed) /\ n \notin purge.failed
    BY <1>3, <1>4
  <2>2. \A n : n \in 1 .. L /\ n <= K <=> n \in 1 .. K
    BY <1>2, <1>3
  <2>3. \A n \in 1 .. L : n <= K => n \notin purge.failed
    BY <1>1, <1>3
  <2> HIDE DEF meant
  <2>4. \A n : n \in meant <=> n \in 1 .. K
    BY <2>1, <2>2, <2>3
  <2> QED BY <2>4, Zenon
<1>6. purge.result = "ok" => left = meant
  BY <1>1
<1> HIDE DEF left, meant
<1>7. Allowed(IF purge.result = "ok" THEN left ELSE meant)
  <2>1. Allowed(1 .. K)
    BY <1>1, <1>2, AllowedIs DEF L
  <2> QED BY <1>5, <1>6, <2>1
<1>8. \A n : n \in others <=> n \in 1 .. L /\ K < n
  BY <1>2, <1>3, <1>5
<1>9. \A m, n \in 1 .. L : m <= n => purge.listed[m].modified >= purge.listed[n].modified
  BY <1>1 DEF ListedOnce, L
<1> HIDE DEF others
<1>10. \A m \in meant, n \in others : purge.listed[m].modified >= purge.listed[n].modified
  <2> TAKE m \in meant, n \in others
  <2>1. m \in 1 .. L /\ n \in 1 .. L /\ m <= n
    BY <1>2, <1>3, <1>5, <1>8
  <2> QED BY <1>9, <2>1
<1>11. others # {} => \E n \in others :
         /\ \A m \in others : purge.listed[n].modified >= purge.listed[m].modified
         /\ ~Allowed(meant \cup {n})
  <2> SUFFICES ASSUME others # {} PROVE \E n \in others :
         /\ \A m \in others : purge.listed[n].modified >= purge.listed[m].modified
         /\ ~Allowed(meant \cup {n})
    OBVIOUS
  <2>1. K < L
    BY <1>3, <1>8
  <2>2. K + 1 \in others /\ K + 1 \in 1 .. L
    BY <1>3, <1>8, <2>1
  <2>3. \A m \in others : purge.listed[K + 1].modified >= purge.listed[m].modified
    <3> TAKE m \in others
    <3>1. m \in 1 .. L /\ K + 1 <= m
      BY <1>3, <1>8
    <3> QED BY <1>9, <2>2, <3>1
  <2>4. meant \cup {K + 1} = 1 .. K + 1
    BY <1>3, <1>5
  <2>5. ~Allowed(1 .. K + 1)
    BY <1>1, <1>2, <2>1, <2>2, AllowedIs DEF L
  <2> QED BY <2>2, <2>3, <2>4, <2>5
<1> QED BY <1>7, <1>10, <1>11 DEF PurgeWithinLimit, left, meant, others

(* PurgeWithinLimit: a finished purge that reports success left only as    *)
(* many of the files it listed as its limit allows; whatever could not be  *)
(* removed, what it meant to keep is the newest and is all that fits,      *)
(* while the sensor writes on (by_count, by_size and delete_files of       *)
(* evebox pcap purge).                                                     *)
THEOREM PurgeKeepsTheLimit == SpoolSpec => []PurgeWithinLimit
<1>1. SpoolInit => RecInv /\ PurgeInv
  BY RecordInit, PurgeInit
<1>2. RecInv /\ PurgeInv /\ [SpoolNext]_spoolVars => (RecInv /\ PurgeInv)'
  BY RecordStep, PurgeStep
<1>3. RecInv /\ PurgeInv => PurgeWithinLimit
  BY PurgeLimit
<1> QED BY <1>1, <1>2, <1>3, PTL DEF SpoolSpec

-----------------------------------------------------------------------------
(* The extraction. *)

CursorType == [files : Seq(Nat), open : Nat, pos : Nat, pending : Nat]

In(x, s) == \E m \in DOMAIN s : s[m] = x

(* A cursor's files, and the packets it still has to offer.                *)
Has(c, j) == c.open = j \/ In(j, c.files)
Left(c, j, l) == In(j, c.files) \/ (c.open = j /\ (c.pos < l \/ l = c.pending))

Spent(c)   == c.open = 0 /\ c.files = <<>>
Settled(c) == c.pending # 0 \/ Spent(c)

CursorOK(c) ==
  /\ \A m \in DOMAIN c.files : c.files[m] \in DOMAIN file
  /\ \A m, n \in DOMAIN c.files : c.files[m] = c.files[n] => m = n
  /\ c.open # 0 => /\ c.open \in DOMAIN file /\ ~In(c.open, c.files)
                   /\ c.pos <= Len(file[c.open].packets)
  /\ c.pending # 0 => c.open # 0 /\ c.pending = c.pos /\ Wanted(c.open, c.pending)

(* The cursor of a thread reads its files in the order they were written.  *)
InOrder(c, t) ==
  /\ \A m, n \in DOMAIN c.files : m < n => c.files[m] < c.files[n]
  /\ \A m \in DOMAIN c.files : c.open < c.files[m] /\ file[c.files[m]].thread = t
  /\ c.open # 0 => file[c.open].thread = t

Reading == job.pc \in {"fill", "refill", "merge"}

JobTypes ==
  /\ job \in [pc : {"idle", "list", "fill", "refill", "merge", "over"}, ask : Asks \cup {None},
              start : Nat, end : Nat \cup {None},
              result : {"none", "refused", "no-candidate-files", "io", "truncated", "cancelled", "ok",
                        "format", "no-match"}]
  /\ stats \in [scanned : Nat, vanished : SUBSET Nat, compiled : BOOLEAN, failed : BOOLEAN,
                link : Links \cup {None}, stop : {"none", "cancelled", "deadline"}]
  /\ cursor \in Seq(CursorType) /\ at \in Nat /\ out \in Seq(Pkt) /\ odd \in BOOLEAN

(* The request's window, once it is built; nothing is read before.         *)
JobOK ==
  /\ job.pc # "over" => job.result = "none"
  /\ job.pc # "idle" /\ job.result # "refused" =>
       /\ job.ask \in Asks /\ ~BadRequest(job.ask)
       /\ job.start = WindowOf(job.ask)[1] /\ job.end = WindowOf(job.ask)[2]
  /\ job.pc \in {"idle", "list"} \/ job.result = "refused" =>
       cursor = <<>> /\ out = <<>> /\ stats = NoStats /\ known = <<>>

CursorsOK ==
  /\ \A n \in DOMAIN cursor : CursorOK(cursor[n])
  /\ \A m, n \in DOMAIN cursor : \A j \in Nat \ {0} : Has(cursor[m], j) /\ Has(cursor[n], j) => m = n
  /\ ~odd => \A n \in DOMAIN cursor : n \in DOMAIN ThreadSeq /\ InOrder(cursor[n], ThreadSeq[n])

(* Which cursors have found their next packet, or their end.               *)
FillOK ==
  /\ job.pc \in {"fill", "refill"} => at \in DOMAIN cursor
  /\ job.pc = "fill" => \A n \in DOMAIN cursor : IF n < at THEN Settled(cursor[n]) ELSE cursor[n].pending = 0
  /\ job.pc = "refill" => \A n \in DOMAIN cursor : IF n = at THEN cursor[n].pending = 0 ELSE Settled(cursor[n])
  /\ job.pc = "merge" => \A n \in DOMAIN cursor : Settled(cursor[n])
  /\ job.result = "ok" => \A n \in DOMAIN cursor : Spent(cursor[n])

(* A packet that went out is one of the spool, wanted, and done with.      *)
Written(q) ==
  LET i == q.id[1]
      k == q.id[2]
  IN  /\ i \in DOMAIN file /\ k \in 1 .. Len(file[i].packets) /\ q = file[i].packets[k]
      /\ Wanted(i, k) /\ \A n \in DOMAIN cursor : ~Left(cursor[n], i, k)

OutOK ==
  /\ \A m \in DOMAIN out : Written(out[m])
  /\ \A m, n \in DOMAIN out : out[m].id = out[n].id => m = n

(* Every wanted packet that was on disk when the spool was listed is still *)
(* to come, or went out, or is in a file that could not be used.           *)
Covered(i, k) ==
  \/ \E n \in DOMAIN cursor : Left(cursor[n], i, k)
  \/ \E m \in DOMAIN out : out[m] = file[i].packets[k]
  \/ i \in stats.vanished \/ stats.link \notin {None, file[i].link}
  \/ ~Compiles(job.ask, file[i].link)

KnownOK ==
  \A i \in DOMAIN known :
    /\ i \in DOMAIN file /\ known[i] \in 0 .. Len(file[i].packets)
    /\ \A k \in 1 .. known[i] : Wanted(i, k) => Covered(i, k)

(* A thread whose cursor is not at its end has offered, or is offering, a  *)
(* packet no earlier than any that went out, before all it has left.       *)
Mark(n, m, i, k) ==
  /\ i \in DOMAIN file /\ k \in 1 .. Len(file[i].packets)
  /\ file[i].thread = ThreadSeq[n] /\ file[i].packets[k].ts >= out[m].ts
  /\ \A j, l \in Nat \ {0} : Left(cursor[n], j, l) => i < j \/ (i = j /\ k <= l)

OrderOK ==
  ~odd => \A n \in DOMAIN cursor, m \in DOMAIN out :
            Spent(cursor[n]) \/ \E i, k \in Nat : Mark(n, m, i, k)


SameRequest == job'.ask = job.ask /\ job'.start = job.start /\ job'.end = job.end

(* A packet is wanted or not for as long as the request stands.            *)
LEMMA WantedSame ==
  ASSUME RecInv, Grows, SameRequest, NEW i \in DOMAIN file, NEW k \in 1 .. Len(file[i].packets)
  PROVE  Wanted(i, k)' <=> Wanted(i, k)
<1>1. i \in 1 .. Len(file)
  BY FileTypes DEF RecInv
<1>2. file'[i].packets[k] = file[i].packets[k] /\ file'[i].link = file[i].link
  BY <1>1 DEF Grows, FileGrows
<1> QED BY <1>2 DEF Wanted, Past, Matches, SameRequest

(* The place of a cursor in the files stays right while they grow.         *)
LEMMA CursorKept ==
  ASSUME RecInv, RecInv', Grows, SameRequest, NEW n, cursor'[n] \in CursorType, CursorOK(cursor'[n])
  PROVE  CursorOK(cursor[n])' /\ \A t : InOrder(cursor'[n], t) => InOrder(cursor[n], t)'
<1>1. \A i \in DOMAIN file :
        /\ i \in DOMAIN file' /\ i \in Nat \ {0} /\ FileGrows(file[i], file'[i])
        /\ Len(file[i].packets) \in Nat /\ Len(file'[i].packets) \in Nat
  <2> TAKE i \in DOMAIN file
  <2>1. i \in 1 .. Len(file) /\ Len(file[i].packets) \in Nat
    BY FileTypes DEF RecInv
  <2>2. i \in DOMAIN file' /\ i \in Nat \ {0} /\ FileGrows(file[i], file'[i])
    BY <2>1 DEF RecInv, RecordTypes, Grows
  <2>3. Len(file'[i].packets) \in Nat
    <3>1. file'[i] \in File
      BY <2>2 DEF RecInv, RecordTypes
    <3> QED BY <3>1 DEF File
  <2> QED BY <2>1, <2>2, <2>3
<1> PICK c \in CursorType : c = cursor'[n] /\ CursorOK(c)
  OBVIOUS
<1>2. c.files \in Seq(Nat) /\ c.open \in Nat /\ c.pos \in Nat /\ c.pending \in Nat
  BY DEF CursorType
<1>3. ASSUME c.pending # 0 PROVE Wanted(cursor[n].open, cursor[n].pending)'
  <2>1. c.open \in DOMAIN file /\ c.pending \in 1 .. Len(file[c.open].packets) /\ Wanted(c.open, c.pending)
    BY <1>1, <1>2, <1>3 DEF CursorOK
  <2>2. Wanted(c.open, c.pending)'
    BY <2>1, WantedSame
  <2> QED BY <2>2 DEF Wanted, Matches
<1>4. CursorOK(cursor[n])'
  BY <1>1, <1>2, <1>3 DEF CursorOK, FileGrows, In
<1>5. ASSUME NEW t, InOrder(c, t) PROVE InOrder(cursor[n], t)'
  BY <1>1, <1>5 DEF CursorOK, InOrder, FileGrows
<1> QED BY <1>4, <1>5

(* What a cursor may become: it keeps its files, in their order, and only  *)
(* has less to offer.                                                      *)
Narrows(c, d) ==
  /\ d \in CursorType /\ CursorOK(d)
  /\ \A j \in Nat \ {0} : Has(d, j) => Has(c, j)
  /\ \A j, l \in Nat \ {0} : Left(d, j, l) => Left(c, j, l)
  /\ Spent(c) => Spent(d)
  /\ \A t : InOrder(c, t) => InOrder(d, t)

ExtTypes == RecInv /\ RecInv' /\ Grows /\ SameRequest /\ JobTypes /\ odd' = odd

(* What holds of the cursors, the output and their order while a step      *)
(* narrows the cursors.                                                    *)
LEMMA NarrowedCursors ==
  ASSUME ExtTypes, CursorsOK, cursor' \in Seq(CursorType), DOMAIN cursor' = DOMAIN cursor,
         \A n \in DOMAIN cursor : Narrows(cursor[n], cursor'[n])
  PROVE  CursorsOK'
<1>1. ASSUME NEW n \in DOMAIN cursor'
      PROVE  /\ CursorOK(cursor[n])'
             /\ \A t : InOrder(cursor[n], t) => InOrder(cursor[n], t)'
  <2>1. cursor'[n] \in CursorType /\ CursorOK(cursor'[n])
        /\ \A t : InOrder(cursor[n], t) => InOrder(cursor'[n], t)
    BY DEF Narrows
  <2>2. CursorOK(cursor[n])' /\ \A t : InOrder(cursor'[n], t) => InOrder(cursor[n], t)'
    BY <2>1, CursorKept DEF ExtTypes
  <2> QED BY <2>1, <2>2
<1>2. \A m, n \in DOMAIN cursor' : \A j \in Nat \ {0} : Has(cursor'[m], j) /\ Has(cursor'[n], j) => m = n
  BY DEF CursorsOK, Narrows
<1>3. ASSUME ~odd', NEW n \in DOMAIN cursor'
      PROVE  n \in DOMAIN ThreadSeq /\ InOrder(cursor[n], ThreadSeq[n])'
  <2>1. n \in DOMAIN ThreadSeq /\ InOrder(cursor[n], ThreadSeq[n])
    BY <1>3 DEF CursorsOK, ExtTypes
  <2> QED BY <1>1, <2>1 DEF ThreadSeq, Ascending
<1> QED BY <1>1, <1>2, <1>3 DEF CursorsOK, ThreadSeq, Ascending


(* A cursor that does not move.                                            *)
LEMMA SameNarrows ==
  ASSUME NEW c \in CursorType, CursorOK(c)
  PROVE  Narrows(c, c)
BY DEF Narrows

(* A packet that went out stays one that no cursor has left to offer.      *)
LEMMA WrittenKept ==
  ASSUME ExtTypes, DOMAIN cursor' = DOMAIN cursor,
         \A n \in DOMAIN cursor : Narrows(cursor[n], cursor'[n]),
         NEW m, Written(out'[m])
  PROVE  Written(out[m])'
<1> DEFINE q == out'[m]
           i == q.id[1]
           k == q.id[2]
<1>1. /\ i \in DOMAIN file /\ k \in 1 .. Len(file[i].packets) /\ q = file[i].packets[k]
      /\ Wanted(i, k) /\ \A n \in DOMAIN cursor : ~Left(cursor[n], i, k)
  BY DEF Written
<1> HIDE DEF i, k
<1>2. i \in 1 .. Len(file) /\ i \in Nat \ {0} /\ Len(file[i].packets) \in Nat /\ k \in Nat \ {0}
  BY <1>1, FileTypes DEF ExtTypes, RecInv
<1>3. i \in DOMAIN file' /\ k \in 1 .. Len(file'[i].packets) /\ q = file'[i].packets[k]
  <2>1. FileGrows(file[i], file'[i]) /\ i \in DOMAIN file'
    BY <1>2 DEF ExtTypes, Grows, RecInv, RecordTypes
  <2>2. Len(file'[i].packets) \in Nat
    <3>1. file'[i] \in File
      BY <2>1 DEF ExtTypes, RecInv, RecordTypes
    <3> QED BY <3>1 DEF File
  <2> QED BY <1>1, <1>2, <2>1, <2>2 DEF FileGrows
<1>4. \A n \in DOMAIN cursor' : ~Left(cursor'[n], i, k)
  BY <1>1, <1>2 DEF Narrows
<1>5. PICK a, b : a = i /\ b = k
  OBVIOUS
<1>6. Wanted(a, b)'
  BY <1>1, <1>5, WantedSame DEF ExtTypes
<1> QED BY <1>3, <1>4, <1>5, <1>6 DEF Written, i, k, Wanted, Matches

(* The output, where nothing is added to it.                               *)
LEMMA OutKept ==
  ASSUME ExtTypes, OutOK, DOMAIN cursor' = DOMAIN cursor,
         \A n \in DOMAIN cursor : Narrows(cursor[n], cursor'[n]), out' = out
  PROVE  OutOK'
<1>1. ASSUME NEW m \in DOMAIN out' PROVE Written(out[m])'
  <2>1. Written(out'[m])
    BY DEF OutOK
  <2> QED BY <2>1, WrittenKept
<1> QED BY <1>1 DEF OutOK

(* The packet that a cursor has offered last stays a mark for all it has   *)
(* left.                                                                   *)
LEMMA MarkKept ==
  ASSUME ExtTypes, NEW n \in DOMAIN cursor, Narrows(cursor[n], cursor'[n]),
         NEW m, out'[m] = out[m],
         Spent(cursor[n]) \/ \E i, k \in Nat : Mark(n, m, i, k)
  PROVE  Spent(cursor'[n]) \/ \E i, k \in Nat : Mark(n, m, i, k)'
<1>1. CASE Spent(cursor[n])
  BY <1>1 DEF Narrows
<1>2. CASE \E i, k \in Nat : Mark(n, m, i, k)
  <2>1. PICK i \in Nat, k \in Nat : Mark(n, m, i, k)
    BY <1>2
  <2>2. i \in DOMAIN file /\ k \in 1 .. Len(file[i].packets)
    BY <2>1 DEF Mark
  <2>3. i \in 1 .. Len(file) /\ Len(file[i].packets) \in Nat
    BY <2>2, FileTypes DEF ExtTypes, RecInv
  <2>4. FileGrows(file[i], file'[i]) /\ i \in DOMAIN file'
    BY <2>3 DEF ExtTypes, Grows, RecInv, RecordTypes
  <2>5. Len(file'[i].packets) \in Nat
    <3>1. file'[i] \in File
      BY <2>4 DEF ExtTypes, RecInv, RecordTypes
    <3> QED BY <3>1 DEF File
  <2>6. \A j, l \in Nat \ {0} : Left(cursor'[n], j, l) => i < j \/ (i = j /\ k <= l)
    BY <2>1 DEF Mark, Narrows
  <2>7. Mark(n, m, i, k)'
    BY <2>1, <2>2, <2>3, <2>4, <2>5, <2>6 DEF Mark, FileGrows, ThreadSeq, Ascending
  <2> QED BY <2>7
<1> QED BY <1>1, <1>2

(* The marks, where nothing is added to the output.                        *)
LEMMA OrderKept ==
  ASSUME ExtTypes, OrderOK, DOMAIN cursor' = DOMAIN cursor,
         \A n \in DOMAIN cursor : Narrows(cursor[n], cursor'[n]), out' = out
  PROVE  OrderOK'
<1> SUFFICES ASSUME ~odd, NEW n \in DOMAIN cursor, NEW m \in DOMAIN out
             PROVE  Spent(cursor'[n]) \/ \E i, k \in Nat : Mark(n, m, i, k)'
  BY DEF OrderOK, ExtTypes
<1>1. Spent(cursor[n]) \/ \E i, k \in Nat : Mark(n, m, i, k)
  BY DEF OrderOK
<1> QED BY <1>1, MarkKept

(* Two packets that went out are in order or their thread explains it.     *)
Excused(q, ts) ==
  \E i \in FilesOf(q.thread), j \in FilesOf(q.thread) :
    \E k \in DOMAIN file[i].packets, l \in DOMAIN file[j].packets :
      /\ <<i, k>> # <<j, l>> /\ i <= j /\ (i = j => k < l)
      /\ file[i].packets[k].ts >= ts /\ file[j].packets[l] = q

(* TimeOrdered, now and after the step.                                    *)
LEMMA TimesMean ==
  /\ TimeOrdered <=> (~odd => \A m, n \in DOMAIN out :
       m < n /\ out[m].ts > out[n].ts => Excused(out[n], out[m].ts))
  /\ TimeOrdered' <=> (~odd' => \A m, n \in DOMAIN out' :
       m < n /\ out'[m].ts > out'[n].ts => Excused(out[n], out[m].ts)')
<1>1. TimeOrdered <=> (~odd => \A m, n \in DOMAIN out :
        m < n /\ out[m].ts > out[n].ts => Excused(out[n], out[m].ts))
  BY DEF TimeOrdered, Excused
<1>2. TimeOrdered' <=> (~odd' => \A m, n \in DOMAIN out' :
        m < n /\ out'[m].ts > out'[n].ts => Excused(out[n], out[m].ts)')
  BY DEF TimeOrdered, Excused
<1> QED BY <1>1, <1>2

(* What the sensor recorded out of order stays recorded so.                *)
LEMMA ExcuseStands ==
  ASSUME ExtTypes, NEW m, NEW n, out'[m] = out[m], out'[n] = out[n], Excused(out[n], out[m].ts)
  PROVE  Excused(out[n], out[m].ts)'
<1>1. PICK i \in FilesOf(out[n].thread), j \in FilesOf(out[n].thread) :
         \E k \in DOMAIN file[i].packets, l \in DOMAIN file[j].packets :
           /\ <<i, k>> # <<j, l>> /\ i <= j /\ (i = j => k < l)
           /\ file[i].packets[k].ts >= out[m].ts /\ file[j].packets[l] = out[n]
  BY DEF Excused
<1>2. PICK k \in DOMAIN file[i].packets, l \in DOMAIN file[j].packets :
           /\ <<i, k>> # <<j, l>> /\ i <= j /\ (i = j => k < l)
           /\ file[i].packets[k].ts >= out[m].ts /\ file[j].packets[l] = out[n]
  BY <1>1
<1>3. ASSUME NEW a \in FilesOf(out[n].thread), NEW b \in DOMAIN file[a].packets
      PROVE  a \in FilesOf(out[n].thread)' /\ b \in DOMAIN file'[a].packets
             /\ file'[a].packets[b] = file[a].packets[b]
  <2>1. a \in DOMAIN file /\ file[a].thread = out[n].thread
    BY DEF FilesOf
  <2>2. a \in 1 .. Len(file) /\ file[a].packets \in Seq(Pkt)
    BY <2>1, FileTypes DEF ExtTypes, RecInv
  <2>3. FileGrows(file[a], file'[a]) /\ a \in DOMAIN file'
    BY <2>2 DEF ExtTypes, Grows, RecInv, RecordTypes
  <2>4. file'[a].packets \in Seq(Pkt)
    <3>1. file'[a] \in File
      BY <2>3 DEF ExtTypes, RecInv, RecordTypes
    <3> QED BY <3>1 DEF File
  <2> QED BY <2>1, <2>2, <2>3, <2>4 DEF FileGrows, FilesOf
<1>4. /\ i \in FilesOf(out[n].thread)' /\ k \in DOMAIN file'[i].packets
      /\ j \in FilesOf(out[n].thread)' /\ l \in DOMAIN file'[j].packets
      /\ file'[i].packets[k].ts >= out'[m].ts /\ file'[j].packets[l] = out'[n]
  BY <1>2, <1>3
<1> QED BY <1>2, <1>4 DEF Excused

(* The order of the output, where nothing is added to it.                  *)
LEMMA TimesKept ==
  ASSUME ExtTypes, TimeOrdered, out' = out
  PROVE  TimeOrdered'
<1> SUFFICES ASSUME ~odd, NEW m \in DOMAIN out, NEW n \in DOMAIN out, m < n, out[m].ts > out[n].ts
             PROVE  Excused(out[n], out[m].ts)'
  BY TimesMean DEF ExtTypes
<1>1. Excused(out[n], out[m].ts)
  BY TimesMean
<1> QED BY <1>1, ExcuseStands


ExtInv == JobTypes /\ JobOK /\ CursorsOK /\ FillOK /\ OutOK /\ OrderOK /\ TimeOrdered

(* While the cursors narrow and nothing is written.                        *)
LEMMA NarrowedExtraction ==
  ASSUME RecInv, RecInv', Grows, SameRequest, ExtInv, odd' = odd, out' = out,
         cursor' \in Seq(CursorType), DOMAIN cursor' = DOMAIN cursor,
         \A n \in DOMAIN cursor : Narrows(cursor[n], cursor'[n])
  PROVE  CursorsOK' /\ OutOK' /\ OrderOK' /\ TimeOrdered'
<1>1. ExtTypes /\ CursorsOK /\ OutOK /\ OrderOK /\ TimeOrdered
  BY DEF ExtInv, ExtTypes
<1>2. CursorsOK'
  BY <1>1, NarrowedCursors
<1>3. OutOK'
  BY <1>1, OutKept
<1>4. OrderOK'
  BY <1>1, OrderKept
<1>5. TimeOrdered'
  BY <1>1, TimesKept
<1> QED BY <1>2, <1>3, <1>4, <1>5

(* Steps that move no cursor.                                              *)
LEMMA UnmovedCursors ==
  ASSUME JobTypes, CursorsOK, cursor' = cursor
  PROVE  /\ cursor' \in Seq(CursorType) /\ DOMAIN cursor' = DOMAIN cursor
         /\ \A n \in DOMAIN cursor : Narrows(cursor[n], cursor'[n])
<1>1. ASSUME NEW n \in DOMAIN cursor PROVE Narrows(cursor[n], cursor'[n])
  <2>1. cursor[n] \in CursorType /\ CursorOK(cursor[n])
    BY DEF JobTypes, CursorsOK
  <2> QED BY <2>1, SameNarrows
<1> QED BY <1>1 DEF JobTypes

(* The sensor and the purge do not touch the extraction.                   *)
LEMMA OutsideKeeps ==
  ASSUME RecInv, RecInv', Grows, ExtInv, UNCHANGED <<odd, job, cursor, at, stats, out, known>>
  PROVE  ExtInv'
<1>1. CursorsOK' /\ OutOK' /\ OrderOK' /\ TimeOrdered'
  <2>1. SameRequest /\ JobTypes /\ CursorsOK
    BY DEF SameRequest, ExtInv
  <2> QED BY <2>1, UnmovedCursors, NarrowedExtraction
<1>2. JobTypes' /\ FillOK'
  BY DEF ExtInv, JobTypes, FillOK
<1>3. JobOK'
  BY DEF ExtInv, JobOK, WindowOf, FreeForm, DeriveWindow, BadRequest, FilterOf, Mode
<1> QED BY <1>1, <1>2, <1>3 DEF ExtInv

(* An event's window has an end.                                           *)
LEMMA DerivedTypes ==
  ASSUME NEW e, e.ts \in Nat, {e.start, e.end} \subseteq Nat \cup {None}
  PROVE  DeriveWindow(e)[1] \in Nat /\ DeriveWindow(e)[2] \in Nat
<1>1. Minute \in Nat /\ Second \in Nat
  BY SpoolAssumption DEF Second
<1>2. \A a, b \in Nat : Before(a, b) \in Nat
  BY DEF Before
<1> QED BY <1>1, <1>2 DEF DeriveWindow

(* The window of a request that can be built.                              *)
LEMMA WindowTypes ==
  ASSUME NEW ask \in Asks, ~BadRequest(ask)
  PROVE  WindowOf(ask)[1] \in Nat /\ WindowOf(ask)[2] \in Nat \cup {None}
<1>1. AskOK(ask) /\ Minute \in Nat /\ Second \in Nat /\ None \notin Nat
  BY SpoolAssumption DEF Second
<1>2. \A a, b \in Nat : Before(a, b) \in Nat
  BY DEF Before
<1>3. \A v \in Nat \cup {None} : Span(v) \in Nat
  BY <1>1 DEF Span
<1>4. CASE Mode(ask) = "freeform"
  <2>1. ask.start \in Nat \cup {None}
    BY <1>1 DEF AskOK
  <2>2. Span(ask.duration) \in Nat
    BY <1>1, <1>3 DEF AskOK
  <2> QED BY <1>4, <2>1, <2>2 DEF WindowOf, FreeForm
<1>5. CASE Mode(ask) = "relative"
  <2>1. ask.event.ts \in Nat /\ Span(ask.before) \in Nat /\ Span(ask.after) \in Nat
    BY <1>1, <1>3, <1>5 DEF AskOK, BadRequest
  <2> QED BY <1>2, <1>5, <2>1 DEF WindowOf
<1>6. CASE Mode(ask) \notin {"freeform", "relative"}
  <2>1. ask.event.ts \in Nat /\ {ask.event.start, ask.event.end} \subseteq Nat \cup {None}
    BY <1>1, <1>6 DEF AskOK, BadRequest
  <2>2. WindowOf(ask) = DeriveWindow(ask.event)
    BY <1>6 DEF WindowOf
  <2> QED BY <2>1, <2>2, DerivedTypes
<1> QED BY <1>4, <1>5, <1>6

(* A request.                                                              *)
LEMMA StartKeeps ==
  ASSUME ExtInv, NEW ask \in Asks, Start(ask)
  PROVE  ExtInv'
<1> DEFINE refused == BadRequest(ask) \/ ask.aliases
<1>1. cursor = <<>> /\ out = <<>> /\ stats = NoStats /\ known = <<>>
  BY DEF ExtInv, JobOK, Start
<1>2. /\ UNCHANGED <<file, odd, cursor, at, stats, out, known>>
      /\ job' = [pc |-> IF refused THEN "over" ELSE "list", ask |-> ask,
                 start |-> IF refused THEN 0 ELSE WindowOf(ask)[1],
                 end |-> IF refused THEN 0 ELSE WindowOf(ask)[2],
                 result |-> IF refused THEN "refused" ELSE "none"]
  BY DEF Start, Idle
<1>3. ~refused => WindowOf(ask)[1] \in Nat /\ WindowOf(ask)[2] \in Nat \cup {None}
  BY WindowTypes
<1>4. JobTypes'
  BY <1>2, <1>3 DEF ExtInv, JobTypes
<1>5. JobOK'
  <2>1. CASE refused
    BY <1>1, <1>2, <2>1 DEF JobOK, NoStats
  <2>2. CASE ~refused
    <3>1. /\ job'.pc = "list" /\ job'.result = "none" /\ job'.ask = ask
          /\ job'.start = WindowOf(ask)[1] /\ job'.end = WindowOf(ask)[2]
      BY <1>2, <2>2
    <3> HIDE DEF refused
    <3> QED BY <1>1, <1>2, <2>2, <3>1
            DEF JobOK, NoStats, refused, BadRequest, WindowOf, FreeForm, DeriveWindow, FilterOf, Mode
  <2> QED BY <2>1, <2>2
<1>6. CursorsOK' /\ OutOK' /\ OrderOK' /\ TimeOrdered'
  BY <1>1, <1>2 DEF CursorsOK, OutOK, OrderOK, TimeOrdered
<1>7. FillOK'
  BY <1>1, <1>2 DEF FillOK
<1> QED BY <1>4, <1>5, <1>6, <1>7 DEF ExtInv


-----------------------------------------------------------------------------
(* The listing of the spool. *)

(* A set of files is finite.                                               *)
LEMMA FilesFinite ==
  ASSUME RecordTypes, NEW S \in SUBSET DOMAIN file
  PROVE  IsFiniteSet(S) /\ S \in SUBSET Nat
<1>1. DOMAIN file = 1 .. Len(file) /\ Len(file) \in Nat
  BY DEF RecordTypes
<1>2. IsFiniteSet(1 .. Len(file))
  BY <1>1, FS_Interval
<1> QED BY <1>1, <1>2, FS_Subset

(* A thread's directory listing.                                           *)
LEMMA ListedFiles ==
  ASSUME RecordTypes, NEW t
  PROVE  /\ Listed(t) \in Seq(Nat)
         /\ \A n \in 1 .. Len(Listed(t)) :
              Listed(t)[n] \in FilesOf(t) /\ file[Listed(t)[n]].there
         /\ \A i \in FilesOf(t) : file[i].there => \E n \in 1 .. Len(Listed(t)) : Listed(t)[n] = i
         /\ \A m, n \in 1 .. Len(Listed(t)) : m < n => Listed(t)[m] < Listed(t)[n]
<1> DEFINE S == {i \in FilesOf(t) : file[i].there}
<1>1. S \in SUBSET DOMAIN file
  BY DEF FilesOf
<1>2. IsFiniteSet(S) /\ S \in SUBSET Nat
  BY <1>1, FilesFinite
<1>3. Listed(t) = Ascending(S)
  BY DEF Listed
<1>4. \A i : i \in S <=> i \in FilesOf(t) /\ file[i].there
  OBVIOUS
<1> HIDE DEF S
<1>5. /\ Cardinality(S) \in Nat
      /\ Ascending(S) \in [1 .. Cardinality(S) -> S]
      /\ \A x \in S : \E n \in 1 .. Cardinality(S) : Ascending(S)[n] = x
      /\ \A m, n \in 1 .. Cardinality(S) : m < n => Ascending(S)[m] < Ascending(S)[n]
  BY <1>2, AscendingLists
<1>6. Listed(t) \in Seq(Nat) /\ Len(Listed(t)) = Cardinality(S)
  <2> DEFINE N == Cardinality(S)
  <2>1. Listed(t) \in [1 .. N -> Nat] /\ N \in Nat
    BY <1>2, <1>3, <1>5
  <2> HIDE DEF N
  <2> QED BY <2>1 DEF N
<1> QED BY <1>3, <1>4, <1>5, <1>6

(* Those that are kept, in the same order.                                 *)
LEMMA KeptFilesListed ==
  ASSUME NEW files \in Seq(Nat), \A m, n \in 1 .. Len(files) : m < n => files[m] < files[n]
  PROVE  /\ Kept(files) \in Seq(Nat)
         /\ \A n \in 1 .. Len(Kept(files)) : \E k \in 1 .. Len(files) : Kept(files)[n] = files[k]
         /\ \A k \in 1 .. Len(files) : ~Pruned(files, k)
              => \E n \in 1 .. Len(Kept(files)) : Kept(files)[n] = files[k]
         /\ \A m, n \in 1 .. Len(Kept(files)) : m < n => Kept(files)[m] < Kept(files)[n]
<1> DEFINE S == {k \in DOMAIN files : ~Pruned(files, k)}
           N == Cardinality(S)
<1>1. DOMAIN files = 1 .. Len(files) /\ Len(files) \in Nat
  OBVIOUS
<1>2. IsFiniteSet(S) /\ S \in SUBSET Nat /\ S \in SUBSET (1 .. Len(files))
  <2>1. IsFiniteSet(1 .. Len(files)) /\ S \in SUBSET (1 .. Len(files))
    BY <1>1, FS_Interval
  <2> QED BY <1>1, <2>1, FS_Subset
<1>3. Kept(files) = [n \in 1 .. N |-> files[Ascending(S)[n]]]
  BY DEF Kept
<1>4. \A k \in 1 .. Len(files) : ~Pruned(files, k) => k \in S
  BY <1>1
<1> HIDE DEF S
<1>5. /\ N \in Nat
      /\ Ascending(S) \in [1 .. N -> S]
      /\ \A x \in S : \E n \in 1 .. N : Ascending(S)[n] = x
      /\ \A m, n \in 1 .. N : m < n => Ascending(S)[m] < Ascending(S)[n]
  BY <1>2, AscendingLists
<1> HIDE DEF N
<1>6. ASSUME NEW n \in 1 .. N
      PROVE  /\ Ascending(S)[n] \in 1 .. Len(files) /\ Kept(files)[n] = files[Ascending(S)[n]]
             /\ Kept(files)[n] \in Nat
  <2>1. Ascending(S)[n] \in S
    BY <1>5
  <2>2. Ascending(S)[n] \in 1 .. Len(files)
    BY <1>2, <2>1
  <2>3. Kept(files)[n] = files[Ascending(S)[n]]
    BY <1>3
  <2> QED BY <1>1, <2>2, <2>3
<1>7. Kept(files) \in Seq(Nat) /\ Len(Kept(files)) = N
  <2>1. Kept(files) \in [1 .. N -> Nat]
    BY <1>3, <1>6
  <2> QED BY <1>5, <2>1
<1>8. \A k \in 1 .. Len(files) : ~Pruned(files, k) => \E n \in 1 .. N : Kept(files)[n] = files[k]
  <2> SUFFICES ASSUME NEW k \in 1 .. Len(files), ~Pruned(files, k)
               PROVE  \E n \in 1 .. N : Kept(files)[n] = files[k]
    OBVIOUS
  <2>1. PICK n \in 1 .. N : Ascending(S)[n] = k
    BY <1>4, <1>5
  <2> QED BY <1>6, <2>1
<1>9. \A m, n \in 1 .. N : m < n => Kept(files)[m] < Kept(files)[n]
  BY <1>5, <1>6
<1> QED BY <1>6, <1>7, <1>8, <1>9

(* Every capture thread has one file group.                                *)
LEMMA ThreadsListed ==
  /\ ThreadSeq \in Seq(Threads)
  /\ \A t \in Threads : \E n \in DOMAIN ThreadSeq : ThreadSeq[n] = t
  /\ \A m, n \in DOMAIN ThreadSeq : ThreadSeq[m] = ThreadSeq[n] => m = n
<1>1. Threads \in SUBSET Nat /\ IsFiniteSet(Threads)
  BY SpoolAssumption
<1> DEFINE N == Cardinality(Threads)
<1>2. /\ N \in Nat
      /\ ThreadSeq \in [1 .. N -> Threads]
      /\ \A x \in Threads : \E n \in 1 .. N : ThreadSeq[n] = x
      /\ \A m, n \in 1 .. N : m < n => ThreadSeq[m] < ThreadSeq[n]
  BY <1>1, AscendingLists DEF ThreadSeq
<1> HIDE DEF N
<1>3. DOMAIN ThreadSeq = 1 .. N /\ ThreadSeq \in Seq(Threads)
  BY <1>2
<1>4. ASSUME NEW m \in 1 .. N, NEW n \in 1 .. N, m < n PROVE ThreadSeq[m] # ThreadSeq[n]
  <2>1. ThreadSeq[m] \in Nat /\ ThreadSeq[n] \in Nat /\ ThreadSeq[m] < ThreadSeq[n]
    BY <1>1, <1>2, <1>4
  <2> QED BY <2>1
<1>5. \A m, n \in 1 .. N : ThreadSeq[m] = ThreadSeq[n] => m = n
  <2>1. \A m, n \in 1 .. N : m < n \/ n < m \/ m = n
    BY <1>2
  <2> QED BY <1>4, <2>1
<1> QED BY <1>2, <1>3, <1>5

(* The files of a directory with a name that cannot be parsed.             *)
LEMMA DirectoryListed ==
  ASSUME RecordTypes, NEW S \in SUBSET DOMAIN file
  PROVE  /\ SetToSeq(S) \in Seq(Nat)
         /\ \A n \in 1 .. Len(SetToSeq(S)) : SetToSeq(S)[n] \in S
         /\ \A i \in S : \E n \in 1 .. Len(SetToSeq(S)) : SetToSeq(S)[n] = i
         /\ \A m, n \in 1 .. Len(SetToSeq(S)) : SetToSeq(S)[m] = SetToSeq(S)[n] => m = n
<1> DEFINE N == Cardinality(S)
           f == SetToSeq(S)
<1>1. IsFiniteSet(S) /\ S \in SUBSET Nat
  BY FilesFinite
<1>2. N \in Nat /\ ExistsBijection(1 .. N, S)
  BY <1>1, FS_CardinalityType
<1>3. \E g \in [1 .. N -> S] : IsInjective(g)
  BY <1>2 DEF ExistsBijection, Bijection, Injection
<1>4. f \in [1 .. N -> S] /\ IsInjective(f)
  BY <1>3 DEF SetToSeq
<1> HIDE DEF f
<1>5. f \in Surjection(1 .. N, S)
  <2>1. IsFiniteSet(1 .. N) /\ Cardinality(1 .. N) = Cardinality(S)
    BY <1>2, FS_Interval
  <2>2. f \in Injection(1 .. N, S)
    BY <1>4 DEF Injection
  <2> QED BY <1>1, <2>1, <2>2, FS_Injection
<1> HIDE DEF N
<1>6. \A i \in S : \E n \in 1 .. N : f[n] = i
  BY <1>5 DEF Surjection
<1>7. \A m, n \in 1 .. N : f[m] = f[n] => m = n
  BY <1>4 DEF IsInjective
<1>8. f \in Seq(Nat) /\ Len(f) = N
  BY <1>1, <1>2, <1>4
<1> QED BY <1>4, <1>6, <1>7, <1>8 DEF f


(* The cursors as listing makes them: one per thread with the files that   *)
(* were not pruned in order, or a single one over the whole directory.     *)
Fresh(c) ==
  /\ c \in CursorType /\ c = Cursor(c.files)
  /\ \A m \in DOMAIN c.files : c.files[m] \in DOMAIN file
  /\ \A m, n \in DOMAIN c.files : c.files[m] = c.files[n] => m = n

FreshInOrder(c, t) ==
  /\ \A m, n \in DOMAIN c.files : m < n => c.files[m] < c.files[n]
  /\ \A m \in DOMAIN c.files : file[c.files[m]].thread = t

ListedOrPruned(i) ==
  \/ \E n \in DOMAIN cursor' : In(i, cursor'[n].files)
  \/ ~odd /\ \E k \in 1 .. Len(Listed(file[i].thread)) :
                Listed(file[i].thread)[k] = i /\ Pruned(Listed(file[i].thread), k)

(* A new cursor, as a record.                                              *)
LEMMA FreshCursor ==
  ASSUME NEW fs \in Seq(Nat)
  PROVE  /\ Cursor(fs) \in CursorType /\ Cursor(fs).files = fs
         /\ Cursor(Cursor(fs).files) = Cursor(fs)
BY DEF Cursor, CursorType

(* load_files, by thread: every file that is there is in a cursor or was   *)
(* pruned by name.                                                         *)
LEMMA ThreadCursors ==
  ASSUME RecInv, List, ~odd
  PROVE  /\ cursor' \in Seq(CursorType) /\ DOMAIN cursor' = DOMAIN ThreadSeq
         /\ \A n \in DOMAIN cursor' : Fresh(cursor'[n]) /\ FreshInOrder(cursor'[n], ThreadSeq[n])
         /\ \A i \in DOMAIN file : file[i].there => ListedOrPruned(i)
<1> DEFINE L(n) == Listed(ThreadSeq[n])
           F(n) == Kept(L(n))
<1>1. cursor' = [n \in DOMAIN ThreadSeq |-> Cursor(F(n))]
  BY DEF List
<1>2. ASSUME NEW n \in DOMAIN ThreadSeq
      PROVE  /\ L(n) \in Seq(Nat)
             /\ \A k \in 1 .. Len(L(n)) : L(n)[k] \in DOMAIN file /\ file[L(n)[k]].thread = ThreadSeq[n]
             /\ \A k, l \in 1 .. Len(L(n)) : k < l => L(n)[k] < L(n)[l]
  BY ListedFiles DEF RecInv, FilesOf
<1> HIDE DEF L
<1>3. ASSUME NEW n \in DOMAIN ThreadSeq
      PROVE  /\ F(n) \in Seq(Nat)
             /\ \A k \in 1 .. Len(F(n)) : F(n)[k] \in DOMAIN file /\ file[F(n)[k]].thread = ThreadSeq[n]
             /\ \A k, l \in 1 .. Len(F(n)) : k < l => F(n)[k] < F(n)[l]
             /\ \A k \in 1 .. Len(L(n)) : ~Pruned(L(n), k) => In(L(n)[k], F(n))
  <2>1. /\ F(n) \in Seq(Nat)
        /\ \A m \in 1 .. Len(F(n)) : \E k \in 1 .. Len(L(n)) : F(n)[m] = L(n)[k]
        /\ \A k \in 1 .. Len(L(n)) : ~Pruned(L(n), k) => \E m \in 1 .. Len(F(n)) : F(n)[m] = L(n)[k]
        /\ \A k, l \in 1 .. Len(F(n)) : k < l => F(n)[k] < F(n)[l]
    BY <1>2, KeptFilesListed
  <2> HIDE DEF F
  <2>2. DOMAIN F(n) = 1 .. Len(F(n))
    BY <2>1
  <2>3. \A k \in 1 .. Len(F(n)) : F(n)[k] \in DOMAIN file /\ file[F(n)[k]].thread = ThreadSeq[n]
    <3> TAKE m \in 1 .. Len(F(n))
    <3>1. PICK k \in 1 .. Len(L(n)) : F(n)[m] = L(n)[k]
      BY <2>1
    <3> QED BY <1>2, <3>1
  <2>4. \A k \in 1 .. Len(L(n)) : ~Pruned(L(n), k) => In(L(n)[k], F(n))
    BY <2>1, <2>2 DEF In
  <2> QED BY <2>1, <2>3, <2>4
<1> HIDE DEF F
<1>4. DOMAIN ThreadSeq = 1 .. Len(ThreadSeq) /\ Len(ThreadSeq) \in Nat
  BY ThreadsListed
<1>5. ASSUME NEW n \in DOMAIN ThreadSeq
      PROVE  cursor'[n] = Cursor(F(n)) /\ cursor'[n].files = F(n) /\ cursor'[n] \in CursorType
             /\ cursor'[n] = Cursor(cursor'[n].files)
  BY <1>1, <1>3, FreshCursor
<1>6. cursor' \in Seq(CursorType) /\ DOMAIN cursor' = DOMAIN ThreadSeq
  <2>1. cursor' \in [1 .. Len(ThreadSeq) -> CursorType]
    BY <1>1, <1>4, <1>5
  <2> QED BY <1>4, <2>1
<1>7. ASSUME NEW n \in DOMAIN ThreadSeq PROVE Fresh(cursor'[n]) /\ FreshInOrder(cursor'[n], ThreadSeq[n])
  <2>1. DOMAIN F(n) = 1 .. Len(F(n)) /\ Len(F(n)) \in Nat
    BY <1>3
  <2>2. ASSUME NEW k \in 1 .. Len(F(n)), NEW l \in 1 .. Len(F(n)), F(n)[k] = F(n)[l] PROVE k = l
    <3>1. F(n)[k] \in Nat /\ F(n)[l] \in Nat
      BY <1>3
    <3> QED BY <1>3, <2>1, <2>2, <3>1
  <2> QED BY <1>3, <1>5, <2>1, <2>2 DEF Fresh, FreshInOrder
<1>8. ASSUME NEW i \in DOMAIN file, file[i].there PROVE ListedOrPruned(i)
  <2>1. file[i].thread \in Threads /\ i \in FilesOf(file[i].thread)
    BY FileTypes DEF RecInv, FilesOf
  <2>2. PICK n \in DOMAIN ThreadSeq : ThreadSeq[n] = file[i].thread
    BY <2>1, ThreadsListed
  <2>3. L(n) = Listed(file[i].thread)
    BY <2>2 DEF L
  <2>4. PICK k \in 1 .. Len(L(n)) : L(n)[k] = i
    BY <1>8, <2>1, <2>3, ListedFiles DEF RecInv
  <2> QED BY <1>3, <1>5, <1>6, <2>3, <2>4 DEF ListedOrPruned
<1> QED BY <1>6, <1>7, <1>8

(* load_files, over a directory with a name that cannot be parsed: every   *)
(* file that is there is in the one cursor.                                *)
LEMMA DirectoryCursor ==
  ASSUME RecInv, List, odd
  PROVE  /\ cursor' \in Seq(CursorType) /\ DOMAIN cursor' = {1} /\ Fresh(cursor'[1])
         /\ \A i \in DOMAIN file : file[i].there => ListedOrPruned(i)
<1> DEFINE S == {i \in DOMAIN file : file[i].there}
           fs == SetToSeq(S)
<1>1. cursor' = <<Cursor(fs)>>
  BY DEF List
<1>2. \A i : i \in S <=> i \in DOMAIN file /\ file[i].there
  OBVIOUS
<1> HIDE DEF S
<1>3. /\ fs \in Seq(Nat)
      /\ \A n \in 1 .. Len(fs) : fs[n] \in S
      /\ \A i \in S : \E n \in 1 .. Len(fs) : fs[n] = i
      /\ \A m, n \in 1 .. Len(fs) : fs[m] = fs[n] => m = n
  <2>1. S \in SUBSET DOMAIN file
    BY <1>2
  <2> QED BY <2>1, DirectoryListed DEF RecInv
<1> HIDE DEF fs
<1>4. DOMAIN fs = 1 .. Len(fs)
  BY <1>3
<1>5. Cursor(fs) \in CursorType /\ Cursor(fs).files = fs /\ Cursor(Cursor(fs).files) = Cursor(fs)
  BY <1>3, FreshCursor
<1>6. cursor' \in Seq(CursorType) /\ DOMAIN cursor' = {1} /\ cursor'[1] = Cursor(fs)
  BY <1>1, <1>5
<1> QED BY <1>2, <1>3, <1>4, <1>5, <1>6 DEF Fresh, ListedOrPruned, In

(* A new cursor has nothing open and nothing pending.                      *)
LEMMA FreshOK ==
  ASSUME RecInv, NEW c, Fresh(c)
  PROVE  /\ CursorOK(c) /\ c.open = 0 /\ c.pending = 0
         /\ \A t : FreshInOrder(c, t) => InOrder(c, t)
<1>1. c.open = 0 /\ c.pending = 0
  BY DEF Fresh, Cursor
<1>2. \A m \in DOMAIN c.files : c.files[m] \in Nat \ {0}
  BY FileTypes DEF Fresh, RecInv
<1> QED BY <1>1, <1>2 DEF Fresh, CursorOK, FreshInOrder, InOrder

(* List: the new cursors share no file.                                    *)
LEMMA ListKeeps ==
  ASSUME RecInv, RecInv', ExtInv, List
  PROVE  ExtInv'
<1>1. /\ file' = file /\ odd' = odd /\ out' = out /\ stats' = stats /\ at' = 1 /\ job.pc = "list"
      /\ out = <<>> /\ stats = NoStats
  BY DEF List, ExtInv, JobOK
<1>2. /\ cursor' \in Seq(CursorType) /\ \A n \in DOMAIN cursor' : Fresh(cursor'[n])
      /\ odd => DOMAIN cursor' = {1}
      /\ ~odd => \A n \in DOMAIN cursor' : n \in DOMAIN ThreadSeq /\ FreshInOrder(cursor'[n], ThreadSeq[n])
  BY ThreadCursors, DirectoryCursor DEF ExtInv, JobTypes
<1>3. /\ job'.ask = job.ask /\ job'.start = job.start /\ job'.end = job.end
      /\ job' \in [pc : {"idle", "list", "fill", "refill", "merge", "over"}, ask : Asks \cup {None},
                   start : Nat, end : Nat \cup {None}, result : {"none", "no-candidate-files"}]
      /\ job'.pc \in {"fill", "over"} /\ (job'.pc # "over" => job'.result = "none")
      /\ job'.pc = "fill" => \E n \in DOMAIN cursor' : cursor'[n].files # <<>>
  <2> DEFINE A == \A n \in DOMAIN cursor' : cursor'[n].files = <<>>
             over == [job EXCEPT !.pc = "over", !.result = "no-candidate-files"]
             fill == [job EXCEPT !.pc = "fill"]
  <2>1. job.pc = "list" /\ job.result = "none"
    BY DEF List, ExtInv, JobOK
  <2>2. job \in [pc : {"idle", "list", "fill", "refill", "merge", "over"}, ask : Asks \cup {None},
                start : Nat, end : Nat \cup {None}, result : {"none", "refused", "no-candidate-files", "io",
                  "truncated", "cancelled", "ok", "format", "no-match"}]
    BY DEF ExtInv, JobTypes
  <2>3. job' = IF A THEN over ELSE fill
    BY Zenon DEF List
  <2>4. job' = over \/ (job' = fill /\ ~A)
    <3> HIDE DEF A, over, fill
    <3> QED BY <2>3
  <2>5. CASE job' = over
    BY <2>1, <2>2, <2>5
  <2>6. CASE job' = fill /\ ~A
    BY <2>1, <2>2, <2>6
  <2> QED BY <2>4, <2>5, <2>6
<1>4. JobTypes'
  BY <1>1, <1>2, <1>3 DEF ExtInv, JobTypes
<1>5. JobOK'
  <2>1. /\ job.ask \in Asks /\ ~BadRequest(job.ask)
        /\ job.start = WindowOf(job.ask)[1] /\ job.end = WindowOf(job.ask)[2]
    BY <1>1 DEF ExtInv, JobOK
  <2>2. job'.ask \in Asks /\ ~BadRequest(job.ask)' /\ job'.start = WindowOf(job.ask)'[1]
        /\ job'.end = WindowOf(job.ask)'[2]
    BY <1>3, <2>1 DEF BadRequest, BadEvent, WindowOf, FreeForm, DeriveWindow, FilterOf, Mode
  <2> QED BY <1>3, <2>2 DEF JobOK
<1>6. ASSUME NEW n \in DOMAIN cursor'
      PROVE  /\ CursorOK(cursor[n])' /\ cursor'[n].open = 0 /\ cursor'[n].pending = 0
             /\ \A t : FreshInOrder(cursor'[n], t) => InOrder(cursor[n], t)'
  <2>1. /\ CursorOK(cursor'[n]) /\ cursor'[n].open = 0 /\ cursor'[n].pending = 0
        /\ \A t : FreshInOrder(cursor'[n], t) => InOrder(cursor'[n], t)
    BY <1>2, FreshOK
  <2>2. Grows /\ SameRequest /\ cursor'[n] \in CursorType
    <3>1. UNCHANGED <<clock, file>>
      BY DEF List
    <3> QED BY <1>2, <1>3, <3>1, OthersKeep DEF SameRequest
  <2>3. CursorOK(cursor[n])' /\ \A t : InOrder(cursor'[n], t) => InOrder(cursor[n], t)'
    BY <2>1, <2>2, CursorKept
  <2> QED BY <2>1, <2>3
<1>7. CursorsOK'
  <2>1. ASSUME NEW m \in DOMAIN cursor', NEW n \in DOMAIN cursor', NEW j \in Nat \ {0},
               Has(cursor'[m], j), Has(cursor'[n], j)
        PROVE  m = n
    <3>1. CASE odd
      BY <1>2, <3>1
    <3>2. CASE ~odd
      <4>1. In(j, cursor'[m].files) /\ In(j, cursor'[n].files)
        BY <1>6, <2>1 DEF Has
      <4>2. file[j].thread = ThreadSeq[m] /\ file[j].thread = ThreadSeq[n]
        BY <1>2, <3>2, <4>1 DEF In, FreshInOrder
      <4> QED BY <1>2, <3>2, <4>2, ThreadsListed
    <3> QED BY <3>1, <3>2
  <2>2. ASSUME ~odd', NEW n \in DOMAIN cursor'
        PROVE  n \in DOMAIN ThreadSeq' /\ InOrder(cursor[n], ThreadSeq[n])'
    BY <1>1, <1>2, <1>6, <2>2 DEF ThreadSeq, Ascending
  <2> QED BY <1>6, <2>1, <2>2 DEF CursorsOK
<1>8. FillOK'
  <2>1. job'.pc = "fill" => at' \in DOMAIN cursor'
    BY <1>1, <1>2, <1>3
  <2>2. job'.pc = "fill" => \A n \in DOMAIN cursor' : ~(n < at') /\ cursor'[n].pending = 0
    BY <1>1, <1>2, <1>6
  <2> QED BY <1>3, <2>1, <2>2 DEF FillOK
<1>9. OutOK' /\ OrderOK' /\ TimeOrdered'
  BY <1>1 DEF OutOK, OrderOK, TimeOrdered
<1> QED BY <1>4, <1>5, <1>7, <1>8, <1>9 DEF ExtInv


-----------------------------------------------------------------------------
(* The steps of an extraction. *)

(* A file is opened, or passed over (o = 0).                               *)
LEMMA OpenNarrows ==
  ASSUME RecInv, NEW c \in CursorType, CursorOK(c), c.open = 0, c.pending = 0, c.files # <<>>,
         NEW o \in {0, Head(c.files)}, NEW d,
         d = [files |-> Tail(c.files), open |-> o, pos |-> 0, pending |-> 0]
  PROVE  Narrows(c, d)
<1> DEFINE s == c.files
<1>1. s \in Seq(Nat) /\ s # <<>> /\ DOMAIN s = 1 .. Len(s) /\ Len(s) \in Nat
  BY DEF CursorType
<1>2. /\ Tail(s) \in Seq(Nat) /\ Len(Tail(s)) = Len(s) - 1 /\ DOMAIN Tail(s) = 1 .. Len(s) - 1
      /\ \A m \in 1 .. Len(s) - 1 : Tail(s)[m] = s[m + 1] /\ m + 1 \in 1 .. Len(s)
      /\ Head(s) = s[1] /\ 1 \in 1 .. Len(s)
  BY <1>1
<1>3. \A m \in 1 .. Len(s) : /\ s[m] \in DOMAIN file /\ s[m] \in Nat \ {0}
                             /\ Len(file[s[m]].packets) \in Nat
  BY <1>1, FileTypes DEF CursorOK, RecInv
<1>4. \A m, n \in 1 .. Len(s) : s[m] = s[n] => m = n
  BY <1>1 DEF CursorOK
<1> DEFINE r == Tail(s)
<1> HIDE DEF r
<1>5. /\ r \in Seq(Nat) /\ DOMAIN r = 1 .. Len(s) - 1
      /\ \A m \in 1 .. Len(s) - 1 : r[m] = s[m + 1] /\ m + 1 \in 1 .. Len(s)
      /\ d = [files |-> r, open |-> o, pos |-> 0, pending |-> 0]
      /\ 1 \in 1 .. Len(s) /\ Len(s) \in Nat
  BY <1>1, <1>2 DEF r
<1>6. o \in Nat /\ (o # 0 => o = s[1])
  BY <1>2, <1>3
<1> HIDE DEF s
<1>7. d \in CursorType /\ d.files = r /\ d.open = o /\ d.pos = 0 /\ d.pending = 0
  BY <1>5, <1>6 DEF CursorType
<1>8. CursorOK(d)
  <2>1. \A m \in DOMAIN r : r[m] \in DOMAIN file
    BY <1>3, <1>5
  <2>2. \A m, n \in DOMAIN r : r[m] = r[n] => m = n
    <3> TAKE m, n \in DOMAIN r
    <3>1. m \in 1 .. Len(s) - 1 /\ n \in 1 .. Len(s) - 1
      BY <1>5
    <3>2. /\ r[m] = s[m + 1] /\ m + 1 \in 1 .. Len(s)
          /\ r[n] = s[n + 1] /\ n + 1 \in 1 .. Len(s)
      BY <1>5, <3>1
    <3>3. r[m] = r[n] => m + 1 = n + 1
      BY <1>4, <3>2
    <3> QED BY <3>1, <3>3
  <2>3. ASSUME o # 0 PROVE o \in DOMAIN file /\ ~In(o, r) /\ 0 <= Len(file[o].packets)
    <3>1. o = s[1] /\ 1 \in 1 .. Len(s)
      BY <1>1, <1>2, <1>6, <2>3 DEF s
    <3>2. \A m \in DOMAIN r : r[m] # s[1]
      <4> TAKE m \in DOMAIN r
      <4>1. m \in 1 .. Len(s) - 1 /\ m + 1 \in 1 .. Len(s) /\ m + 1 # 1
        BY <1>5
      <4> QED BY <1>4, <1>5, <3>1, <4>1
    <3> QED BY <1>3, <3>1, <3>2 DEF In
  <2> QED BY <1>7, <2>1, <2>2, <2>3 DEF CursorOK
<1>9. \A j \in Nat : In(j, r) => In(j, s)
  BY <1>1, <1>5 DEF In, s
<1>10. o # 0 => In(o, s)
  BY <1>1, <1>2, <1>6 DEF In, s
<1>11. ASSUME NEW j \in Nat \ {0} PROVE Has(d, j) => Has(c, j)
  BY <1>7, <1>9, <1>10 DEF Has, s
<1>12. ASSUME NEW j \in Nat \ {0}, NEW l \in Nat \ {0} PROVE Left(d, j, l) => Left(c, j, l)
  BY <1>7, <1>9, <1>10 DEF Left, s
<1>13. ~Spent(c)
  BY DEF Spent
<1>14. ASSUME NEW t, InOrder(c, t) PROVE InOrder(d, t)
  <2>1. /\ \A m, n \in 1 .. Len(s) : m < n => s[m] < s[n]
        /\ \A m \in 1 .. Len(s) : 0 < s[m] /\ file[s[m]].thread = t
    BY <1>1, <1>14 DEF InOrder, s
  <2>2. \A m, n \in DOMAIN r : m < n => r[m] < r[n]
    <3> SUFFICES ASSUME NEW m \in DOMAIN r, NEW n \in DOMAIN r, m < n PROVE r[m] < r[n]
      OBVIOUS
    <3>1. m + 1 < n + 1 /\ m + 1 \in 1 .. Len(s) /\ n + 1 \in 1 .. Len(s)
      BY <1>5
    <3>2. r[m] = s[m + 1] /\ r[n] = s[n + 1]
      BY <1>5
    <3> QED BY <2>1, <3>1, <3>2
  <2>3. \A m \in DOMAIN r : o < r[m] /\ file[r[m]].thread = t
    <3> TAKE m \in DOMAIN r
    <3>1. 1 < m + 1 /\ m + 1 \in 1 .. Len(s) /\ 1 \in 1 .. Len(s) /\ r[m] = s[m + 1]
      BY <1>5
    <3> QED BY <1>6, <2>1, <3>1
  <2>4. o # 0 => file[o].thread = t
    BY <1>1, <1>2, <1>6, <2>1 DEF s
  <2> QED BY <1>7, <2>2, <2>3, <2>4 DEF InOrder
<1> QED BY <1>7, <1>8, <1>11, <1>12, <1>13, <1>14 DEF Narrows

(* The next wanted packet of the open file becomes pending.                *)
LEMMA ReadNarrows ==
  ASSUME RecInv, NEW c \in CursorType, CursorOK(c), c.open # 0,
         NEW k \in c.pos + 1 .. Len(file[c.open].packets), Wanted(c.open, k), NEW d,
         d = [files |-> c.files, open |-> c.open, pos |-> k, pending |-> k]
  PROVE  Narrows(c, d)
<1>1. /\ c.files \in Seq(Nat) /\ c.open \in Nat /\ c.pos \in Nat /\ c.pending \in Nat
      /\ Len(file[c.open].packets) \in Nat
  BY FileTypes DEF CursorType, CursorOK, RecInv
<1>2. k \in Nat /\ c.pos < k /\ k <= Len(file[c.open].packets)
  BY <1>1
<1>3. d \in CursorType /\ d.files = c.files /\ d.open = c.open /\ d.pos = k /\ d.pending = k
  BY <1>1, <1>2 DEF CursorType
<1>4. CursorOK(d)
  BY <1>2, <1>3 DEF CursorOK
<1>5. \A j, l \in Nat \ {0} : Left(d, j, l) => Left(c, j, l)
  BY <1>1, <1>2, <1>3 DEF Left
<1> QED BY <1>3, <1>4, <1>5 DEF Narrows, Has, Spent, InOrder

(* The open file is done with, or left.                                    *)
LEMMA CloseNarrows ==
  ASSUME RecInv, NEW c \in CursorType, CursorOK(c), NEW d,
         d = [files |-> c.files, open |-> 0, pos |-> c.pos, pending |-> 0]
  PROVE  Narrows(c, d)
<1>1. /\ c.files \in Seq(Nat) /\ c.open \in Nat /\ c.pos \in Nat /\ c.pending \in Nat
  BY DEF CursorType
<1>2. d \in CursorType /\ d.files = c.files /\ d.open = 0 /\ d.pos = c.pos /\ d.pending = 0
  BY <1>1 DEF CursorType
<1>3. CursorOK(d)
  BY <1>2 DEF CursorOK
<1>4. \A j, l \in Nat \ {0} : Left(d, j, l) => Left(c, j, l)
  BY <1>1, <1>2 DEF Left
<1>5. \A m \in DOMAIN c.files : 0 < c.files[m]
  BY FileTypes DEF CursorOK, RecInv
<1>6. ASSUME NEW t, InOrder(c, t) PROVE InOrder(d, t)
  BY <1>2, <1>5, <1>6 DEF InOrder
<1> QED BY <1>2, <1>3, <1>4, <1>6 DEF Narrows, Has, Spent

(* The pending packet goes out.                                            *)
LEMMA TakeNarrows ==
  ASSUME RecInv, NEW c \in CursorType, CursorOK(c), NEW d,
         d = [files |-> c.files, open |-> c.open, pos |-> c.pos, pending |-> 0]
  PROVE  Narrows(c, d)
<1>1. /\ c.files \in Seq(Nat) /\ c.open \in Nat /\ c.pos \in Nat /\ c.pending \in Nat
  BY DEF CursorType
<1>2. d \in CursorType /\ d.files = c.files /\ d.open = c.open /\ d.pos = c.pos /\ d.pending = 0
  BY <1>1 DEF CursorType
<1>3. CursorOK(d)
  BY <1>2 DEF CursorOK
<1>4. \A j, l \in Nat \ {0} : Left(d, j, l) => Left(c, j, l)
  BY <1>1, <1>2 DEF Left
<1> QED BY <1>2, <1>3, <1>4 DEF Narrows, Has, Spent, InOrder

(* One cursor moves.                                                       *)
LEMMA MovedCursor ==
  ASSUME JobTypes, CursorsOK, NEW n \in DOMAIN cursor, NEW d, Narrows(cursor[n], d),
         cursor' = [cursor EXCEPT ![n] = d]
  PROVE  /\ cursor' \in Seq(CursorType) /\ DOMAIN cursor' = DOMAIN cursor
         /\ cursor'[n] = d /\ \A m \in DOMAIN cursor : m # n => cursor'[m] = cursor[m]
         /\ \A m \in DOMAIN cursor : Narrows(cursor[m], cursor'[m])
<1>1. cursor \in Seq(CursorType) /\ d \in CursorType
  BY DEF JobTypes, Narrows
<1>2. /\ cursor' \in Seq(CursorType) /\ DOMAIN cursor' = DOMAIN cursor
      /\ cursor'[n] = d /\ \A m \in DOMAIN cursor : m # n => cursor'[m] = cursor[m]
  BY <1>1
<1>3. ASSUME NEW m \in DOMAIN cursor PROVE Narrows(cursor[m], cursor'[m])
  <2>1. CASE m = n
    BY <1>2, <2>1
  <2>2. CASE m # n
    <3>1. cursor[m] \in CursorType /\ CursorOK(cursor[m])
      BY <1>1 DEF CursorsOK
    <3>2. Narrows(cursor[m], cursor[m])
      BY <3>1, SameNarrows
    <3> QED BY <1>2, <2>2, <3>2
  <2> QED BY <2>1, <2>2
<1> QED BY <1>2, <1>3

(* The request and its window do not change while packets are read.        *)
LEMMA JobKept ==
  ASSUME JobOK, Reading, SameRequest, job'.pc \in {"fill", "refill", "merge", "over"},
         job'.result # "refused", job'.pc # "over" => job'.result = "none"
  PROVE  JobOK'
<1>1. /\ job.ask \in Asks /\ ~BadRequest(job.ask)
      /\ job.start = WindowOf(job.ask)[1] /\ job.end = WindowOf(job.ask)[2]
  BY DEF JobOK, Reading
<1>2. job'.ask \in Asks /\ ~BadRequest(job.ask)' /\ job'.start = WindowOf(job.ask)'[1]
      /\ job'.end = WindowOf(job.ask)'[2]
  BY <1>1 DEF SameRequest, BadRequest, BadEvent, WindowOf, FreeForm, DeriveWindow, FilterOf, Mode
<1> QED BY <1>2 DEF JobOK


(* The edits of a cursor, as records.                                      *)
LEMMA OpenedCursor ==
  ASSUME NEW c \in CursorType, NEW f, NEW o
  PROVE  [c EXCEPT !.files = f, !.pos = 0, !.open = o]
           = [files |-> f, open |-> o, pos |-> 0, pending |-> c.pending]
<1> DEFINE a == [c EXCEPT !.files = f, !.pos = 0, !.open = o]
           b == [files |-> f, open |-> o, pos |-> 0, pending |-> c.pending]
<1>1. DOMAIN a = DOMAIN b /\ DOMAIN a = {"files", "open", "pos", "pending"}
  BY DEF CursorType
<1>2. a.files = b.files /\ a.open = b.open /\ a.pos = b.pos /\ a.pending = b.pending
  BY DEF CursorType
<1>3. a = [x \in DOMAIN a |-> a[x]] /\ b = [x \in DOMAIN b |-> b[x]]
  BY DEF CursorType
<1> HIDE DEF a, b
<1>4. a = b
  BY <1>1, <1>2, <1>3
<1> QED BY <1>4 DEF a, b

(* The edit ReadPacket makes of a cursor.                                  *)
LEMMA ReadCursor ==
  ASSUME NEW c \in CursorType, NEW p
  PROVE  [c EXCEPT !.pos = p, !.pending = p]
           = [files |-> c.files, open |-> c.open, pos |-> p, pending |-> p]
<1> DEFINE a == [c EXCEPT !.pos = p, !.pending = p]
           b == [files |-> c.files, open |-> c.open, pos |-> p, pending |-> p]
<1>1. DOMAIN a = DOMAIN b /\ DOMAIN a = {"files", "open", "pos", "pending"}
  BY DEF CursorType
<1>2. a.files = b.files /\ a.open = b.open /\ a.pos = b.pos /\ a.pending = b.pending
  BY DEF CursorType
<1>3. a = [x \in DOMAIN a |-> a[x]] /\ b = [x \in DOMAIN b |-> b[x]]
  BY DEF CursorType
<1> HIDE DEF a, b
<1>4. a = b
  BY <1>1, <1>2, <1>3
<1> QED BY <1>4 DEF a, b

(* The cursor being refilled.                                              *)
LEMMA FilledCursor ==
  ASSUME ExtInv, Filling
  PROVE  /\ at \in DOMAIN cursor /\ cursor[at] \in CursorType /\ CursorOK(cursor[at])
         /\ cursor[at].pending = 0 /\ Reading /\ at \in Nat /\ Len(cursor) \in Nat
         /\ DOMAIN cursor = 1 .. Len(cursor) /\ job.result = "none" /\ job.result # "ok"
<1>1. at \in DOMAIN cursor /\ cursor \in Seq(CursorType) /\ at \in Nat /\ Reading /\ job.result = "none"
  BY DEF ExtInv, FillOK, JobTypes, JobOK, Filling, Reading
<1>2. cursor[at].pending = 0
  BY <1>1 DEF ExtInv, FillOK, Filling
<1> QED BY <1>1, <1>2 DEF ExtInv, CursorsOK

(* Going to the next cursor, or on to the merge.                           *)
LEMMA RefilledKeeps ==
  ASSUME ExtInv, Filling, Refilled, DOMAIN cursor' = DOMAIN cursor, cursor' \in Seq(CursorType),
         Settled(cursor'[at]), \A m \in DOMAIN cursor : m # at => cursor'[m] = cursor[m],
         stats' = stats, out' = out, odd' = odd
  PROVE  SameRequest /\ JobTypes' /\ (SameRequest => JobOK') /\ FillOK'
<1>1. /\ at \in DOMAIN cursor /\ at \in Nat /\ Len(cursor) \in Nat /\ DOMAIN cursor = 1 .. Len(cursor)
      /\ Reading /\ job.result = "none" /\ job.pc \in {"fill", "refill"}
  BY FilledCursor DEF Filling
<1>2. job \in [pc : {"idle", "list", "fill", "refill", "merge", "over"}, ask : Asks \cup {None},
               start : Nat, end : Nat \cup {None}, result : {"none", "refused", "no-candidate-files", "io",
                 "truncated", "cancelled", "ok", "format", "no-match"}]
  BY DEF ExtInv, JobTypes
<1>3. CASE job.pc = "fill" /\ at < Len(cursor)
  <2>1. at' = at + 1 /\ job' = job
    BY <1>3 DEF Refilled
  <2>2. SameRequest
    BY <2>1 DEF SameRequest
  <2>3. JobTypes'
    BY <1>1, <2>1 DEF ExtInv, JobTypes
  <2>4. JobOK'
    BY <1>1, <1>3, <2>1, <2>2, JobKept DEF ExtInv
  <2>5. at' \in DOMAIN cursor'
    BY <1>1, <1>3, <2>1
  <2>6. \A n \in DOMAIN cursor' : IF n < at' THEN Settled(cursor'[n]) ELSE cursor'[n].pending = 0
    <3> TAKE n \in DOMAIN cursor'
    <3>1. IF n < at THEN Settled(cursor[n]) ELSE cursor[n].pending = 0
      BY <1>3 DEF ExtInv, FillOK
    <3>2. CASE n = at
      BY <1>1, <2>1, <3>2
    <3>3. CASE n # at
      <4>1. n \in Nat /\ cursor'[n] = cursor[n] /\ (n < at + 1 <=> n < at)
        BY <1>1, <3>3
      <4> QED BY <2>1, <3>1, <4>1
    <3> QED BY <3>2, <3>3
  <2> QED BY <1>1, <1>3, <2>1, <2>2, <2>3, <2>4, <2>5, <2>6 DEF FillOK
<1>4. CASE ~(job.pc = "fill" /\ at < Len(cursor))
  <2>1. at' = at /\ job' = [job EXCEPT !.pc = "merge"]
    BY <1>4 DEF Refilled
  <2>2. job'.pc = "merge" /\ job'.result = "none" /\ SameRequest
    BY <1>1, <1>2, <2>1 DEF SameRequest
  <2>3. JobTypes'
    BY <1>2, <2>1 DEF ExtInv, JobTypes
  <2>4. JobOK'
    BY <1>1, <2>2, JobKept DEF ExtInv
  <2>5. \A n \in DOMAIN cursor' : Settled(cursor'[n])
    <3> TAKE n \in DOMAIN cursor'
    <3>1. CASE n = at
      BY <3>1
    <3>2. CASE n # at
      <4>1. job.pc = "fill" => n < at
        BY <1>1, <1>4, <3>2
      <4>2. Settled(cursor[n])
        BY <1>1, <3>2, <4>1 DEF ExtInv, FillOK
      <4> QED BY <3>2, <4>2
    <3> QED BY <3>1, <3>2
  <2> QED BY <2>2, <2>3, <2>4, <2>5 DEF FillOK
<1> QED BY <1>3, <1>4

(* A step that goes on with the same cursor.                               *)
LEMMA StillFilling ==
  ASSUME ExtInv, Filling, job' = job, at' = at, DOMAIN cursor' = DOMAIN cursor,
         cursor' \in Seq(CursorType), cursor'[at].pending = 0,
         \A m \in DOMAIN cursor : m # at => cursor'[m] = cursor[m],
         out' = out, odd' = odd,
         stats' \in [scanned : Nat, vanished : SUBSET Nat, compiled : BOOLEAN, failed : BOOLEAN,
                     link : Links \cup {None}, stop : {"none", "cancelled", "deadline"}]
  PROVE  SameRequest /\ JobTypes' /\ JobOK' /\ FillOK'
<1>1. /\ at \in DOMAIN cursor /\ at \in Nat /\ Reading /\ job.result = "none"
      /\ job.pc \in {"fill", "refill"}
  BY FilledCursor DEF Filling
<1>2. SameRequest
  BY DEF SameRequest
<1>3. JobTypes'
  BY DEF ExtInv, JobTypes
<1>4. JobOK'
  BY <1>1, <1>2, JobKept DEF ExtInv
<1>5. ASSUME NEW n \in DOMAIN cursor'
      PROVE  /\ job.pc = "fill" => IF n < at THEN Settled(cursor'[n]) ELSE cursor'[n].pending = 0
             /\ job.pc = "refill" => IF n = at THEN cursor'[n].pending = 0 ELSE Settled(cursor'[n])
  <2>1. CASE n = at
    BY <1>1, <2>1
  <2>2. CASE n # at
    BY <2>2 DEF ExtInv, FillOK
  <2> QED BY <2>1, <2>2
<1>6. FillOK'
  BY <1>1, <1>5 DEF FillOK
<1> QED BY <1>2, <1>3, <1>4, <1>6

(* OpenFile: its cursor has the next file open, or has passed over it.     *)
LEMMA OpenFileKeeps ==
  ASSUME RecInv, RecInv', Grows, ExtInv, OpenFile
  PROVE  /\ ExtInv' /\ SameRequest /\ DOMAIN cursor' = DOMAIN cursor
         /\ cursor'[at] = [files |-> Tail(cursor[at].files), pos |-> 0, pending |-> 0,
                          open |-> IF /\ file[Head(cursor[at].files)].there
                                      /\ Compiles(job.ask, file[Head(cursor[at].files)].link)
                                   THEN Head(cursor[at].files) ELSE 0]
         /\ \A m \in DOMAIN cursor : m # at => cursor'[m] = cursor[m]
<1> DEFINE c == cursor[at]
           i == Head(c.files)
           o == IF file[i].there /\ Compiles(job.ask, file[i].link) THEN i ELSE 0
           d == [files |-> Tail(c.files), open |-> o, pos |-> 0, pending |-> 0]
<1>1. /\ Filling /\ c.open = 0 /\ c.files # <<>>
      /\ cursor' = [cursor EXCEPT ![at].files = Tail(@), ![at].pos = 0, ![at].open = o]
      /\ UNCHANGED <<job, at, out, odd, file>>
  BY DEF OpenFile, fillRest
<1>2. at \in DOMAIN cursor /\ c \in CursorType /\ CursorOK(c) /\ c.pending = 0
  BY <1>1, FilledCursor
<1>3. cursor' = [cursor EXCEPT ![at] = d]
  <2>1. cursor \in Seq(CursorType)
    BY DEF ExtInv, JobTypes
  <2> HIDE DEF o
  <2>2. [c EXCEPT !.files = Tail(c.files), !.pos = 0, !.open = o] = d
    <3>1. [c EXCEPT !.files = Tail(c.files), !.pos = 0, !.open = o]
            = [files |-> Tail(c.files), open |-> o, pos |-> 0, pending |-> c.pending]
      <4>1. PICK f : f = Tail(c.files)
        OBVIOUS
      <4>2. PICK b : b = o
        OBVIOUS
      <4>3. PICK a \in CursorType : a = c
        BY <1>2
      <4>4. [a EXCEPT !.files = f, !.pos = 0, !.open = b]
              = [files |-> f, open |-> b, pos |-> 0, pending |-> a.pending]
        BY OpenedCursor
      <4> QED BY <4>1, <4>2, <4>3, <4>4, Zenon
    <3> QED BY <1>2, <3>1
  <2>3. cursor' = [cursor EXCEPT ![at] = [c EXCEPT !.files = Tail(c.files), !.pos = 0, !.open = o]]
    BY <1>1, <1>2, <2>1
  <2> QED BY <2>2, <2>3
<1>4. Narrows(c, d)
  <2>1. o \in {0, i}
    OBVIOUS
  <2> HIDE DEF o
  <2> QED BY <1>1, <1>2, <2>1, OpenNarrows
<1>5. d.pending = 0
  OBVIOUS
<1> HIDE DEF d, c
<1>6. /\ cursor' \in Seq(CursorType) /\ DOMAIN cursor' = DOMAIN cursor
      /\ cursor'[at] = d /\ \A m \in DOMAIN cursor : m # at => cursor'[m] = cursor[m]
      /\ \A m \in DOMAIN cursor : Narrows(cursor[m], cursor'[m])
  BY <1>2, <1>3, <1>4, MovedCursor DEF ExtInv, c
<1>7. stats' \in [scanned : Nat, vanished : SUBSET Nat, compiled : BOOLEAN, failed : BOOLEAN,
                  link : Links \cup {None}, stop : {"none", "cancelled", "deadline"}]
  <2> DEFINE compiles == Compiles(job.ask, file[i].link)
  <2>1. compiles \in BOOLEAN
    BY DEF Compiles
  <2>2. i \in Nat
    BY <1>1, <1>2 DEF CursorType, c
  <2>3. stats' = IF ~file[i].there THEN [stats EXCEPT !.vanished = @ \cup {i}]
                 ELSE [stats EXCEPT !.scanned = @ + 1, !.compiled = @ \/ compiles,
                                    !.failed = @ \/ ~compiles]
    BY DEF OpenFile, c
  <2>4. stats \in [scanned : Nat, vanished : SUBSET Nat, compiled : BOOLEAN, failed : BOOLEAN,
                   link : Links \cup {None}, stop : {"none", "cancelled", "deadline"}]
    BY DEF ExtInv, JobTypes
  <2> HIDE DEF compiles, i
  <2>5. CASE ~file[i].there
    <3>1. stats' = [stats EXCEPT !.vanished = @ \cup {i}]
      BY <2>3, <2>5
    <3> QED BY <2>2, <2>4, <3>1
  <2>6. CASE file[i].there
    <3>1. stats' = [stats EXCEPT !.scanned = @ + 1, !.compiled = @ \/ compiles, !.failed = @ \/ ~compiles]
      BY <2>3, <2>6
    <3>2. (stats.compiled \/ compiles) \in BOOLEAN /\ (stats.failed \/ ~compiles) \in BOOLEAN
      BY Zenon
    <3>3. stats.scanned + 1 \in Nat
      BY <2>4
    <3> DEFINE x == stats.scanned + 1
               y == stats.compiled \/ compiles
               z == stats.failed \/ ~compiles
    <3> HIDE DEF x, y, z
    <3>4. stats' = [stats EXCEPT !.scanned = x, !.compiled = y, !.failed = z]
      BY <3>1 DEF x, y, z
    <3> QED BY <2>4, <3>2, <3>3, <3>4 DEF x, y, z
  <2> QED BY <2>5, <2>6
<1>8. SameRequest /\ JobTypes' /\ JobOK' /\ FillOK'
  BY <1>1, <1>5, <1>6, <1>7, StillFilling
<1>9. CursorsOK' /\ OutOK' /\ OrderOK' /\ TimeOrdered'
  BY <1>1, <1>6, <1>8, NarrowedExtraction
<1>10. ExtInv'
  BY <1>8, <1>9 DEF ExtInv
<1> QED BY <1>6, <1>8, <1>10 DEF c, d

(* EndOfFile: its cursor has no file open.                                 *)
LEMMA EndOfFileKeeps ==
  ASSUME RecInv, RecInv', Grows, ExtInv, EndOfFile
  PROVE  /\ ExtInv' /\ SameRequest /\ DOMAIN cursor' = DOMAIN cursor
         /\ cursor'[at] = [files |-> cursor[at].files, open |-> 0, pos |-> cursor[at].pos, pending |-> 0]
         /\ \A m \in DOMAIN cursor : m # at => cursor'[m] = cursor[m]
<1> DEFINE c == cursor[at]
           d == [files |-> c.files, open |-> 0, pos |-> c.pos, pending |-> 0]
<1>1. /\ Filling /\ cursor' = [cursor EXCEPT ![at].open = 0] /\ UNCHANGED <<job, at, stats, out, odd>>
  BY DEF EndOfFile, fillRest
<1>2. at \in DOMAIN cursor /\ c \in CursorType /\ CursorOK(c) /\ c.pending = 0
  BY <1>1, FilledCursor
<1>3. cursor' = [cursor EXCEPT ![at] = d]
  <2>1. cursor \in Seq(CursorType)
    BY DEF ExtInv, JobTypes
  <2>2. [c EXCEPT !.open = 0] = d
    BY <1>2 DEF CursorType
  <2>3. cursor' = [cursor EXCEPT ![at] = [c EXCEPT !.open = 0]]
    BY <1>1, <1>2, <2>1
  <2> QED BY <2>2, <2>3
<1>4. Narrows(c, d)
  BY <1>2, CloseNarrows
<1>5. d.pending = 0
  OBVIOUS
<1> HIDE DEF d
<1>6. /\ cursor' \in Seq(CursorType) /\ DOMAIN cursor' = DOMAIN cursor
      /\ cursor'[at] = d /\ \A m \in DOMAIN cursor : m # at => cursor'[m] = cursor[m]
      /\ \A m \in DOMAIN cursor : Narrows(cursor[m], cursor'[m])
  BY <1>2, <1>3, <1>4, MovedCursor DEF ExtInv
<1>7. stats' \in [scanned : Nat, vanished : SUBSET Nat, compiled : BOOLEAN, failed : BOOLEAN,
                  link : Links \cup {None}, stop : {"none", "cancelled", "deadline"}]
  BY <1>1 DEF ExtInv, JobTypes
<1>8. SameRequest /\ JobTypes' /\ JobOK' /\ FillOK'
  BY <1>1, <1>5, <1>6, <1>7, StillFilling
<1>9. CursorsOK' /\ OutOK' /\ OrderOK' /\ TimeOrdered'
  BY <1>1, <1>6, <1>8, NarrowedExtraction
<1>10. ExtInv'
  BY <1>8, <1>9 DEF ExtInv
<1> QED BY <1>6, <1>8, <1>10 DEF d

(* The packet read is the first one that is wanted.                        *)
LEMMA FirstWanted ==
  ASSUME RecInv, NEW c \in CursorType, CursorOK(c), c.open # 0, NextWanted(c) # {}, NEW k,
         k = CHOOSE i \in NextWanted(c) : \A j \in NextWanted(c) : i <= j
  PROVE  /\ k \in c.pos + 1 .. Len(file[c.open].packets) /\ Wanted(c.open, k)
         /\ \A j \in NextWanted(c) : k <= j
<1>1. c.pos \in Nat /\ Len(file[c.open].packets) \in Nat
  BY FileTypes DEF CursorType, CursorOK, RecInv
<1>2. NextWanted(c) \in SUBSET Nat
  BY <1>1 DEF NextWanted
<1>3. \E i \in NextWanted(c) : \A j \in NextWanted(c) : i <= j
  BY <1>2, LeastExists
<1>4. k \in NextWanted(c) /\ \A j \in NextWanted(c) : k <= j
  BY <1>3
<1> QED BY <1>4 DEF NextWanted

(* ReadPacket: the first wanted packet is pending, and refilling goes on.  *)
LEMMA ReadPacketKeeps ==
  ASSUME RecInv, RecInv', Grows, ExtInv, ReadPacket
  PROVE  /\ ExtInv' /\ SameRequest /\ DOMAIN cursor' = DOMAIN cursor
         /\ cursor'[at] = LET k == CHOOSE k \in NextWanted(cursor[at]) : \A j \in NextWanted(cursor[at]) : k <= j
                          IN  [files |-> cursor[at].files, open |-> cursor[at].open, pos |-> k, pending |-> k]
         /\ \A m \in DOMAIN cursor : m # at => cursor'[m] = cursor[m]
<1> DEFINE c == cursor[at]
           k == CHOOSE k \in NextWanted(c) : \A j \in NextWanted(c) : k <= j
           d == [files |-> c.files, open |-> c.open, pos |-> k, pending |-> k]
<1>1. /\ Filling /\ cursor' = [cursor EXCEPT ![at].pos = k, ![at].pending = k]
      /\ c.open # 0 /\ NextWanted(c) # {} /\ UNCHANGED <<stats, out, odd>> /\ Refilled
  BY DEF ReadPacket, fillRest
<1>2. at \in DOMAIN cursor /\ c \in CursorType /\ CursorOK(c)
  BY <1>1, FilledCursor
<1>3. k \in c.pos + 1 .. Len(file[c.open].packets) /\ Wanted(c.open, k)
  BY <1>1, <1>2, FirstWanted
<1> HIDE DEF k
<1>4. cursor' = [cursor EXCEPT ![at] = d]
  <2>1. cursor \in Seq(CursorType)
    BY DEF ExtInv, JobTypes
  <2>2. [c EXCEPT !.pos = k, !.pending = k] = d
    BY <1>2, ReadCursor
  <2>3. cursor' = [cursor EXCEPT ![at] = [c EXCEPT !.pos = k, !.pending = k]]
    BY <1>1, <1>2, <2>1
  <2> QED BY <2>2, <2>3
<1>5. Narrows(c, d)
  BY <1>1, <1>2, <1>3, ReadNarrows
<1>6. Settled(d)
  <2>1. c.pos \in Nat
    BY <1>2 DEF CursorType
  <2> QED BY <1>3, <2>1 DEF Settled
<1> HIDE DEF d
<1>7. /\ cursor' \in Seq(CursorType) /\ DOMAIN cursor' = DOMAIN cursor
      /\ cursor'[at] = d /\ \A m \in DOMAIN cursor : m # at => cursor'[m] = cursor[m]
      /\ \A m \in DOMAIN cursor : Narrows(cursor[m], cursor'[m])
  BY <1>2, <1>4, <1>5, MovedCursor DEF ExtInv
<1>8. SameRequest /\ JobTypes' /\ JobOK' /\ FillOK'
  BY <1>1, <1>6, <1>7, RefilledKeeps
<1>9. CursorsOK' /\ OutOK' /\ OrderOK' /\ TimeOrdered'
  BY <1>1, <1>7, <1>8, NarrowedExtraction
<1>10. ExtInv'
  BY <1>8, <1>9 DEF ExtInv
<1> QED BY <1>7, <1>8, <1>10 DEF d, k

(* GroupExhausted: its cursor is spent, and refilling goes on.             *)
LEMMA GroupExhaustedKeeps ==
  ASSUME RecInv, RecInv', Grows, ExtInv, GroupExhausted
  PROVE  ExtInv' /\ SameRequest
<1>1. /\ Filling /\ Spent(cursor[at]) /\ UNCHANGED <<cursor, stats, out, odd>> /\ Refilled
  BY DEF GroupExhausted, fillRest, Spent
<1>2. /\ cursor' \in Seq(CursorType) /\ DOMAIN cursor' = DOMAIN cursor
      /\ \A m \in DOMAIN cursor : Narrows(cursor[m], cursor'[m])
  BY <1>1, UnmovedCursors DEF ExtInv
<1>3. Settled(cursor'[at])
  BY <1>1 DEF Settled
<1>4. SameRequest /\ JobTypes' /\ JobOK' /\ FillOK'
  BY <1>1, <1>2, <1>3, RefilledKeeps
<1>5. CursorsOK' /\ OutOK' /\ OrderOK' /\ TimeOrdered'
  BY <1>1, <1>2, <1>4, NarrowedExtraction
<1> QED BY <1>2, <1>4, <1>5 DEF ExtInv


(* The edit SkipFile makes of a cursor.                                    *)
LEMMA LeftCursor ==
  ASSUME NEW c \in CursorType
  PROVE  [c EXCEPT !.pending = 0, !.open = 0]
           = [files |-> c.files, open |-> 0, pos |-> c.pos, pending |-> 0]
<1> DEFINE a == [c EXCEPT !.pending = 0, !.open = 0]
           b == [files |-> c.files, open |-> 0, pos |-> c.pos, pending |-> 0]
<1>1. DOMAIN a = DOMAIN b /\ DOMAIN a = {"files", "open", "pos", "pending"}
  BY DEF CursorType
<1>2. a.files = b.files /\ a.open = b.open /\ a.pos = b.pos /\ a.pending = b.pending
  BY DEF CursorType
<1>3. a = [x \in DOMAIN a |-> a[x]] /\ b = [x \in DOMAIN b |-> b[x]]
  BY DEF CursorType
<1> HIDE DEF a, b
<1>4. a = b
  BY <1>1, <1>2, <1>3
<1> QED BY <1>4 DEF a, b

(* The edit WritePacket makes of a cursor.                                 *)
LEMMA TakenCursor ==
  ASSUME NEW c \in CursorType
  PROVE  [c EXCEPT !.pending = 0]
           = [files |-> c.files, open |-> c.open, pos |-> c.pos, pending |-> 0]
BY DEF CursorType

(* The packet that goes out is the pending one of its cursor.              *)
LEMMA PendingPacket ==
  ASSUME RecInv, ExtInv, NEW n \in DOMAIN cursor, Pending(n)
  PROVE  LET c == cursor[n]
         IN  /\ c \in CursorType /\ CursorOK(c) /\ c.open # 0 /\ c.open \in Nat /\ c.pending \in Nat \ {0}
             /\ c.open \in DOMAIN file /\ c.pending \in 1 .. Len(file[c.open].packets)
             /\ c.pending = c.pos /\ Wanted(c.open, c.pending) /\ ~In(c.open, c.files)
             /\ HeadOf(n) = file[c.open].packets[c.pending] /\ HeadOf(n) \in Pkt
             /\ HeadOf(n).ts \in Nat /\ HeadOf(n).id = <<c.open, c.pending>>
             /\ HeadOf(n).thread = file[c.open].thread
<1> DEFINE c == cursor[n]
<1>1. c \in CursorType /\ CursorOK(c) /\ c.pending # 0
  BY DEF ExtInv, JobTypes, CursorsOK, Pending
<1>2. /\ c.open \in Nat /\ c.pending \in Nat /\ c.open # 0 /\ c.open \in DOMAIN file /\ c.pending = c.pos
      /\ c.pos <= Len(file[c.open].packets) /\ Wanted(c.open, c.pending) /\ ~In(c.open, c.files)
  BY <1>1 DEF CursorType, CursorOK
<1>3. Len(file[c.open].packets) \in Nat
  BY <1>2, FileTypes DEF RecInv
<1>4. c.pending \in 1 .. Len(file[c.open].packets)
  BY <1>1, <1>2, <1>3
<1>5. file[c.open].packets[c.pending] \in Pkt /\ file[c.open].packets[c.pending].ts \in Nat
  BY <1>2, <1>4, FileTypes DEF RecInv
<1>6. PacketOK(file[c.open], c.open, c.pending, clock)
  BY <1>2, <1>4 DEF RecInv, FilesOK
<1>7. HeadOf(n) = file[c.open].packets[c.pending]
  BY DEF HeadOf
<1> QED BY <1>1, <1>2, <1>4, <1>5, <1>6, <1>7 DEF PacketOK

(* From the merge back to refilling the cursor that was taken from.        *)
LEMMA TakenKeeps ==
  ASSUME ExtInv, Merging, NEW n \in DOMAIN cursor, at' = n, job' = [job EXCEPT !.pc = "refill"],
         cursor' \in Seq(CursorType), DOMAIN cursor' = DOMAIN cursor, cursor'[n].pending = 0,
         \A m \in DOMAIN cursor : m # n => cursor'[m] = cursor[m],
         out' \in Seq(Pkt), odd' = odd,
         stats' \in [scanned : Nat, vanished : SUBSET Nat, compiled : BOOLEAN, failed : BOOLEAN,
                     link : Links \cup {None}, stop : {"none", "cancelled", "deadline"}]
  PROVE  SameRequest /\ JobTypes' /\ JobOK' /\ FillOK'
<1>1. /\ job \in [pc : {"idle", "list", "fill", "refill", "merge", "over"}, ask : Asks \cup {None},
                  start : Nat, end : Nat \cup {None}, result : {"none", "refused", "no-candidate-files", "io",
                    "truncated", "cancelled", "ok", "format", "no-match"}]
      /\ cursor \in Seq(CursorType)
  BY DEF ExtInv, JobTypes
<1>2. job.pc = "merge" /\ job.result = "none" /\ Reading
  BY DEF ExtInv, JobOK, Merging, Reading
<1>3. job'.pc = "refill" /\ job'.result = "none" /\ SameRequest
  BY <1>1, <1>2 DEF SameRequest
<1>4. at' \in Nat
  BY <1>1
<1>5. JobTypes'
  BY <1>1, <1>4 DEF ExtInv, JobTypes
<1>6. JobOK'
  BY <1>2, <1>3, JobKept DEF ExtInv
<1>7. \A m \in DOMAIN cursor' : IF m = at' THEN cursor'[m].pending = 0 ELSE Settled(cursor'[m])
  BY <1>2 DEF ExtInv, FillOK
<1>8. FillOK'
  BY <1>3, <1>7 DEF FillOK
<1> QED BY <1>3, <1>5, <1>6, <1>8

(* SkipFile: a file of another link type is left.                          *)
LEMMA SkipFileKeeps ==
  ASSUME RecInv, RecInv', Grows, ExtInv, NEW n \in DOMAIN cursor, SkipFile(n)
  PROVE  /\ ExtInv' /\ SameRequest /\ DOMAIN cursor' = DOMAIN cursor
         /\ cursor'[n] = [files |-> cursor[n].files, open |-> 0, pos |-> cursor[n].pos, pending |-> 0]
         /\ \A m \in DOMAIN cursor : m # n => cursor'[m] = cursor[m]
<1> DEFINE c == cursor[n]
           d == [files |-> c.files, open |-> 0, pos |-> c.pos, pending |-> 0]
<1>1. /\ Merging /\ Pending(n) /\ cursor' = [cursor EXCEPT ![n].pending = 0, ![n].open = 0]
      /\ at' = n /\ job' = [job EXCEPT !.pc = "refill"] /\ UNCHANGED <<out, stats, odd>>
  BY DEF SkipFile, Earliest, fillRest
<1>2. c \in CursorType /\ CursorOK(c)
  BY <1>1, PendingPacket
<1>3. cursor' = [cursor EXCEPT ![n] = d]
  <2>1. cursor \in Seq(CursorType)
    BY DEF ExtInv, JobTypes
  <2>2. [c EXCEPT !.pending = 0, !.open = 0] = d
    BY <1>2, LeftCursor
  <2>3. cursor' = [cursor EXCEPT ![n] = [c EXCEPT !.pending = 0, !.open = 0]]
    BY <1>1, <1>2, <2>1
  <2> QED BY <2>2, <2>3
<1>4. Narrows(c, d)
  BY <1>2, CloseNarrows
<1>5. d.pending = 0
  OBVIOUS
<1> HIDE DEF d
<1>6. /\ cursor' \in Seq(CursorType) /\ DOMAIN cursor' = DOMAIN cursor
      /\ cursor'[n] = d /\ \A m \in DOMAIN cursor : m # n => cursor'[m] = cursor[m]
      /\ \A m \in DOMAIN cursor : Narrows(cursor[m], cursor'[m])
  BY <1>3, <1>4, MovedCursor DEF ExtInv
<1>7. SameRequest /\ JobTypes' /\ JobOK' /\ FillOK'
  <2>1. out' \in Seq(Pkt)
        /\ stats' \in [scanned : Nat, vanished : SUBSET Nat, compiled : BOOLEAN, failed : BOOLEAN,
                       link : Links \cup {None}, stop : {"none", "cancelled", "deadline"}]
    BY <1>1 DEF ExtInv, JobTypes
  <2> QED BY <1>1, <1>5, <1>6, <2>1, TakenKeeps
<1>8. CursorsOK' /\ OutOK' /\ OrderOK' /\ TimeOrdered'
  BY <1>1, <1>6, <1>7, NarrowedExtraction
<1>9. ExtInv'
  BY <1>7, <1>8 DEF ExtInv
<1> QED BY <1>6, <1>7, <1>9 DEF d

(* The end of an extraction.                                               *)
LEMMA OverKeeps ==
  ASSUME RecInv, RecInv', Grows, ExtInv, Reading, UNCHANGED <<odd, cursor, at, stats, out>>,
         NEW r \in {"io", "truncated", "cancelled", "ok", "format", "no-match", "no-candidate-files"},
         job' = [job EXCEPT !.pc = "over", !.result = r],
         r = "ok" => \A n \in DOMAIN cursor : Spent(cursor[n])
  PROVE  ExtInv' /\ SameRequest
<1>1. job \in [pc : {"idle", "list", "fill", "refill", "merge", "over"}, ask : Asks \cup {None},
               start : Nat, end : Nat \cup {None}, result : {"none", "refused", "no-candidate-files", "io",
                 "truncated", "cancelled", "ok", "format", "no-match"}]
  BY DEF ExtInv, JobTypes
<1>2. job'.pc = "over" /\ job'.result = r /\ SameRequest /\ r # "refused"
  BY <1>1 DEF SameRequest
<1>3. JobTypes'
  BY <1>1 DEF ExtInv, JobTypes
<1>4. JobOK'
  BY <1>2, JobKept DEF ExtInv
<1>5. FillOK'
  BY <1>2 DEF FillOK
<1>6. CursorsOK' /\ OutOK' /\ OrderOK' /\ TimeOrdered'
  BY <1>2, UnmovedCursors, NarrowedExtraction DEF ExtInv
<1> QED BY <1>2, <1>3, <1>4, <1>5, <1>6 DEF ExtInv

(* Finish: success is reported only when every cursor is spent.            *)
LEMMA FinishKeeps ==
  ASSUME RecInv, RecInv', Grows, ExtInv, Finish
  PROVE  ExtInv' /\ SameRequest
<1>1. /\ job' = [job EXCEPT !.pc = "over", !.result = Outcome]
      /\ UNCHANGED <<odd, cursor, at, stats, out>> /\ Reading
  BY DEF Finish, fillRest, Reading
<1>2. Outcome \in {"io", "truncated", "cancelled", "ok", "format", "no-match", "no-candidate-files"}
      /\ (Outcome = "ok" => stats.stop = "none")
  BY DEF Outcome
<1>3. ASSUME Outcome = "ok" PROVE \A n \in DOMAIN cursor : Spent(cursor[n])
  <2>1. job.pc = "merge" /\ \A n \in DOMAIN cursor : ~Pending(n)
    BY <1>2, <1>3 DEF Finish
  <2> QED BY <2>1 DEF ExtInv, FillOK, Settled, Pending
<1> HIDE DEF Outcome
<1> QED BY <1>1, <1>2, <1>3, OverKeeps

(* OutOfDescriptors and SizeReached: the extraction ends early.            *)
LEMMA GivenUpKeeps ==
  ASSUME RecInv, RecInv', Grows, ExtInv, OutOfDescriptors \/ \E n \in DOMAIN cursor : SizeReached(n)
  PROVE  ExtInv' /\ SameRequest
<1>1. \E r \in {"io", "truncated"} : job' = [job EXCEPT !.pc = "over", !.result = r]
  BY DEF OutOfDescriptors, SizeReached
<1>2. UNCHANGED <<odd, cursor, at, stats, out>> /\ Reading
  BY DEF OutOfDescriptors, SizeReached, fillRest, Filling, Merging, Reading
<1> QED BY <1>1, <1>2, OverKeeps

(* The client is gone, or the time is up.                                  *)
LEMMA StopKeeps ==
  ASSUME RecInv, RecInv', Grows, ExtInv, NEW why \in {"cancelled", "deadline"}, Stop(why)
  PROVE  ExtInv' /\ SameRequest
<1>1. /\ Reading /\ stats' = [stats EXCEPT !.stop = why] /\ UNCHANGED <<odd, job, cursor, at, out>>
  BY DEF Stop, fillRest, Reading
<1>2. SameRequest /\ job.result = "none"
  BY <1>1 DEF SameRequest, Reading, ExtInv, JobOK
<1>3. JobTypes'
  BY <1>1 DEF ExtInv, JobTypes
<1>4. JobOK'
  BY <1>1, <1>2, JobKept DEF ExtInv, Reading
<1>5. FillOK'
  BY <1>1 DEF ExtInv, FillOK
<1>6. CursorsOK' /\ OutOK' /\ OrderOK' /\ TimeOrdered'
  BY <1>1, <1>2, UnmovedCursors, NarrowedExtraction DEF ExtInv
<1> QED BY <1>2, <1>3, <1>4, <1>5, <1>6 DEF ExtInv


(* A packet goes out: its cursor has offered it and goes on behind it.     *)
LEMMA WrittenMark ==
  ASSUME RecInv, ExtInv, ~odd, NEW n \in DOMAIN cursor, Pending(n)
  PROVE  LET c == cursor[n]
         IN  /\ file[c.open].thread = ThreadSeq[n]
             /\ \A j, l \in Nat \ {0} : Left(c, j, l) => c.open < j \/ (c.open = j /\ c.pending <= l)
<1> DEFINE c == cursor[n]
<1>1. /\ c \in CursorType /\ c.open # 0 /\ c.open \in Nat /\ c.pending \in Nat \ {0} /\ c.pending = c.pos
  BY PendingPacket
<1>2. InOrder(c, ThreadSeq[n])
  BY DEF ExtInv, CursorsOK
<1>3. file[c.open].thread = ThreadSeq[n]
  BY <1>1, <1>2 DEF InOrder
<1>4. ASSUME NEW j \in Nat \ {0}, NEW l \in Nat \ {0}, Left(c, j, l)
      PROVE  c.open < j \/ (c.open = j /\ c.pending <= l)
  BY <1>1, <1>2, <1>4 DEF InOrder, Left, In
<1> QED BY <1>3, <1>4

(* WritePacket: the earliest pending packet is added to the output.        *)
LEMMA WritePacketKeeps ==
  ASSUME RecInv, RecInv', Grows, ExtInv, NEW n \in DOMAIN cursor, WritePacket(n)
  PROVE  /\ ExtInv' /\ SameRequest /\ DOMAIN cursor' = DOMAIN cursor
         /\ cursor'[n] = [files |-> cursor[n].files, open |-> cursor[n].open, pos |-> cursor[n].pos,
                          pending |-> 0]
         /\ \A m \in DOMAIN cursor : m # n => cursor'[m] = cursor[m]
         /\ Len(out) + 1 \in DOMAIN out' /\ out'[Len(out) + 1] = HeadOf(n)
         /\ \A m \in DOMAIN out : m \in DOMAIN out' /\ out'[m] = out[m]
<1> DEFINE c == cursor[n]
           d == [files |-> c.files, open |-> c.open, pos |-> c.pos, pending |-> 0]
           q == HeadOf(n)
<1> PICK N : N = Len(out) + 1
  OBVIOUS
<1>1. /\ Merging /\ Pending(n) /\ cursor' = [cursor EXCEPT ![n].pending = 0] /\ out' = Append(out, q)
      /\ at' = n /\ job' = [job EXCEPT !.pc = "refill"] /\ file' = file /\ odd' = odd
      /\ stats' = [stats EXCEPT !.link = file[c.open].link]
      /\ \A m \in DOMAIN cursor : Pending(m) => HeadOf(n).ts <= HeadOf(m).ts
  <2>1. \A m \in DOMAIN cursor : Pending(m) => HeadOf(n).ts < HeadOf(m).ts \/ HeadOf(n).ts = HeadOf(m).ts
    BY DEF WritePacket, Earliest
  <2>2. \A m \in DOMAIN cursor : Pending(m) => HeadOf(m).ts \in Nat
    BY PendingPacket
  <2>3. Pending(n)
    BY DEF WritePacket, Earliest
  <2>4. \A m \in DOMAIN cursor : Pending(m) => HeadOf(n).ts <= HeadOf(m).ts
    BY <2>1, <2>2, <2>3
  <2> QED BY <2>3, <2>4 DEF WritePacket, Taken
<1>2. /\ c \in CursorType /\ CursorOK(c) /\ c.open # 0 /\ c.open \in Nat /\ c.pending \in Nat \ {0}
      /\ c.open \in DOMAIN file /\ c.pending \in 1 .. Len(file[c.open].packets)
      /\ c.pending = c.pos /\ Wanted(c.open, c.pending) /\ ~In(c.open, c.files)
      /\ q = file[c.open].packets[c.pending] /\ q \in Pkt
      /\ q.ts \in Nat /\ q.id = <<c.open, c.pending>> /\ q.thread = file[c.open].thread
  BY <1>1, PendingPacket
<1>3. cursor' = [cursor EXCEPT ![n] = d]
  <2>1. cursor \in Seq(CursorType)
    BY DEF ExtInv, JobTypes
  <2>2. [c EXCEPT !.pending = 0] = d
    BY <1>2, TakenCursor
  <2>3. cursor' = [cursor EXCEPT ![n] = [c EXCEPT !.pending = 0]]
    BY <1>1, <1>2, <2>1
  <2> QED BY <2>2, <2>3
<1>4. Narrows(c, d)
  BY <1>2, TakeNarrows
<1>5. d.pending = 0 /\ d.open = c.open /\ d.files = c.files /\ d.pos = c.pos
  OBVIOUS
<1> HIDE DEF d, q
<1>6. /\ cursor' \in Seq(CursorType) /\ DOMAIN cursor' = DOMAIN cursor
      /\ cursor'[n] = d /\ \A m \in DOMAIN cursor : m # n => cursor'[m] = cursor[m]
      /\ \A m \in DOMAIN cursor : Narrows(cursor[m], cursor'[m])
  BY <1>3, <1>4, MovedCursor DEF ExtInv
<1>7. /\ out \in Seq(Pkt) /\ Len(out) \in Nat /\ DOMAIN out = 1 .. Len(out)
      /\ out' \in Seq(Pkt) /\ DOMAIN out' = 1 .. N /\ out'[N] = q
      /\ \A m \in 1 .. Len(out) : out'[m] = out[m]
  <2>1. out \in Seq(Pkt) /\ Len(out) \in Nat /\ DOMAIN out = 1 .. Len(out)
    BY DEF ExtInv, JobTypes
  <2> QED BY <1>1, <1>2, <2>1
<1>8. SameRequest /\ JobTypes' /\ JobOK' /\ FillOK'
  <2>1. stats' \in [scanned : Nat, vanished : SUBSET Nat, compiled : BOOLEAN, failed : BOOLEAN,
                    link : Links \cup {None}, stop : {"none", "cancelled", "deadline"}]
    <3>1. file[c.open].link \in Links
      BY <1>2, FileTypes DEF RecInv
    <3> QED BY <1>1, <3>1 DEF ExtInv, JobTypes
  <2> QED BY <1>1, <1>5, <1>6, <1>7, <2>1, TakenKeeps
<1>9. ExtTypes /\ CursorsOK /\ OutOK /\ OrderOK /\ TimeOrdered
  BY <1>1, <1>8 DEF ExtInv, ExtTypes
<1>10. CursorsOK'
  BY <1>6, <1>9, NarrowedCursors
<1>11. OutOK'
  <2>1. ASSUME NEW m \in 1 .. Len(out) PROVE Written(out[m])'
    <3>1. Written(out'[m])
      BY <1>7, <1>9 DEF OutOK
    <3> QED BY <1>6, <1>9, <3>1, WrittenKept
  <2>2. Written(out[N])'
    <3>1. ASSUME NEW m \in DOMAIN cursor PROVE ~Left(cursor'[m], c.open, c.pending)
      <4>1. CASE m = n
        BY <1>2, <1>5, <1>6, <4>1 DEF Left
      <4>2. CASE m # n
        <5>1. ~Has(cursor[m], c.open)
          BY <1>2, <1>9, <4>2 DEF CursorsOK, Has
        <5> QED BY <1>6, <4>2, <5>1 DEF Has, Left
      <4> QED BY <4>1, <4>2
    <3>2. PICK a, b : a = c.open /\ b = c.pending
      OBVIOUS
    <3>3. Wanted(a, b)'
      BY <1>2, <1>9, <3>2, WantedSame DEF ExtTypes
    <3>4. out'[N].id[1] = a /\ out'[N].id[2] = b
      BY <1>2, <1>7, <3>2
    <3>5. /\ a \in DOMAIN file' /\ b \in 1 .. Len(file'[a].packets) /\ out'[N] = file'[a].packets[b]
          /\ \A m \in DOMAIN cursor' : ~Left(cursor'[m], a, b)
      BY <1>1, <1>2, <1>6, <1>7, <3>1, <3>2
    <3> QED BY <3>3, <3>4, <3>5 DEF Written, Wanted, Matches
  <2>3. ASSUME NEW m \in 1 .. Len(out) PROVE out[m].id # q.id
    <3>1. Written(out[m])
      BY <1>7, <1>9 DEF OutOK
    <3>2. Left(c, c.open, c.pending)
      BY DEF Left
    <3>3. out[m].id[1] # c.open \/ out[m].id[2] # c.pending
      BY <3>1, <3>2 DEF Written
    <3> QED BY <1>2, <3>3
  <2>4. ASSUME NEW m \in 1 .. N, NEW l \in 1 .. N, out'[m].id = out'[l].id PROVE m = l
    <3>1. \A x \in 1 .. N : x \in 1 .. Len(out) \/ x = N
      BY <1>7
    <3>2. CASE m \in 1 .. Len(out) /\ l \in 1 .. Len(out)
      BY <1>7, <1>9, <2>4, <3>2 DEF OutOK
    <3>3. CASE m = N \/ l = N
      BY <1>7, <2>3, <2>4, <3>1, <3>3
    <3> QED BY <3>1, <3>2, <3>3
  <2>5. \A m \in 1 .. N : m \in 1 .. Len(out) \/ m = N
    BY <1>7
  <2>6. ASSUME NEW m \in DOMAIN out' PROVE Written(out[m])'
    BY <1>7, <2>1, <2>2, <2>5
  <2> QED BY <1>7, <2>4, <2>6 DEF OutOK
<1>12. OrderOK'
  <2> SUFFICES ASSUME ~odd, NEW x \in DOMAIN cursor, NEW m \in 1 .. N
               PROVE  Spent(cursor'[x]) \/ \E i, k \in Nat : Mark(x, m, i, k)'
    BY <1>1, <1>6, <1>7 DEF OrderOK
  <2>1. CASE m \in 1 .. Len(out)
    <3>1. Spent(cursor[x]) \/ \E i, k \in Nat : Mark(x, m, i, k)
      BY <1>7, <1>9, <2>1 DEF OrderOK
    <3> QED BY <1>6, <1>7, <1>9, <2>1, <3>1, MarkKept
  <2>2. CASE m = N
    <3>1. CASE ~Pending(x)
      <4>1. Spent(cursor[x])
        BY <1>1, <3>1 DEF ExtInv, FillOK, Merging, Settled, Pending
      <4> QED BY <1>6, <4>1 DEF Narrows
    <3>2. CASE Pending(x)
      <4> DEFINE e == cursor[x]
      <4>1. /\ e.open \in Nat /\ e.pending \in Nat \ {0} /\ e.open \in DOMAIN file
            /\ e.pending \in 1 .. Len(file[e.open].packets)
            /\ HeadOf(x) = file[e.open].packets[e.pending]
        BY <3>2, PendingPacket
      <4>2. file[e.open].packets[e.pending].ts >= q.ts
        <5>1. HeadOf(n).ts <= HeadOf(x).ts /\ HeadOf(x).ts \in Nat
          BY <1>1, <3>2, PendingPacket
        <5>2. q.ts \in Nat /\ q.ts = HeadOf(n).ts
          BY <1>2 DEF q
        <5> QED BY <4>1, <5>1, <5>2
      <4>3. /\ file[e.open].thread = ThreadSeq[x]
            /\ \A j, l \in Nat \ {0} : Left(e, j, l) => e.open < j \/ (e.open = j /\ e.pending <= l)
        BY <3>2, WrittenMark
      <4>4. \A j, l \in Nat \ {0} : Left(cursor'[x], j, l) => Left(e, j, l)
        BY <1>6 DEF Narrows
      <4>5. PICK i \in Nat, k \in Nat : i = e.open /\ k = e.pending
        BY <4>1
      <4>6. Mark(x, m, i, k)'
        <5>1. file' = file /\ out'[m] = q
          BY <1>1, <1>7, <2>2
        <5>2. /\ i \in DOMAIN file /\ k \in 1 .. Len(file[i].packets) /\ file[i].thread = ThreadSeq[x]
              /\ file[i].packets[k].ts >= q.ts
          BY <4>1, <4>2, <4>3, <4>5
        <5>3. \A j, l \in Nat \ {0} : Left(cursor'[x], j, l) => i < j \/ (i = j /\ k <= l)
          BY <4>3, <4>4, <4>5
        <5> QED BY <5>1, <5>2, <5>3 DEF Mark, ThreadSeq, Ascending
      <4> QED BY <4>6
    <3> QED BY <3>1, <3>2
  <2> QED BY <1>7, <2>1, <2>2
<1>13. TimeOrdered'
  <2> SUFFICES ASSUME ~odd, NEW m \in 1 .. N, NEW l \in 1 .. N, m < l, out'[m].ts > out'[l].ts
               PROVE  Excused(out[l], out[m].ts)'
    BY <1>1, <1>7, TimesMean
  <2>1. m \in 1 .. Len(out) /\ out'[m] = out[m]
    BY <1>7
  <2>2. CASE l \in 1 .. Len(out)
    <3>1. out'[l] = out[l]
      BY <1>7, <2>2
    <3>2. Excused(out[l], out[m].ts)
      BY <1>7, <1>9, <2>1, <2>2, <3>1, TimesMean
    <3> QED BY <1>9, <2>1, <3>1, <3>2, ExcuseStands
  <2>3. CASE l = N
    <3>1. ~Spent(c)
      BY <1>2 DEF Spent
    <3>2. PICK i \in Nat, k \in Nat : Mark(n, m, i, k)
      BY <1>7, <1>9, <2>1, <3>1 DEF OrderOK
    <3>3. /\ i \in DOMAIN file /\ k \in 1 .. Len(file[i].packets) /\ file[i].thread = ThreadSeq[n]
          /\ file[i].packets[k].ts >= out[m].ts
          /\ i < c.open \/ (i = c.open /\ k <= c.pending)
      <4>1. Left(c, c.open, c.pending) /\ c.open \in Nat \ {0} /\ c.pending \in Nat \ {0}
        BY <1>2 DEF Left
      <4> QED BY <3>2, <4>1 DEF Mark
    <3>4. file[i].packets[k].ts \in Nat /\ out[m].ts \in Nat /\ file[i].packets \in Seq(Pkt)
          /\ file[c.open].packets \in Seq(Pkt)
      <4>1. out[m] \in Pkt
        BY <1>7, <2>1
      <4> QED BY <1>2, <3>3, <4>1, FileTypes DEF RecInv, Pkt
    <3>5. out'[l] = q /\ q.ts < out[m].ts
      BY <1>2, <1>7, <2>1, <2>3, <3>4
    <3>6. ~(i = c.open /\ k = c.pending)
      <4>1. ASSUME i = c.open, k = c.pending PROVE FALSE
        <5>1. file[i].packets[k] = q
          BY <1>2, <4>1
        <5>2. q.ts >= out[m].ts
          BY <3>3, <5>1
        <5>3. q.ts \in Nat /\ out[m].ts \in Nat /\ q.ts < out[m].ts
          BY <1>2, <3>4, <3>5
        <5> QED BY <5>2, <5>3
      <4> QED BY <4>1
    <3>7. file[c.open].thread = ThreadSeq[n]
      BY <1>1, WrittenMark
    <3>8. PICK j, p : j = c.open /\ p = c.pending
      OBVIOUS
    <3>9. /\ i \in FilesOf(q.thread) /\ j \in FilesOf(q.thread)
          /\ k \in DOMAIN file[i].packets /\ p \in DOMAIN file[j].packets
          /\ <<i, k>> # <<j, p>> /\ i <= j /\ (i = j => k < p)
          /\ file[i].packets[k].ts >= out[m].ts /\ file[j].packets[p] = q
      <4>1. i \in FilesOf(q.thread) /\ j \in FilesOf(q.thread)
        BY <1>2, <3>3, <3>7, <3>8 DEF FilesOf
      <4>2. k \in DOMAIN file[i].packets /\ p \in DOMAIN file[j].packets
        BY <1>2, <3>3, <3>4, <3>8
      <4>3. <<i, k>> # <<j, p>> /\ i <= j /\ (i = j => k < p)
        <5>1. k \in Nat /\ p \in Nat /\ i \in Nat /\ j \in Nat
          BY <1>2, <3>8
        <5> QED BY <3>3, <3>6, <3>8, <5>1
      <4> QED BY <1>2, <3>3, <3>8, <4>1, <4>2, <4>3
    <3> QED BY <1>1, <2>1, <3>5, <3>9 DEF Excused, FilesOf
  <2> QED BY <1>7, <2>2, <2>3
<1>14. ExtInv'
  BY <1>8, <1>10, <1>11, <1>12, <1>13 DEF ExtInv
<1>15. /\ N \in DOMAIN out' /\ out'[N] = HeadOf(n)
       /\ \A m \in DOMAIN out : m \in DOMAIN out' /\ out'[m] = out[m]
  BY <1>7 DEF q
<1> QED BY <1>6, <1>8, <1>14, <1>15 DEF d




(* Nothing has been asked for yet.                                         *)
LEMMA ExtInit ==
  ASSUME SpoolInit
  PROVE  ExtInv
<1>1. /\ job = Idle /\ cursor = <<>> /\ at = 0 /\ stats = NoStats /\ out = <<>> /\ known = <<>>
      /\ odd \in BOOLEAN
  BY DEF SpoolInit
<1>2. JobTypes
  BY <1>1 DEF JobTypes, Idle, NoStats
<1>3. JobOK
  BY <1>1 DEF JobOK, Idle
<1>4. CursorsOK /\ FillOK /\ OutOK /\ OrderOK /\ TimeOrdered
  BY <1>1 DEF CursorsOK, FillOK, OutOK, OrderOK, TimeOrdered, Idle
<1> QED BY <1>2, <1>3, <1>4 DEF ExtInv

(* Every step keeps the extraction invariant.                              *)
LEMMA ExtStep ==
  ASSUME RecInv, ExtInv, [SpoolNext]_spoolVars
  PROVE  ExtInv'
<1>1. RecInv' /\ Grows
  BY RecordStep
<1>2. CASE List
  BY <1>1, <1>2, ListKeeps
<1>3. CASE \E ask \in Asks : Start(ask)
  BY <1>3, StartKeeps
<1>4. CASE Fetch
  <2>1. CASE OpenFile
    BY <1>1, <2>1, OpenFileKeeps
  <2>2. CASE ReadPacket
    BY <1>1, <2>2, ReadPacketKeeps
  <2>3. CASE EndOfFile
    BY <1>1, <2>3, EndOfFileKeeps
  <2>4. CASE GroupExhausted
    BY <1>1, <2>4, GroupExhaustedKeeps
  <2>5. CASE Finish
    BY <1>1, <2>5, FinishKeeps
  <2>6. CASE OutOfDescriptors \/ \E n \in DOMAIN cursor : SizeReached(n)
    BY <1>1, <2>6, GivenUpKeeps
  <2>7. CASE \E n \in DOMAIN cursor : SkipFile(n)
    BY <1>1, <2>7, SkipFileKeeps
  <2>8. CASE \E n \in DOMAIN cursor : WritePacket(n)
    BY <1>1, <2>8, WritePacketKeeps
  <2> QED BY <1>4, <2>1, <2>2, <2>3, <2>4, <2>5, <2>6, <2>7, <2>8 DEF Fetch
<1>5. CASE Stops
  BY <1>1, <1>5, StopKeeps DEF Stops
<1>6. CASE Sensor \/ Purge \/ UNCHANGED spoolVars
  <2>1. UNCHANGED <<odd, job, cursor, at, stats, out, known>>
    BY <1>6 DEF Sensor, Purge, Tick, Record, Rotate, PurgeLists, PurgeDeletes, PurgeFails,
               PurgeEnds, spoolVars
  <2> QED BY <1>1, <2>1, OutsideKeeps
<1> QED BY <1>2, <1>3, <1>4, <1>5, <1>6 DEF SpoolNext

(* Every packet of the output is of a built request, and was wanted.       *)
LEMMA WrittenWanted ==
  ASSUME ExtInv, NEW n \in DOMAIN out
  PROVE  /\ job.ask \in Asks /\ ~BadRequest(job.ask) /\ out[n] \in Pkt
         /\ \E i, k : i \in DOMAIN file /\ k \in 1 .. Len(file[i].packets)
                      /\ out[n] = file[i].packets[k] /\ Wanted(i, k)
<1>1. out # <<>> /\ out[n] \in Pkt
  BY DEF ExtInv, JobTypes
<1>2. job.pc # "idle" /\ job.result # "refused"
  BY <1>1 DEF ExtInv, JobOK
<1>3. Written(out[n])
  BY DEF ExtInv, OutOK
<1> QED BY <1>1, <1>2, <1>3 DEF ExtInv, JobOK, Written

(* The pairing of hosts and ports and the ids of the packets give          *)
(* OnlyTheFlow.                                                            *)
LEMMA FlowOnly ==
  ASSUME ExtInv
  PROVE  OnlyTheFlow
<1>1. \A m, n \in DOMAIN out : out[m] = out[n] => m = n
  BY DEF ExtInv, OutOK
<1>2. ASSUME job.ask # None, Mode(job.ask) = "default", NEW n \in DOMAIN out, BothPorts(job.ask.event)
      PROVE  out[n].kind.frag \/ out[n].kind.flow = job.ask.event.flow
  <2> DEFINE e == job.ask.event
             p == out[n].kind
             sel == Selector(e)
  <2>1. /\ job.ask \in Asks /\ ~BadRequest(job.ask) /\ out[n] \in Pkt
        /\ \E i, k : i \in DOMAIN file /\ out[n] = file[i].packets[k] /\ Wanted(i, k)
    BY WrittenWanted
  <2>2. FilterOf(job.ask) = "flow" /\ e # None /\ ~BadEvent(e)
    BY <1>2, <2>1 DEF FilterOf, BadRequest
  <2>3. ToBpf(sel, p)
    BY <2>1, <2>2 DEF Wanted, Matches, FlowMatches
  <2>4. /\ sel.x = e.sport /\ sel.y = e.dport /\ sel.a = e.src /\ sel.b = e.dst /\ sel.v6 = e.v6
        /\ sel.proto = NormalizeProto(e)
    BY <1>2 DEF Selector, BothPorts
  <2>5. sel.proto \in PortProtocols /\ e.sport # None /\ e.dport # None
    BY <1>2, <2>4 DEF BothPorts, NormalizeProto, PortProtocols
  <2>6. (p.proto = sel.proto /\ ~p.frag /\ Paired(sel, p)) \/ Fragments(sel, p)
    BY <2>3, <2>4, <2>5 DEF ToBpf
  <2>7. ASSUME ~p.frag PROVE p.flow = e.flow
    <3>1. p.proto = sel.proto /\ Paired(sel, p)
      BY <2>6, <2>7 DEF Fragments
    <3>2. InFlow(e, p)
      BY <2>4, <2>7, <3>1 DEF InFlow, Paired, Sent
    <3>3. p \in Kinds
      BY <2>1 DEF Pkt
    <3> QED BY <1>2, <2>1, <2>2, <2>7, <3>2, <3>3, FlowAssumption
  <2> QED BY <2>7
<1> QED BY <1>1, <1>2 DEF OnlyTheFlow

(* OnlyTheFlow: a packet goes out once, and the capture of an event with   *)
(* both ports holds no packet of the mirrored flow of the same hosts       *)
(* (to_bpf's pairing of hosts and ports).                                  *)
THEOREM CapturesOnlyTheFlow == SpoolSpec => []OnlyTheFlow
<1>1. SpoolInit => RecInv /\ ExtInv
  BY RecordInit, ExtInit
<1>2. RecInv /\ ExtInv /\ [SpoolNext]_spoolVars => (RecInv /\ ExtInv)'
  BY RecordStep, ExtStep
<1>3. RecInv /\ ExtInv => OnlyTheFlow
  BY FlowOnly
<1> QED BY <1>1, <1>2, <1>3, PTL DEF SpoolSpec

(* TimeOrdered: the merge of the capture threads writes packets in time    *)
(* order, but for what a thread itself recorded out of order               *)
(* (GroupCursor::refill and the choice of the earliest head).              *)
THEOREM MergesInTimeOrder == SpoolSpec => []TimeOrdered
<1>1. SpoolInit => RecInv /\ ExtInv
  BY RecordInit, ExtInit
<1>2. RecInv /\ ExtInv /\ [SpoolNext]_spoolVars => (RecInv /\ ExtInv)'
  BY RecordStep, ExtStep
<1>3. ExtInv => TimeOrdered
  BY DEF ExtInv
<1> QED BY <1>1, <1>2, <1>3, PTL DEF SpoolSpec


-----------------------------------------------------------------------------
(* Nothing is missed. *)

(* The margin covers the second a file is named after and late packets,    *)
(* for every request with a window.                                        *)
WideMargin ==
  \A ask \in Asks :
    TicksPerSec + Jitter <= MarginOf(ask) + 1 \/ (ask.cli /\ ask.start = None)

(* A file pruned by name holds no packet of the window.                    *)
LEMMA PrunedIsOutside ==
  ASSUME WideMargin, RecInv, JobTypes, job.ask \in Asks, ~BadRequest(job.ask),
         job.start = WindowOf(job.ask)[1], job.end = WindowOf(job.ask)[2], NEW i \in DOMAIN file, NEW k,
         k \in 1 .. Len(Listed(file[i].thread)), Listed(file[i].thread)[k] = i,
         Pruned(Listed(file[i].thread), k), NEW p \in 1 .. Len(file[i].packets)
  PROVE  ~Wanted(i, p)
<1> DEFINE t == file[i].thread
           L == Listed(t)
           ts == file[i].packets[p].ts
           slack == MarginOf(job.ask)
<1>1. /\ L \in Seq(Nat)
      /\ \A n \in 1 .. Len(L) : L[n] \in FilesOf(t)
      /\ \A m, n \in 1 .. Len(L) : m < n => L[m] < L[n]
  BY ListedFiles DEF RecInv
<1>2. /\ slack \in Nat /\ Jitter \in Nat /\ TicksPerSec \in Nat \ {0} /\ job.start \in Nat
      /\ job.end \in Nat \cup {None} /\ None \notin Nat
  BY SpoolAssumption DEF JobTypes, MarginOf
<1>3. ts \in Nat /\ file[i].name * TicksPerSec <= ts + Jitter
  BY FileTypes DEF RecInv, FilesOK, PacketOK
<1>4. Wanted(i, p) => job.start <= ts /\ (job.end = None \/ ts <= job.end)
  BY <1>2, <1>3 DEF Wanted, Past
<1>5. \A j \in DOMAIN file : file[j].name * TicksPerSec \in Nat
  BY <1>2, FileTypes DEF RecInv
<1>6. TicksPerSec + Jitter <= slack + 1 \/ (job.start = 0 /\ job.end = None)
  <2>1. TicksPerSec + Jitter <= slack + 1 \/ (job.ask.cli /\ job.ask.start = None)
    BY DEF WideMargin
  <2>2. CASE job.ask.cli /\ job.ask.start = None
    BY <2>2 DEF WindowOf, FreeForm, Mode
  <2> QED BY <2>1, <2>2
<1>7. CASE Past(file[i].name * TicksPerSec, slack)
  <2> DEFINE x == file[i].name * TicksPerSec
  <2>1. x \in Nat /\ job.end \in Nat /\ x > job.end + slack /\ x <= ts + Jitter
    BY <1>2, <1>3, <1>5, <1>7 DEF Past
  <2>2. Jitter <= slack
    BY <1>2, <1>6, <2>1
  <2> HIDE DEF x, ts, slack
  <2> QED BY <1>2, <1>3, <1>4, <2>1, <2>2
<1>8. CASE k < Len(L) /\ file[L[k + 1]].name * TicksPerSec < Before(job.start, slack)
  <2> DEFINE j == L[k + 1]
             x == file[j].name * TicksPerSec
  <2>1. k \in Nat /\ k + 1 \in 1 .. Len(L) /\ k \in 1 .. Len(L) /\ L[k] = i
    BY <1>1, <1>8
  <2>2. j \in DOMAIN file /\ file[j].thread = file[i].thread /\ i < j
    BY <1>1, <2>1 DEF FilesOf
  <2>3. ts < x + TicksPerSec + Jitter
    BY <2>2 DEF RecInv, RotationOK
  <2>4. x \in Nat /\ x < Before(job.start, slack)
    BY <1>5, <1>8, <2>2
  <2> HIDE DEF x, ts, slack
  <2>5. job.start > slack /\ x < job.start - slack
    BY <1>2, <2>4 DEF Before
  <2>6. TicksPerSec + Jitter <= slack + 1
    BY <1>2, <1>6, <2>5
  <2> QED BY <1>2, <1>3, <1>4, <2>3, <2>4, <2>5, <2>6
<1> QED BY <1>7, <1>8 DEF Pruned

(* List: every wanted packet on disk is in a cursor, since a file pruned   *)
(* by name holds none.                                                     *)
LEMMA ListKnows ==
  ASSUME WideMargin, RecInv, RecInv', ExtInv, List
  PROVE  KnownOK'
<1>1. /\ file' = file /\ known' = [i \in DOMAIN file |-> IF file[i].there THEN Len(file[i].packets) ELSE 0]
      /\ SameRequest
  <2>1. job' \in {[job EXCEPT !.pc = "over", !.result = "no-candidate-files"], [job EXCEPT !.pc = "fill"]}
        /\ file' = file /\ known' = [i \in DOMAIN file |-> IF file[i].there THEN Len(file[i].packets) ELSE 0]
    BY DEF List
  <2> QED BY <2>1 DEF SameRequest, ExtInv, JobTypes
<1>2. \A i \in DOMAIN file : file[i].there => ListedOrPruned(i)
  BY ThreadCursors, DirectoryCursor DEF ExtInv, JobTypes
<1>3. ASSUME NEW i \in DOMAIN known'
      PROVE  /\ i \in DOMAIN file' /\ known'[i] \in 0 .. Len(file'[i].packets)
             /\ \A k \in 1 .. known'[i] : Wanted(i, k)' => Covered(i, k)'
  <2>1. i \in DOMAIN file /\ Len(file[i].packets) \in Nat
    BY <1>1, FileTypes DEF RecInv
  <2>2. known'[i] = IF file[i].there THEN Len(file[i].packets) ELSE 0
    BY <1>1, <2>1
  <2>3. ASSUME NEW k \in 1 .. known'[i], Wanted(i, k)' PROVE Covered(i, k)'
    <3>1. file[i].there /\ k \in 1 .. Len(file[i].packets)
      BY <2>1, <2>2
    <3>2. Wanted(i, k)
      BY <1>1, <2>3 DEF Wanted, Past, Matches, SameRequest
    <3>3. ListedOrPruned(i)
      BY <1>2, <2>1, <3>1
    <3>4. PICK n \in DOMAIN cursor' : In(i, cursor'[n].files)
      <4>1. /\ JobTypes /\ job.ask \in Asks /\ ~BadRequest(job.ask)
            /\ job.start = WindowOf(job.ask)[1] /\ job.end = WindowOf(job.ask)[2]
        <5>1. job.pc = "list"
          BY DEF List
        <5> QED BY <5>1 DEF ExtInv, JobOK
      <4> QED BY <2>1, <3>1, <3>2, <3>3, <4>1, PrunedIsOutside DEF ListedOrPruned
    <3>5. Left(cursor'[n], i, k)
      BY <3>4 DEF Left
    <3> QED BY <3>5 DEF Covered
  <2> QED BY <1>1, <2>1, <2>2, <2>3
<1> QED BY <1>3 DEF KnownOK

(* A wanted packet stays covered.                                          *)
LEMMA CoveredKept ==
  ASSUME RecInv, RecInv', Grows, SameRequest, KnownOK, known' = known,
         \A i \in DOMAIN file : \A k \in 1 .. Len(file[i].packets) :
           Wanted(i, k) /\ Covered(i, k) => Covered(i, k)'
  PROVE  KnownOK'
<1> SUFFICES ASSUME NEW i \in DOMAIN known
             PROVE  /\ i \in DOMAIN file' /\ known[i] \in 0 .. Len(file'[i].packets)
                    /\ \A k \in 1 .. known[i] : Wanted(i, k)' => Covered(i, k)'
  BY DEF KnownOK
<1>1. i \in DOMAIN file /\ known[i] \in 0 .. Len(file[i].packets)
      /\ \A k \in 1 .. known[i] : Wanted(i, k) => Covered(i, k)
  BY DEF KnownOK
<1>2. i \in 1 .. Len(file) /\ Len(file[i].packets) \in Nat
  BY <1>1, FileTypes DEF RecInv
<1>3. i \in DOMAIN file' /\ Len(file[i].packets) <= Len(file'[i].packets)
  BY <1>2 DEF Grows, FileGrows, RecInv, RecordTypes
<1>4. Len(file'[i].packets) \in Nat
  <2>1. file'[i] \in File
    BY <1>3 DEF RecInv, RecordTypes
  <2> QED BY <2>1 DEF File
<1>5. ASSUME NEW k \in 1 .. known[i], Wanted(i, k)' PROVE Covered(i, k)'
  <2>1. k \in 1 .. Len(file[i].packets)
    BY <1>1, <1>2
  <2>2. Wanted(i, k)
    BY <1>1, <1>5, <2>1, WantedSame
  <2> QED BY <1>1, <2>1, <2>2
<1> QED BY <1>1, <1>2, <1>3, <1>4, <1>5

(* Steps that move no cursor and write nothing.                            *)
LEMMA StillCovered ==
  ASSUME RecInv, RecInv', Grows, SameRequest, KnownOK, UNCHANGED <<cursor, out, known>>,
         stats'.vanished = stats.vanished, stats'.link = stats.link
  PROVE  KnownOK'
<1>1. ASSUME NEW i \in DOMAIN file, NEW k \in 1 .. Len(file[i].packets), Covered(i, k)
      PROVE  Covered(i, k)'
  <2>1. i \in 1 .. Len(file)
    BY FileTypes DEF RecInv
  <2>2. file'[i].packets[k] = file[i].packets[k] /\ file'[i].link = file[i].link
    BY <2>1 DEF Grows, FileGrows
  <2> QED BY <1>1, <2>2 DEF Covered, Compiles, SameRequest
<1> QED BY <1>1, CoveredKept

(* A step of one cursor: what it no longer offers went out, or its file    *)
(* could not be used.                                                      *)
LEMMA MovedCovered ==
  ASSUME RecInv, RecInv', Grows, SameRequest, KnownOK, known' = known, file' = file,
         NEW n \in DOMAIN cursor, NEW d, DOMAIN cursor' = DOMAIN cursor, cursor'[n] = d,
         \A m \in DOMAIN cursor : m # n => cursor'[m] = cursor[m],
         \A m \in DOMAIN out : m \in DOMAIN out' /\ out'[m] = out[m],
         stats.vanished \subseteq stats'.vanished, stats.link \in {None, stats'.link},
         \A i \in DOMAIN file : \A k \in 1 .. Len(file[i].packets) :
           Wanted(i, k) /\ Left(cursor[n], i, k) =>
             \/ Left(d, i, k)
             \/ \E m \in DOMAIN out' : out'[m] = file[i].packets[k]
             \/ i \in stats'.vanished \/ stats'.link \notin {None, file[i].link}
             \/ ~Compiles(job.ask, file[i].link)
  PROVE  KnownOK'
<1>1. ASSUME NEW i \in DOMAIN file, NEW k \in 1 .. Len(file[i].packets), Wanted(i, k), Covered(i, k)
      PROVE  Covered(i, k)'
  <2>1. ~Compiles(job.ask, file[i].link) => ~Compiles(job.ask, file[i].link)'
    BY DEF Compiles, FilterOf, Mode, SameRequest
  <2>2. CASE \E m \in DOMAIN cursor : Left(cursor[m], i, k)
    <3>1. PICK m \in DOMAIN cursor : Left(cursor[m], i, k)
      BY <2>2
    <3>2. CASE m = n
      BY <1>1, <2>1, <3>1, <3>2 DEF Covered
    <3>3. CASE m # n
      BY <3>1, <3>3 DEF Covered
    <3> QED BY <3>2, <3>3
  <2>3. CASE \E m \in DOMAIN out : out[m] = file[i].packets[k]
    BY <2>3 DEF Covered
  <2>4. CASE i \in stats.vanished
    BY <2>4 DEF Covered
  <2>5. CASE stats.link \notin {None, file[i].link}
    BY <2>5 DEF Covered
  <2>6. CASE ~Compiles(job.ask, file[i].link)
    BY <2>1, <2>6 DEF Covered
  <2> QED BY <1>1, <2>2, <2>3, <2>4, <2>5, <2>6 DEF Covered
<1> QED BY <1>1, CoveredKept


(* Opening a file: what it held is left to read, or the file was gone, or  *)
(* the expression does not compile for it.                                 *)
LEMMA OpenFileCovers ==
  ASSUME RecInv, RecInv', Grows, ExtInv, KnownOK, OpenFile
  PROVE  KnownOK'
<1> DEFINE c == cursor[at]
           h == Head(c.files)
           r == Tail(c.files)
           d == [files |-> r, pos |-> 0, pending |-> 0,
                 open |-> IF file[h].there /\ Compiles(job.ask, file[h].link) THEN h ELSE 0]
<1>1. /\ Filling /\ c.open = 0 /\ c.files # <<>> /\ UNCHANGED <<out, known, file>>
      /\ stats' = IF ~file[h].there THEN [stats EXCEPT !.vanished = @ \cup {h}]
                  ELSE [stats EXCEPT !.scanned = @ + 1,
                                     !.compiled = @ \/ Compiles(job.ask, file[h].link),
                                     !.failed = @ \/ ~Compiles(job.ask, file[h].link)]
  BY DEF OpenFile, fillRest
<1>2. at \in DOMAIN cursor /\ c \in CursorType
  BY <1>1, FilledCursor
<1>3. /\ SameRequest /\ DOMAIN cursor' = DOMAIN cursor /\ cursor'[at] = d
      /\ \A m \in DOMAIN cursor : m # at => cursor'[m] = cursor[m]
  BY OpenFileKeeps
<1>4. /\ stats.vanished \subseteq stats'.vanished /\ stats'.link = stats.link
      /\ ~file[h].there => h \in stats'.vanished
  <2>1. stats \in [scanned : Nat, vanished : SUBSET Nat, compiled : BOOLEAN, failed : BOOLEAN,
                   link : Links \cup {None}, stop : {"none", "cancelled", "deadline"}]
    BY DEF ExtInv, JobTypes
  <2> HIDE DEF h
  <2>2. CASE ~file[h].there
    BY <1>1, <2>1, <2>2
  <2>3. CASE file[h].there
    BY <1>1, <2>1, <2>3
  <2> QED BY <2>2, <2>3
<1>5. /\ c.files \in Seq(Nat) /\ DOMAIN c.files = 1 .. Len(c.files) /\ Len(c.files) \in Nat
      /\ h = c.files[1] /\ DOMAIN r = 1 .. Len(c.files) - 1
      /\ \A m \in 1 .. Len(c.files) - 1 : r[m] = c.files[m + 1]
  BY <1>1, <1>2 DEF CursorType
<1> HIDE DEF c, r, h
<1>6. ASSUME NEW i \in DOMAIN file, NEW k \in 1 .. Len(file[i].packets), Left(c, i, k)
      PROVE  Left(d, i, k) \/ i \in stats'.vanished \/ ~Compiles(job.ask, file[i].link)
  <2>1. i # 0 /\ 0 < k
    BY FileTypes DEF RecInv
  <2>2. PICK m \in 1 .. Len(c.files) : c.files[m] = i
    BY <1>1, <1>5, <1>6, <2>1 DEF Left, In
  <2>3. CASE m = 1
    <3>1. h = i
      BY <1>5, <2>2, <2>3
    <3>2. file[i].there /\ Compiles(job.ask, file[i].link) => d.open = i /\ d.pos = 0
      BY <3>1
    <3> QED BY <1>4, <2>1, <3>1, <3>2 DEF Left
  <2>4. CASE m # 1
    <3>1. m - 1 \in 1 .. Len(c.files) - 1 /\ c.files[(m - 1) + 1] = i
      BY <1>5, <2>2, <2>4
    <3>2. m - 1 \in DOMAIN r /\ r[m - 1] = i
      BY <1>5, <3>1
    <3> QED BY <3>2 DEF Left, In
  <2> QED BY <2>3, <2>4
<1> HIDE DEF d
<1> QED BY <1>1, <1>2, <1>3, <1>4, <1>6, MovedCovered DEF c

(* What is read over is not wanted.                                        *)
LEMMA ReadPacketCovers ==
  ASSUME RecInv, RecInv', Grows, ExtInv, KnownOK, ReadPacket
  PROVE  KnownOK'
<1> DEFINE c == cursor[at]
           p == CHOOSE k \in NextWanted(c) : \A j \in NextWanted(c) : k <= j
           d == [files |-> c.files, open |-> c.open, pos |-> p, pending |-> p]
<1>1. Filling /\ c.open # 0 /\ NextWanted(c) # {} /\ UNCHANGED <<out, known, file, stats>>
  BY DEF ReadPacket, fillRest
<1>2. at \in DOMAIN cursor /\ c \in CursorType /\ CursorOK(c) /\ c.pending = 0
  BY <1>1, FilledCursor
<1>3. /\ SameRequest /\ DOMAIN cursor' = DOMAIN cursor /\ cursor'[at] = d
      /\ \A m \in DOMAIN cursor : m # at => cursor'[m] = cursor[m]
  BY ReadPacketKeeps
<1>4. p \in c.pos + 1 .. Len(file[c.open].packets) /\ \A j \in NextWanted(c) : p <= j
  BY <1>1, <1>2, FirstWanted
<1> HIDE DEF p, c
<1>5. ASSUME NEW i \in DOMAIN file, NEW k \in 1 .. Len(file[i].packets), Wanted(i, k), Left(c, i, k)
      PROVE  Left(d, i, k)
  <2>1. d.files = c.files /\ d.open = c.open /\ d.pos = p /\ d.pending = p
    OBVIOUS
  <2>2. CASE In(i, c.files)
    BY <2>1, <2>2 DEF Left
  <2>3. CASE c.open = i /\ c.pos < k
    <3>1. c.pos \in Nat /\ Len(file[i].packets) \in Nat /\ k \in Nat
      BY <1>2, FileTypes DEF CursorType, RecInv
    <3>2. k \in NextWanted(c)
      BY <1>5, <2>3, <3>1 DEF NextWanted
    <3>3. p <= k /\ p \in Nat
      BY <1>4, <2>3, <3>1, <3>2
    <3> QED BY <2>1, <2>3, <3>1, <3>3 DEF Left
  <2> QED BY <1>2, <1>5, <2>2, <2>3 DEF Left
<1> HIDE DEF d
<1>6. stats.link \in {None, stats'.link}
  BY <1>1
<1> QED BY <1>1, <1>2, <1>3, <1>5, <1>6, MovedCovered DEF c

(* Nothing wanted is left in a file that is closed at its end.             *)
LEMMA EndOfFileCovers ==
  ASSUME RecInv, RecInv', Grows, ExtInv, KnownOK, EndOfFile
  PROVE  KnownOK'
<1> DEFINE c == cursor[at]
           d == [files |-> c.files, open |-> 0, pos |-> c.pos, pending |-> 0]
<1>1. Filling /\ c.open # 0 /\ NextWanted(c) = {} /\ UNCHANGED <<out, known, file, stats>>
  BY DEF EndOfFile, fillRest
<1>2. at \in DOMAIN cursor /\ c \in CursorType /\ CursorOK(c) /\ c.pending = 0
  BY <1>1, FilledCursor
<1>3. /\ SameRequest /\ DOMAIN cursor' = DOMAIN cursor /\ cursor'[at] = d
      /\ \A m \in DOMAIN cursor : m # at => cursor'[m] = cursor[m]
  BY EndOfFileKeeps
<1> HIDE DEF c
<1>4. ASSUME NEW i \in DOMAIN file, NEW k \in 1 .. Len(file[i].packets), Wanted(i, k), Left(c, i, k)
      PROVE  Left(d, i, k)
  <2>1. CASE In(i, c.files)
    BY <2>1 DEF Left
  <2>2. CASE c.open = i /\ c.pos < k
    <3>1. c.pos \in Nat /\ Len(file[i].packets) \in Nat /\ k \in Nat
      BY <1>2, FileTypes DEF CursorType, RecInv
    <3>2. k \in NextWanted(c)
      BY <1>4, <2>2, <3>1 DEF NextWanted
    <3> QED BY <1>1, <3>2
  <2> QED BY <1>2, <1>4, <2>1, <2>2 DEF Left
<1> HIDE DEF d
<1>5. stats.link \in {None, stats'.link}
  BY <1>1
<1> QED BY <1>1, <1>2, <1>3, <1>4, <1>5, MovedCovered DEF c

(* A file that is skipped has another link type than the output.           *)
LEMMA SkipFileCovers ==
  ASSUME RecInv, RecInv', Grows, ExtInv, KnownOK, NEW n \in DOMAIN cursor, SkipFile(n)
  PROVE  KnownOK'
<1> DEFINE c == cursor[n]
           d == [files |-> c.files, open |-> 0, pos |-> c.pos, pending |-> 0]
<1>1. /\ Pending(n) /\ stats.link \notin {None, file[c.open].link}
      /\ UNCHANGED <<out, known, file, stats>>
  BY DEF SkipFile, Earliest, fillRest
<1>2. /\ SameRequest /\ DOMAIN cursor' = DOMAIN cursor /\ cursor'[n] = d
      /\ \A m \in DOMAIN cursor : m # n => cursor'[m] = cursor[m]
  BY SkipFileKeeps
<1> HIDE DEF c
<1>3. ASSUME NEW i \in DOMAIN file, NEW k \in 1 .. Len(file[i].packets), Left(c, i, k)
      PROVE  Left(d, i, k) \/ stats'.link \notin {None, file[i].link}
  BY <1>1, <1>3 DEF Left
<1> HIDE DEF d
<1>4. stats.link \in {None, stats'.link} /\ stats.vanished \subseteq stats'.vanished
      /\ \A m \in DOMAIN out : m \in DOMAIN out' /\ out'[m] = out[m]
  BY <1>1
<1> QED BY <1>1, <1>2, <1>3, <1>4, MovedCovered DEF c

(* A packet that is written is in the output.                              *)
LEMMA WritePacketCovers ==
  ASSUME RecInv, RecInv', Grows, ExtInv, KnownOK, NEW n \in DOMAIN cursor, WritePacket(n)
  PROVE  KnownOK'
<1> DEFINE c == cursor[n]
           d == [files |-> c.files, open |-> c.open, pos |-> c.pos, pending |-> 0]
<1>1. /\ Pending(n) /\ stats.link \in {None, file[c.open].link} /\ UNCHANGED <<known, file>>
      /\ stats' = [stats EXCEPT !.link = file[c.open].link]
  BY DEF WritePacket, Earliest
<1>2. /\ SameRequest /\ DOMAIN cursor' = DOMAIN cursor /\ cursor'[n] = d
      /\ \A m \in DOMAIN cursor : m # n => cursor'[m] = cursor[m]
      /\ Len(out) + 1 \in DOMAIN out' /\ out'[Len(out) + 1] = HeadOf(n)
      /\ \A m \in DOMAIN out : m \in DOMAIN out' /\ out'[m] = out[m]
  BY WritePacketKeeps
<1>3. c \in CursorType /\ HeadOf(n) = file[c.open].packets[c.pending] /\ c.pending = c.pos
  BY <1>1, PendingPacket
<1>4. stats.link \in {None, stats'.link} /\ stats.vanished \subseteq stats'.vanished
  BY <1>1 DEF ExtInv, JobTypes
<1> HIDE DEF c
<1>5. ASSUME NEW i \in DOMAIN file, NEW k \in 1 .. Len(file[i].packets), Left(c, i, k)
      PROVE  Left(d, i, k) \/ \E m \in DOMAIN out' : out'[m] = file[i].packets[k]
  <2>1. CASE c.open = i /\ k = c.pending
    BY <1>2, <1>3, <2>1
  <2>2. CASE In(i, c.files) \/ (c.open = i /\ c.pos < k)
    BY <2>2 DEF Left
  <2> QED BY <1>5, <2>1, <2>2 DEF Left
<1> HIDE DEF d
<1> QED BY <1>1, <1>2, <1>4, <1>5, MovedCovered DEF c


(* Listing makes every wanted packet on disk one to come; later steps keep *)
(* it so, or write it, or note why its file could not be used.             *)
LEMMA KnownInit ==
  ASSUME SpoolInit
  PROVE  KnownOK
BY DEF SpoolInit, KnownOK

(* Every step keeps the wanted packets covered.                            *)
LEMMA KnownStep ==
  ASSUME WideMargin, RecInv, ExtInv, KnownOK, [SpoolNext]_spoolVars
  PROVE  KnownOK'
<1>1. RecInv' /\ Grows
  BY RecordStep
<1>2. CASE List
  BY <1>1, <1>2, ListKnows
<1>3. CASE \E ask \in Asks : Start(ask)
  <2>1. job.pc = "idle" /\ known' = known
    BY <1>3 DEF Start
  <2>2. known' = <<>>
    BY <2>1 DEF ExtInv, JobOK
  <2> QED BY <2>2 DEF KnownOK
<1>4. CASE Fetch
  <2>1. CASE OpenFile
    BY <1>1, <2>1, OpenFileCovers
  <2>2. CASE ReadPacket
    BY <1>1, <2>2, ReadPacketCovers
  <2>3. CASE EndOfFile
    BY <1>1, <2>3, EndOfFileCovers
  <2>4. CASE GroupExhausted
    <3>1. SameRequest
      BY <1>1, <2>4, GroupExhaustedKeeps
    <3> QED BY <1>1, <2>4, <3>1, StillCovered DEF GroupExhausted, fillRest
  <2>5. CASE Finish
    <3>1. SameRequest
      BY <1>1, <2>5, FinishKeeps
    <3> QED BY <1>1, <2>5, <3>1, StillCovered DEF Finish, fillRest
  <2>6. CASE OutOfDescriptors \/ \E n \in DOMAIN cursor : SizeReached(n)
    <3>1. SameRequest
      BY <1>1, <2>6, GivenUpKeeps
    <3>2. UNCHANGED <<cursor, out, known, stats>>
      BY <2>6 DEF OutOfDescriptors, SizeReached, fillRest
    <3> QED BY <1>1, <3>1, <3>2, StillCovered
  <2>7. CASE \E n \in DOMAIN cursor : SkipFile(n)
    BY <1>1, <2>7, SkipFileCovers
  <2>8. CASE \E n \in DOMAIN cursor : WritePacket(n)
    BY <1>1, <2>8, WritePacketCovers
  <2> QED BY <1>4, <2>1, <2>2, <2>3, <2>4, <2>5, <2>6, <2>7, <2>8 DEF Fetch
<1>5. CASE Stops
  <2>1. PICK why \in {"cancelled", "deadline"} : Stop(why)
    BY <1>5 DEF Stops
  <2>2. SameRequest
    BY <1>1, <2>1, StopKeeps
  <2>3. stats'.vanished = stats.vanished /\ stats'.link = stats.link
    BY <2>1 DEF Stop, ExtInv, JobTypes
  <2> QED BY <1>1, <2>1, <2>2, <2>3, StillCovered DEF Stop, fillRest
<1>6. CASE Sensor \/ Purge \/ UNCHANGED spoolVars
  <2>1. UNCHANGED <<odd, job, cursor, at, stats, out, known>>
    BY <1>6 DEF Sensor, Purge, Tick, Record, Rotate, PurgeLists, PurgeDeletes, PurgeFails,
               PurgeEnds, spoolVars
  <2>2. SameRequest
    BY <2>1 DEF SameRequest
  <2> QED BY <1>1, <2>1, <2>2, StillCovered
<1> QED BY <1>2, <1>3, <1>4, <1>5, <1>6 DEF SpoolNext

(* The rendered filter matches every packet of the event's flow.           *)
LEMMA FlowIsMatched ==
  ASSUME NEW e, NEW p, InFlow(e, p)
  PROVE  ToBpf(Selector(e), p)
<1> DEFINE sel == Selector(e)
<1>1. /\ sel.proto = NormalizeProto(e) /\ sel.a = e.src /\ sel.b = e.dst /\ sel.v6 = e.v6
      /\ e.proto \in PortProtocols => sel.x = e.sport /\ sel.y = e.dport
      /\ sel.proto \in PortProtocols => e.proto \in PortProtocols
  BY DEF Selector, NormalizeProto, PortProtocols
<1> HIDE DEF sel
<1>2. p.proto = sel.proto /\ (p.frag => ~sel.v6) /\ Ends(sel, p)
  BY <1>1 DEF InFlow, Sent, Ends
<1>3. CASE p.frag
  <2>1. Fragments(sel, p)
    BY <1>2, <1>3 DEF Fragments
  <2> QED BY <1>2, <2>1 DEF ToBpf, sel
<1>4. CASE ~p.frag /\ sel.proto \in PortProtocols
  <2>1. \/ p.src = sel.a /\ p.dst = sel.b /\ sel.x \in {None, p.sport} /\ sel.y \in {None, p.dport}
        \/ p.src = sel.b /\ p.dst = sel.a /\ sel.y \in {None, p.sport} /\ sel.x \in {None, p.dport}
    BY <1>1, <1>4 DEF InFlow, Sent
  <2>2. sel.x # None /\ sel.y # None => Paired(sel, p)
    BY <2>1 DEF Paired
  <2>3. (sel.x = None) # (sel.y = None) => (IF sel.x = None THEN sel.y ELSE sel.x) \in {p.sport, p.dport}
    BY <2>1
  <2> QED BY <1>2, <1>4, <2>2, <2>3 DEF ToBpf, sel
<1>5. CASE sel.proto \notin PortProtocols
  BY <1>2, <1>5 DEF ToBpf, sel
<1> QED BY <1>3, <1>4, <1>5

(* The derived window holds the flow, or what led up to the event.         *)
LEMMA WindowIsWide ==
  ASSUME NEW ask \in Asks, ask.event # None, NEW ts \in Nat,
         ts >= (IF ask.event.start # None THEN ask.event.start ELSE ask.event.ts),
         ts <= (IF ask.event.type = "flow" /\ ask.event.start # None
                THEN (IF ask.event.end # None THEN ask.event.end ELSE ask.event.start)
                ELSE ask.event.ts)
  PROVE  DeriveWindow(ask.event)[1] <= ts /\ ts <= DeriveWindow(ask.event)[2]
<1> DEFINE e == ask.event
<1>1. /\ e.ts \in Nat /\ e.start \in Nat \cup {None} /\ e.end \in Nat \cup {None}
      /\ Minute \in Nat /\ TicksPerSec \in Nat
  BY SpoolAssumption DEF AskOK
<1>2. ASSUME NEW a \in Nat, NEW b \in Nat, a <= ts PROVE Before(a, b) <= ts
  BY <1>2 DEF Before
<1> HIDE DEF e
<1>3. CASE e.type = "flow" /\ e.start # None
  <2>1. DeriveWindow(e) = <<Before(e.start, Second),
                            IF e.end # None THEN e.end + Second ELSE e.start + Minute>>
    BY <1>3 DEF DeriveWindow
  <2>2. e.start \in Nat /\ e.start <= ts /\ Second \in Nat
    BY <1>1, <1>3 DEF e, Second
  <2>3. Before(e.start, Second) <= ts
    BY <1>2, <2>2
  <2>4. ts <= (IF e.end # None THEN e.end + Second ELSE e.start + Minute)
    BY <1>1, <1>3, <2>2 DEF e
  <2> QED BY <2>1, <2>3, <2>4 DEF e
<1>4. CASE e.type # "flow" /\ e.start # None
  <2>1. DeriveWindow(e) = <<Before(e.start, Second), e.ts + Minute>>
    BY <1>4 DEF DeriveWindow
  <2>2. e.start \in Nat /\ e.start <= ts /\ Second \in Nat
    BY <1>1, <1>4 DEF e, Second
  <2>3. Before(e.start, Second) <= ts
    BY <1>2, <2>2
  <2>4. ts <= e.ts + Minute
    BY <1>1, <1>4 DEF e
  <2> QED BY <2>1, <2>3, <2>4 DEF e
<1>5. CASE e.start = None
  <2>1. DeriveWindow(e) = <<Before(e.ts, Minute), e.ts + Minute>>
    BY <1>5 DEF DeriveWindow
  <2>2. Before(e.ts, Minute) <= ts /\ ts <= e.ts + Minute
    BY <1>1, <1>2, <1>5 DEF e
  <2> QED BY <2>1, <2>2 DEF e
<1> QED BY <1>3, <1>4, <1>5

(* What the user asked for is wanted, and its filter compiles.             *)
LEMMA AskedWanted ==
  ASSUME RecInv, ExtInv, job.result = "ok", NEW i \in DOMAIN file,
         NEW k \in 1 .. Len(file[i].packets), Asked(file[i].packets[k])
  PROVE  Wanted(i, k) /\ Compiles(job.ask, file[i].link)
<1> DEFINE p == file[i].packets[k]
           e == job.ask.event
<1>1. /\ job.ask \in Asks /\ ~BadRequest(job.ask)
      /\ job.start = WindowOf(job.ask)[1] /\ job.end = WindowOf(job.ask)[2]
      /\ job.start \in Nat /\ job.end \in Nat \cup {None} /\ None \notin Nat
  BY SpoolAssumption DEF ExtInv, JobOK, JobTypes
<1>2. p \in Pkt /\ p.ts \in Nat /\ p.kind \in Kinds /\ (p.kind.vlan => file[i].link = "ethernet")
  <2>1. p \in Pkt /\ PacketOK(file[i], i, k, clock)
    BY FileTypes DEF RecInv, FilesOK
  <2> QED BY <2>1 DEF Pkt, PacketOK
<1>3. CASE Mode(job.ask) = "default"
  <2>1. FilterOf(job.ask) = "flow"
    BY <1>3 DEF FilterOf
  <2>2. e # None /\ ~BadEvent(e)
    BY <1>1, <1>3, <2>1 DEF BadRequest
  <2>3. /\ p.kind.flow = e.flow
        /\ p.ts >= (IF e.start # None THEN e.start ELSE e.ts)
        /\ p.ts <= (IF e.type = "flow" /\ e.start # None
                    THEN (IF e.end # None THEN e.end ELSE e.start) ELSE e.ts)
    BY <1>3 DEF Asked
  <2>4. DeriveWindow(e)[1] <= p.ts /\ p.ts <= DeriveWindow(e)[2]
    BY <1>1, <1>2, <2>2, <2>3, WindowIsWide
  <2>5. job.start = DeriveWindow(e)[1] /\ job.end = DeriveWindow(e)[2]
    BY <1>1, <1>3 DEF WindowOf
  <2>6. p.ts >= job.start /\ ~Past(p.ts, 0)
    <3>1. DeriveWindow(e)[2] \in Nat
      <4>1. e.ts \in Nat /\ {e.start, e.end} \subseteq Nat \cup {None}
        BY <1>1, <2>2, SpoolAssumption DEF AskOK
      <4> QED BY <4>1, DerivedTypes
    <3> HIDE DEF p
    <3> QED BY <1>1, <1>2, <2>4, <2>5, <3>1 DEF Past
  <2>7. InFlow(e, p.kind)
    BY <1>1, <1>2, <2>2, <2>3, FlowAssumption
  <2>8. ToBpf(Selector(e), p.kind)
    BY <2>7, FlowIsMatched
  <2>9. Matches(p, file[i].link)
    BY <1>2, <2>1, <2>8 DEF Matches, FlowMatches
  <2> QED BY <2>1, <2>6, <2>9 DEF Wanted, Compiles
<1>4. CASE Mode(job.ask) # "default"
  <2>0. /\ Mode(job.ask) = "freeform" /\ job.ask.filter = None
        /\ job.ask.start # None => p.ts >= job.ask.start
        /\ job.ask.duration # None => p.ts <= job.ask.start + job.ask.duration
        /\ ~job.ask.cli /\ job.ask.duration = None => p.ts <= job.ask.start + Minute
    BY <1>4 DEF Asked
  <2>1. /\ p.ts >= job.start /\ ~Past(p.ts, 0) /\ Mode(job.ask) = "freeform" /\ job.ask.filter = None
    <3>1. AskOK(job.ask) /\ Minute \in Nat
      BY <1>1, SpoolAssumption
    <3>2. job.start = FreeForm(job.ask)[1] /\ job.end = FreeForm(job.ask)[2]
      BY <1>1, <2>0 DEF WindowOf
    <3> HIDE DEF p
    <3>3. CASE job.ask.start = None
      BY <1>1, <1>2, <2>0, <3>2, <3>3 DEF FreeForm, Past
    <3>4. CASE job.ask.start # None /\ job.ask.cli /\ job.ask.duration = None
      BY <1>1, <1>2, <2>0, <3>2, <3>4 DEF FreeForm, Past
    <3>5. CASE job.ask.start # None /\ ~(job.ask.cli /\ job.ask.duration = None)
      <4>1. /\ job.start = job.ask.start /\ job.end = job.ask.start + Span(job.ask.duration)
            /\ job.ask.start \in Nat /\ job.ask.duration \in Nat \cup {None}
        BY <1>1, <3>1, <3>2, <3>5 DEF FreeForm, AskOK
      <4>2. p.ts <= job.ask.start + Span(job.ask.duration)
        BY <2>0, <3>5 DEF Span
      <4>3. Span(job.ask.duration) \in Nat
        BY <3>1, <4>1 DEF Span
      <4> QED BY <1>1, <1>2, <2>0, <4>1, <4>2, <4>3 DEF Past
    <3> QED BY <3>3, <3>4, <3>5
  <2>2. FilterOf(job.ask) = "all"
    BY <2>1 DEF FilterOf
  <2> QED BY <2>1, <2>2 DEF Wanted, Matches, Compiles
<1> QED BY <1>3, <1>4

(* When every cursor is spent, what was asked for is in the output or its  *)
(* file could not be used.                                                 *)
LEMMA AllIsThere ==
  ASSUME RecInv, ExtInv, KnownOK
  PROVE  NothingMissed
<1> SUFFICES ASSUME job.result = "ok", NEW i \in DOMAIN known, NEW k \in 1 .. known[i],
                    Asked(file[i].packets[k]), file[i].link = stats.link, i \notin stats.vanished
             PROVE  \E n \in DOMAIN out : out[n] = file[i].packets[k]
  BY DEF NothingMissed
<1>1. i \in DOMAIN file /\ known[i] \in 0 .. Len(file[i].packets) /\ (Wanted(i, k) => Covered(i, k))
  BY DEF KnownOK
<1>2. k \in 1 .. Len(file[i].packets) /\ i # 0 /\ file[i].link \in Links
  BY <1>1, FileTypes DEF RecInv
<1>3. Wanted(i, k) /\ Compiles(job.ask, file[i].link)
  BY <1>1, <1>2, AskedWanted
<1>4. ASSUME NEW n \in DOMAIN cursor PROVE ~Left(cursor[n], i, k)
  <2>1. Spent(cursor[n])
    BY DEF ExtInv, FillOK
  <2> QED BY <1>2, <2>1 DEF Spent, Left, In
<1> QED BY <1>1, <1>3, <1>4 DEF Covered

(* NothingMissed: where the margin covers the second a file name leaves    *)
(* open and the packets written late, a successful extraction has every    *)
(* packet asked for that was on disk when the spool was listed             *)
(* (load_files' pruning by name, derive_window, to_bpf and the merge).     *)
THEOREM NothingIsMissed ==
  ASSUME WideMargin
  PROVE  SpoolSpec => []NothingMissed
<1>1. SpoolInit => RecInv /\ ExtInv /\ KnownOK
  BY RecordInit, ExtInit, KnownInit
<1>2. RecInv /\ ExtInv /\ KnownOK /\ [SpoolNext]_spoolVars => (RecInv /\ ExtInv /\ KnownOK)'
  BY RecordStep, ExtStep, KnownStep
<1>3. RecInv /\ ExtInv /\ KnownOK => NothingMissed
  BY AllIsThere
<1> QED BY <1>1, <1>2, <1>3, PTL DEF SpoolSpec

=============================================================================
