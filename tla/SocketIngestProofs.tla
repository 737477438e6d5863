-------------------------- MODULE SocketIngestProofs --------------------------
(***************************************************************************)
(* Proofs about SocketIngest: the types, and that every record written to  *)
(* the socket has exactly one fate (OneFate), for any number of records,   *)
(* any capacity of the queue in records and in bytes, and any number of    *)
(* failed reads and commits.                                               *)
(***************************************************************************)
EXTENDS SocketIngest, FiniteSetTheorems, TLAPS

-----------------------------------------------------------------------------
(* The inductive invariant.                                                *)

PartsOf(w) == {w[k][1] : k \in 1 .. Len(w)}
Elems(q) == {q[k] : k \in 1 .. Len(q)}
Once(q) == \A j, k \in 1 .. Len(q) : q[j] = q[k] => j = k
Held(Q) == {x \in Q \X {1, 2} : x[2] <= Size(x[1])}

(* Records are on the wire in the order of writing, the last part of one   *)
(* before any part of the next, and nothing between its two parts.         *)
InOrder(w) ==
  /\ \A j, k \in 1 .. Len(w) : j < k => w[j][1] <= w[k][1]
  /\ \A j, k \in 1 .. Len(w) : j < k /\ w[j][2] => w[j][1] < w[k][1]
  /\ \A k \in 1 .. Len(w) : k + 1 <= Len(w) /\ ~w[k][2] => w[k + 1] = <<w[k][1], TRUE>>

(* While the connection is open, what the sender has not terminated is the *)
(* last thing on the wire, or in the buffer when the wire is empty.        *)
SenderState ==
  /\ half => /\ link = "open" /\ Len(wrote) > 0
             /\ wire = <<>> => buf = Len(wrote)
             /\ wire # <<>> => wire[Len(wire)] = <<Len(wrote), FALSE>>
  /\ link = "open" /\ ~half => /\ wire = <<>> => buf = 0
                               /\ wire # <<>> => wire[Len(wire)][2]

(* A part in the buffer waits for its rest, which is the next on the wire. *)
BufferState ==
  /\ buf <= Len(wrote)
  /\ buf # 0 /\ wire # <<>> => wire[1] = <<buf, TRUE>>
  /\ buf # 0 => rpc = "read"
  /\ got => buf # 0
  /\ link = "none" => wire = <<>> /\ rpc = "accept"
  /\ stype = "dgram" => ~half /\ buf = 0 /\ \A k \in 1 .. Len(wire) : wire[k][2]

(* The records written are split between the six places.                   *)
Split(W, Q, P, D, R, L, n) ==
  /\ W \cup Q \cup P \cup D \cup R \cup L = 1 .. n
  /\ W \cap Q = {} /\ W \cap P = {} /\ W \cap D = {} /\ W \cap R = {} /\ W \cap L = {}
  /\ Q \cap P = {} /\ Q \cap D = {} /\ Q \cap R = {} /\ Q \cap L = {}
  /\ P \cap D = {} /\ P \cap R = {} /\ P \cap L = {}
  /\ D \cap R = {} /\ D \cap L = {} /\ R \cap L = {}

Arriving == PartsOf(wire) \cup ({buf} \ {0})

FateState ==
  Split(Arriving, Elems(queue), pending \cup stored, dropped, rejected, lost, Len(wrote))

QueueState == Once(queue) /\ budget + Cardinality(Held(Elems(queue))) = ByteCapacity

(* The types, in the two halves that the actions of reader and processor   *)
(* disturb apart from each other.                                          *)
TypeInput ==
  /\ stype \in Types /\ half \in BOOLEAN /\ got \in BOOLEAN
  /\ wrote \in Seq(Kinds) /\ Len(wrote) <= MaxRecords
  /\ link \in {"none", "open", "closed"} /\ rpc \in {"accept", "read"}
  /\ wire \in Seq(Record \X BOOLEAN)
  /\ buf \in 0 .. MaxRecords
  /\ cut \subseteq Record /\ lost \subseteq Record
  /\ faults \in 0 .. MaxFaults

TypeQueue ==
  /\ queue \in Seq(Record) /\ Len(queue) <= RecordCapacity
  /\ budget \in 0 .. ByteCapacity
  /\ dropped \subseteq Record /\ rejected \subseteq Record
  /\ ppc \in {"recv", "commit"}
  /\ pending \subseteq Record /\ stored \subseteq Record

InputState == TypeInput /\ InOrder(wire) /\ SenderState /\ BufferState

SockInv == InputState /\ TypeQueue /\ FateState /\ QueueState

-----------------------------------------------------------------------------
(* Sequences: what Tail and Append do to the parts and to the records.     *)

(* What Tail leaves of a sequence.                                         *)
LEMMA TailOf ==
  ASSUME NEW S, NEW s \in Seq(S), s # <<>>
  PROVE  /\ Tail(s) \in Seq(S) /\ Len(s) \in Nat \ {0} /\ Len(Tail(s)) = Len(s) - 1
         /\ \A k \in 1 .. Len(Tail(s)) : Tail(s)[k] = s[k + 1]
         /\ Head(s) = s[1] /\ s[1] \in S
OBVIOUS

(* What Append makes of a sequence.                                        *)
LEMMA AppendTo ==
  ASSUME NEW S, NEW s \in Seq(S), NEW e \in S
  PROVE  /\ Append(s, e) \in Seq(S) /\ Len(s) \in Nat /\ Len(Append(s, e)) = Len(s) + 1
         /\ \A k \in 1 .. Len(s) : Append(s, e)[k] = s[k]
         /\ Append(s, e)[Len(s) + 1] = e
OBVIOUS

(* A sequence is empty when its length is zero.                            *)
LEMMA EmptyIff ==
  ASSUME NEW S, NEW s \in Seq(S)
  PROVE  Len(s) \in Nat /\ (s = <<>> <=> Len(s) = 0)
OBVIOUS

(* Parts leave the wire at its head, and the rest stays in order.          *)
LEMMA TailOfWire ==
  ASSUME NEW w \in Seq(Record \X BOOLEAN), w # <<>>, InOrder(w)
  PROVE  /\ InOrder(Tail(w))
         /\ PartsOf(w) = {w[1][1]} \cup PartsOf(Tail(w))
         /\ w[1][2] => w[1][1] \notin PartsOf(Tail(w))
         /\ ~w[1][2] /\ Tail(w) # <<>> => Tail(w)[1] = <<w[1][1], TRUE>>
         /\ Tail(w) # <<>> => Tail(w)[Len(Tail(w))] = w[Len(w)]
         /\ Tail(w) = <<>> => w[Len(w)] = w[1]
<1>1. /\ Len(w) \in Nat \ {0} /\ Len(Tail(w)) = Len(w) - 1 /\ Len(Tail(w)) \in Nat
      /\ \A k \in 1 .. Len(Tail(w)) : Tail(w)[k] = w[k + 1]
      /\ \A k \in 1 .. Len(Tail(w)) : k + 1 \in 1 .. Len(w)
      /\ Tail(w) = <<>> <=> Len(Tail(w)) = 0
  <2>1. Tail(w) \in Seq(Record \X BOOLEAN)
    BY TailOf
  <2>2. Len(Tail(w)) \in Nat /\ (Tail(w) = <<>> <=> Len(Tail(w)) = 0)
    BY <2>1, EmptyIff
  <2>3. /\ Len(w) \in Nat \ {0} /\ Len(Tail(w)) = Len(w) - 1
        /\ \A k \in 1 .. Len(Tail(w)) : Tail(w)[k] = w[k + 1]
    BY TailOf
  <2> QED
    BY <2>2, <2>3
<1>2. \A k \in 1 .. Len(w) : k = 1 \/ (k - 1 \in 1 .. Len(Tail(w)) /\ w[k] = Tail(w)[k - 1])
  BY <1>1
<1>3. \A k \in 1 .. Len(w) : w[k] \in Record \X BOOLEAN
  OBVIOUS
<1>4. InOrder(Tail(w))
  <2>1. ASSUME NEW j \in 1 .. Len(Tail(w)), NEW k \in 1 .. Len(Tail(w)), j < k
        PROVE  /\ Tail(w)[j][1] <= Tail(w)[k][1]
               /\ Tail(w)[j][2] => Tail(w)[j][1] < Tail(w)[k][1]
    <3>1. j + 1 \in 1 .. Len(w) /\ k + 1 \in 1 .. Len(w) /\ j + 1 < k + 1
      BY <1>1, <2>1
    <3>2. Tail(w)[j] = w[j + 1] /\ Tail(w)[k] = w[k + 1]
      BY <1>1
    <3> QED
      BY <3>1, <3>2 DEF InOrder
  <2>2. ASSUME NEW k \in 1 .. Len(Tail(w)), k + 1 <= Len(Tail(w)), ~Tail(w)[k][2]
        PROVE  Tail(w)[k + 1] = <<Tail(w)[k][1], TRUE>>
    <3>1. k + 1 \in 1 .. Len(w) /\ (k + 1) + 1 <= Len(w) /\ k + 1 \in 1 .. Len(Tail(w))
      BY <1>1, <2>2
    <3>2. Tail(w)[k] = w[k + 1] /\ Tail(w)[k + 1] = w[(k + 1) + 1]
      BY <1>1, <3>1
    <3> QED
      BY <2>2, <3>1, <3>2 DEF InOrder
  <2> QED
    BY <2>1, <2>2 DEF InOrder
<1>5. PartsOf(w) = {w[1][1]} \cup PartsOf(Tail(w))
  <2>1. ASSUME NEW i \in PartsOf(w) PROVE i = w[1][1] \/ i \in PartsOf(Tail(w))
    <3>1. PICK k \in 1 .. Len(w) : i = w[k][1]
      BY <2>1 DEF PartsOf
    <3> QED
      BY <1>2, <3>1 DEF PartsOf
  <2>2. ASSUME NEW i \in PartsOf(Tail(w)) PROVE i \in PartsOf(w)
    BY <1>1, <2>2 DEF PartsOf
  <2>3. w[1][1] \in PartsOf(w)
    BY <1>1 DEF PartsOf
  <2> QED
    BY <2>1, <2>2, <2>3
<1>6. ASSUME w[1][2], w[1][1] \in PartsOf(Tail(w)) PROVE FALSE
  <2>1. PICK k \in 1 .. Len(Tail(w)) : w[1][1] = Tail(w)[k][1]
    BY <1>6 DEF PartsOf
  <2>2. k + 1 \in 1 .. Len(w) /\ 1 \in 1 .. Len(w) /\ 1 < k + 1 /\ Tail(w)[k] = w[k + 1]
    BY <1>1
  <2>3. w[1][1] < w[k + 1][1]
    BY <1>6, <2>2 DEF InOrder
  <2>4. w[1][1] \in Nat
    BY <1>3, <2>2 DEF Record
  <2> QED
    BY <2>1, <2>2, <2>3, <2>4
<1>7. ~w[1][2] /\ Tail(w) # <<>> => Tail(w)[1] = <<w[1][1], TRUE>>
  <2>1. Tail(w) # <<>> => 1 \in 1 .. Len(w) /\ 1 + 1 <= Len(w) /\ Tail(w)[1] = w[1 + 1]
    BY <1>1
  <2> QED
    BY <2>1 DEF InOrder
<1>8. Tail(w) # <<>> => Tail(w)[Len(Tail(w))] = w[Len(w)]
  BY <1>1
<1>9. Tail(w) = <<>> => w[Len(w)] = w[1]
  BY <1>1
<1> QED
  BY <1>4, <1>5, <1>6, <1>7, <1>8, <1>9

(* A part joins the wire behind parts of earlier records, or behind the    *)
(* first part of its own.                                                  *)
LEMMA AppendToWire ==
  ASSUME NEW w \in Seq(Record \X BOOLEAN), InOrder(w), NEW i \in Record, NEW b \in BOOLEAN,
         \/ /\ \A k \in 1 .. Len(w) : w[k][1] < i
            /\ w # <<>> => w[Len(w)][2]
         \/ /\ w # <<>> => w[Len(w)] = <<i, FALSE>>
            /\ b
  PROVE  /\ Append(w, <<i, b>>) \in Seq(Record \X BOOLEAN)
         /\ InOrder(Append(w, <<i, b>>))
         /\ PartsOf(Append(w, <<i, b>>)) = PartsOf(w) \cup {i}
         /\ Append(w, <<i, b>>) # <<>>
         /\ Append(w, <<i, b>>)[Len(Append(w, <<i, b>>))] = <<i, b>>
         /\ w = <<>> => Append(w, <<i, b>>)[1] = <<i, b>>
         /\ w # <<>> => Append(w, <<i, b>>)[1] = w[1]
<1>1. PICK v : v = Append(w, <<i, b>>)
  OBVIOUS
<1>2. /\ v \in Seq(Record \X BOOLEAN) /\ Len(w) \in Nat /\ Len(v) = Len(w) + 1
      /\ \A k \in 1 .. Len(w) : v[k] = w[k]
      /\ v[Len(v)] = <<i, b>>
  BY <1>1, AppendTo
<1>3. w = <<>> <=> Len(w) = 0
  BY EmptyIff
<1>4. \A k \in 1 .. Len(w) : w[k] \in Record \X BOOLEAN
  OBVIOUS
<1>5. \A k \in 1 .. Len(v) : k \in 1 .. Len(w) \/ k = Len(v)
  BY <1>2
<1>6. ASSUME NEW k \in 1 .. Len(w)
      PROVE  w[k][1] <= i /\ (w[k][2] => w[k][1] < i)
  <2>1. w[k][1] \in Nat /\ i \in Nat
    BY <1>4 DEF Record
  <2>2. CASE \A m \in 1 .. Len(w) : w[m][1] < i
    BY <2>1, <2>2
  <2>3. CASE w # <<>> => w[Len(w)] = <<i, FALSE>>
    <3>1. w[Len(w)] = <<i, FALSE>> /\ Len(w) \in 1 .. Len(w)
      <4>1. Len(w) \in 1 .. Len(w) /\ w # <<>>
        BY <1>2, <1>3, <1>6
      <4> QED
        BY <2>3, <4>1, Zenon
    <3>2. CASE k = Len(w)
      <4>1. w[k][1] = i /\ w[k][2] = FALSE
        <5>1. w[k] = <<i, FALSE>>
          BY <3>1, <3>2, Zenon
        <5> QED
          BY <5>1
      <4> QED
        BY <2>1, <4>1
    <3>3. CASE k < Len(w)
      <4>1. w[k][1] <= w[Len(w)][1] /\ (w[k][2] => w[k][1] < w[Len(w)][1])
        BY <3>1, <3>3 DEF InOrder
      <4> QED
        BY <3>1, <4>1
    <3> QED
      BY <1>2, <1>6, <3>2, <3>3
  <2> QED
    BY <2>2, <2>3
<1>7. InOrder(v)
  <2>1. ASSUME NEW j \in 1 .. Len(v), NEW k \in 1 .. Len(v), j < k
        PROVE  v[j][1] <= v[k][1] /\ (v[j][2] => v[j][1] < v[k][1])
    <3>1. j \in 1 .. Len(w) /\ v[j] = w[j]
      BY <1>2, <2>1
    <3>2. CASE k \in 1 .. Len(w)
      BY <1>2, <2>1, <3>1, <3>2 DEF InOrder
    <3>3. CASE k = Len(v)
      <4>1. v[k][1] = i
        BY <1>2, <3>3
      <4> QED
        BY <1>6, <3>1, <4>1
    <3> QED
      BY <1>5, <3>2, <3>3
  <2>2. ASSUME NEW k \in 1 .. Len(v), k + 1 <= Len(v), ~v[k][2]
        PROVE  v[k + 1] = <<v[k][1], TRUE>>
    <3>1. k \in 1 .. Len(w) /\ v[k] = w[k]
      BY <1>2, <2>2
    <3>2. CASE k + 1 <= Len(w)
      <4>1. k + 1 \in 1 .. Len(w) /\ v[k + 1] = w[k + 1]
        BY <1>2, <3>1, <3>2
      <4> QED
        BY <2>2, <3>1, <3>2, <4>1 DEF InOrder
    <3>3. CASE k = Len(w)
      <4>1. w # <<>> /\ ~w[Len(w)][2] /\ k + 1 = Len(v)
        BY <1>2, <1>3, <2>2, <3>1, <3>3
      <4>2. w[Len(w)] = <<i, FALSE>> /\ b
        BY <4>1
      <4>3. v[k + 1] = <<i, b>> /\ b = TRUE /\ v[k][1] = i
        <5>1. v[k + 1] = <<i, b>> /\ v[k] = <<i, FALSE>>
          BY <1>2, <3>1, <3>3, <4>1, <4>2
        <5>2. b = TRUE
          BY <4>2
        <5> QED
          BY <5>1, <5>2
      <4> QED
        BY <4>3
    <3>4. k + 1 <= Len(w) \/ k = Len(w)
      BY <1>2, <3>1
    <3> QED
      BY <3>2, <3>3, <3>4
  <2> QED
    BY <2>1, <2>2 DEF InOrder
<1>8. PartsOf(v) = PartsOf(w) \cup {i}
  <2>1. ASSUME NEW x \in PartsOf(v) PROVE x \in PartsOf(w) \/ x = i
    BY <1>2, <1>5, <2>1 DEF PartsOf
  <2>2. ASSUME NEW x \in PartsOf(w) PROVE x \in PartsOf(v)
    <3>1. PICK k \in 1 .. Len(w) : x = w[k][1]
      BY <2>2 DEF PartsOf
    <3>2. k \in 1 .. Len(v) /\ v[k] = w[k]
      BY <1>2
    <3> QED
      BY <3>1, <3>2 DEF PartsOf
  <2>3. i \in PartsOf(v)
    <3>1. Len(v) \in 1 .. Len(v) /\ v[Len(v)][1] = i
      BY <1>2
    <3> QED
      BY <3>1 DEF PartsOf
  <2> QED
    BY <2>1, <2>2, <2>3
<1>9. v # <<>> /\ (w = <<>> => v[1] = <<i, b>>) /\ (w # <<>> => v[1] = w[1])
  BY <1>2, <1>3
<1> QED
  BY <1>1, <1>2, <1>7, <1>8, <1>9

(* The head of a queue that holds no record twice is not in its tail.      *)
LEMMA TailOfQueue ==
  ASSUME NEW q \in Seq(Record), q # <<>>, Once(q)
  PROVE  /\ Once(Tail(q)) /\ Elems(Tail(q)) = Elems(q) \ {q[1]} /\ q[1] \in Elems(q)
<1>1. /\ Tail(q) \in Seq(Record) /\ Len(q) \in Nat \ {0} /\ Len(Tail(q)) = Len(q) - 1
      /\ \A k \in 1 .. Len(Tail(q)) : Tail(q)[k] = q[k + 1]
      /\ Len(Tail(q)) \in Nat
  BY TailOf
<1>2. \A k \in 1 .. Len(Tail(q)) : k + 1 \in 1 .. Len(q) /\ k + 1 # 1
  BY <1>1
<1>3. 1 \in 1 .. Len(q)
  BY <1>1
<1>4. Once(Tail(q))
  <2>1. ASSUME NEW j \in 1 .. Len(Tail(q)), NEW k \in 1 .. Len(Tail(q)), Tail(q)[j] = Tail(q)[k]
        PROVE  j = k
    <3>1. j + 1 = k + 1
      BY <1>1, <1>2, <2>1 DEF Once
    <3> QED
      BY <3>1
  <2> QED
    BY <2>1 DEF Once
<1>5. ASSUME NEW x \in Elems(Tail(q)) PROVE x \in Elems(q) \ {q[1]}
  <2>1. PICK k \in 1 .. Len(Tail(q)) : x = Tail(q)[k]
    BY <1>5 DEF Elems
  <2>2. x = q[k + 1] /\ k + 1 \in 1 .. Len(q) /\ k + 1 # 1
    BY <1>1, <1>2, <2>1
  <2>3. x # q[1]
    BY <1>3, <2>2 DEF Once
  <2> QED
    BY <2>2, <2>3 DEF Elems
<1>6. ASSUME NEW x \in Elems(q), x # q[1] PROVE x \in Elems(Tail(q))
  <2>1. PICK k \in 1 .. Len(q) : x = q[k]
    BY <1>6 DEF Elems
  <2>2. k - 1 \in 1 .. Len(Tail(q)) /\ (k - 1) + 1 = k
    BY <1>1, <1>6, <2>1
  <2>3. Tail(q)[k - 1] = x
    BY <1>1, <2>1, <2>2
  <2> QED
    BY <2>2, <2>3 DEF Elems
<1> QED
  BY <1>3, <1>4, <1>5, <1>6 DEF Elems

(* A record that is new to the queue is in it once.                        *)
LEMMA AppendToQueue ==
  ASSUME NEW q \in Seq(Record), NEW i \in Record, Once(q), i \notin Elems(q)
  PROVE  Once(Append(q, i)) /\ Elems(Append(q, i)) = Elems(q) \cup {i}
<1>1. PICK v : v = Append(q, i)
  OBVIOUS
<1>2. /\ Len(q) \in Nat /\ Len(v) = Len(q) + 1
      /\ \A k \in 1 .. Len(q) : v[k] = q[k]
      /\ v[Len(v)] = i
  BY <1>1, AppendTo
<1>3. \A k \in 1 .. Len(v) : (k \in 1 .. Len(q) /\ v[k] = q[k]) \/ k = Len(v)
  BY <1>2
<1>4. \A k \in 1 .. Len(q) : k \in 1 .. Len(v) /\ q[k] # i
  BY <1>2 DEF Elems
<1>5. Len(v) \in 1 .. Len(v)
  BY <1>2
<1>6. Once(v)
  BY <1>2, <1>3, <1>4 DEF Once
<1>7. Elems(v) = Elems(q) \cup {i}
  <2>1. ASSUME NEW x \in Elems(v) PROVE x \in Elems(q) \/ x = i
    BY <1>2, <1>3, <2>1 DEF Elems
  <2>2. ASSUME NEW x \in Elems(q) PROVE x \in Elems(v)
    BY <1>2, <1>4, <2>2 DEF Elems
  <2>3. i \in Elems(v)
    BY <1>2, <1>5 DEF Elems
  <2> QED
    BY <2>1, <2>2, <2>3
<1> QED
  BY <1>1, <1>6, <1>7

-----------------------------------------------------------------------------
(* Bytes: a record that joins a finite set of records adds its size.       *)

(* The permits of finitely many records can be counted.                    *)
LEMMA HeldIsFinite ==
  ASSUME NEW Q \in SUBSET Record, MaxRecords \in Nat
  PROVE  IsFiniteSet(Q) /\ IsFiniteSet(Held(Q)) /\ Cardinality(Held(Q)) \in Nat
<1>1. IsFiniteSet(Record) /\ IsFiniteSet({1, 2})
  <2>1. IsFiniteSet(1 .. MaxRecords) /\ IsFiniteSet(1 .. 2)
    <3>1. 1 \in Int /\ 2 \in Int /\ MaxRecords \in Int
      OBVIOUS
    <3> QED
      BY <3>1, FS_Interval, Zenon
  <2>2. 1 .. 2 = {1, 2}
    OBVIOUS
  <2> QED
    BY <2>1, <2>2 DEF Record
<1>2. IsFiniteSet(Q)
  BY <1>1, FS_Subset
<1>3. IsFiniteSet(Q \X {1, 2})
  BY <1>1, <1>2, FS_Product
<1>4. Held(Q) \in SUBSET (Q \X {1, 2})
  BY DEF Held
<1>5. IsFiniteSet(Held(Q))
  BY <1>3, <1>4, FS_Subset
<1> QED
  BY <1>2, <1>5, FS_CardinalityType

(* A record that joins holds as many permits as its size.                  *)
LEMMA HeldAdds ==
  ASSUME NEW Q \in SUBSET Record, NEW i \in Record, i \notin Q, MaxRecords \in Nat
  PROVE  Cardinality(Held(Q \cup {i})) = Cardinality(Held(Q)) + Size(i)
<1>1. IsFiniteSet(Held(Q)) /\ Cardinality(Held(Q)) \in Nat
  BY HeldIsFinite
<1>2. PICK H : H = Held(Q) \cup {<<i, 1>>}
  OBVIOUS
<1>3. <<i, 1>> \notin Held(Q) /\ <<i, 2>> \notin H
  BY <1>2 DEF Held
<1>4. IsFiniteSet(H) /\ Cardinality(H) = Cardinality(Held(Q)) + 1
  BY <1>1, <1>2, <1>3, FS_AddElement
<1>5. Cardinality(H \cup {<<i, 2>>}) = Cardinality(H) + 1
  BY <1>3, <1>4, FS_AddElement
<1>6. CASE wrote[i] = "big"
  <2>1. Size(i) = 2
    BY <1>6 DEF Size
  <2>2. Held(Q \cup {i}) = H \cup {<<i, 2>>}
    BY <1>2, <2>1 DEF Held
  <2> QED
    <3>1. Cardinality(Held(Q \cup {i})) = (Cardinality(Held(Q)) + 1) + 1
      BY <1>4, <1>5, <2>2, Zenon
    <3>2. PICK c \in Nat : c = Cardinality(Held(Q))
      BY <1>1
    <3> QED
      BY <2>1, <3>1, <3>2
<1>7. CASE wrote[i] # "big"
  <2>1. Size(i) = 1
    BY <1>7 DEF Size
  <2>2. Held(Q \cup {i}) = H
    BY <1>2, <2>1 DEF Held
  <2> QED
    BY <1>4, <2>1, <2>2
<1> QED
  BY <1>6, <1>7

(* A record has one of two sizes.                                          *)
LEMMA SizeType == ASSUME NEW i PROVE Size(i) \in {1, 2}
BY DEF Size

-----------------------------------------------------------------------------
(* Steps that several actions share.                                       *)

(* What the invariant says of the records, in one place.                   *)
LEMMA Known ==
  ASSUME SockInv
  PROVE  /\ MaxRecords \in Nat /\ Len(wrote) \in 0 .. MaxRecords
         /\ Arriving \subseteq 1 .. Len(wrote) /\ Elems(queue) \subseteq 1 .. Len(wrote)
         /\ 1 .. Len(wrote) \subseteq Record
         /\ Arriving \subseteq Record /\ Elems(queue) \subseteq Record
         /\ PartsOf(wire) \subseteq Arriving
<1>1. MaxRecords \in Nat /\ Len(wrote) \in 0 .. MaxRecords
  BY SocketAssumption DEF SockInv, InputState, TypeInput
<1>2. Arriving \subseteq 1 .. Len(wrote) /\ Elems(queue) \subseteq 1 .. Len(wrote)
  BY DEF SockInv, FateState, Split
<1>3. 1 .. Len(wrote) \subseteq Record
  BY <1>1 DEF Record
<1> QED
  BY <1>1, <1>2, <1>3 DEF Arriving

(* Queue and budget stay in balance when neither moves.                    *)
LEMMA QueueKept ==
  ASSUME QueueState, UNCHANGED <<wrote, queue, budget>>
  PROVE  QueueState'
BY DEF QueueState, Held, Size

(* An action that leaves every record where it is.                         *)
LEMMA NothingMoves ==
  ASSUME SockInv, Arriving' = Arriving,
         UNCHANGED <<wrote, queue, budget, dropped, rejected, lost>>,
         (pending \cup stored)' = pending \cup stored
  PROVE  FateState' /\ QueueState'
<1>1. QueueState'
  BY QueueKept DEF SockInv
<1>2. FateState'
  BY DEF SockInv, FateState
<1> QED
  BY <1>1, <1>2

(* SocketIngress::enqueue moves an arriving record to the queue, to the    *)
(* dropped or to the rejected ones, and takes its bytes in the first case  *)
(* only.                                                                   *)
LEMMA EnqueueInv ==
  ASSUME NEW i, SockInv, Enqueue(i), i \in Arriving, Arriving' = Arriving \ {i},
         UNCHANGED <<wrote, pending, stored, lost, ppc>>
  PROVE  TypeQueue' /\ FateState' /\ QueueState'
<1>1. i \in Record /\ i \notin Elems(queue) /\ Elems(queue) \in SUBSET Record /\ MaxRecords \in Nat
  BY Known DEF SockInv, FateState, Split
<1>2. TypeQueue /\ QueueState /\ FateState
  BY DEF SockInv
<1>3. CASE wrote[i] = "blank"
  <2>1. rejected' = rejected \cup {i} /\ UNCHANGED <<queue, budget, dropped>>
    BY <1>3 DEF Enqueue
  <2>2. TypeQueue'
    BY <1>1, <1>2, <2>1 DEF TypeQueue
  <2>3. FateState'
    BY <1>2, <2>1 DEF FateState, Split
  <2> QED
    BY <1>2, <2>1, <2>2, <2>3, QueueKept
<1>4. CASE wrote[i] # "blank" /\ (Size(i) > budget \/ Len(queue) >= RecordCapacity)
  <2>1. dropped' = dropped \cup {i} /\ UNCHANGED <<queue, budget, rejected>>
    BY <1>4 DEF Enqueue
  <2>2. TypeQueue'
    BY <1>1, <1>2, <2>1 DEF TypeQueue
  <2>3. FateState'
    BY <1>2, <2>1 DEF FateState, Split
  <2> QED
    BY <1>2, <2>1, <2>2, <2>3, QueueKept
<1>5. CASE wrote[i] # "blank" /\ ~(Size(i) > budget \/ Len(queue) >= RecordCapacity)
  <2>1. queue' = Append(queue, i) /\ budget' = budget - Size(i) /\ UNCHANGED <<dropped, rejected>>
    BY <1>5 DEF Enqueue
  <2>2. Once(queue') /\ Elems(queue') = Elems(queue) \cup {i}
    BY <1>1, <1>2, <2>1, AppendToQueue DEF TypeQueue, QueueState
  <2>3. Size(i) \in {1, 2} /\ Size(i) <= budget /\ budget \in 0 .. ByteCapacity /\ ByteCapacity \in Nat
    <3>1. Size(i) \in {1, 2} /\ budget \in 0 .. ByteCapacity /\ ByteCapacity \in Nat
      BY <1>2, SizeType, SocketAssumption DEF TypeQueue
    <3> QED
      BY <1>5, <3>1
  <2>4. TypeQueue'
    <3>1. queue' \in Seq(Record) /\ Len(queue') <= RecordCapacity
      BY <1>1, <1>2, <1>5, <2>1, SocketAssumption DEF TypeQueue
    <3>2. budget' \in 0 .. ByteCapacity
      BY <2>1, <2>3
    <3> QED
      BY <1>2, <2>1, <3>1, <3>2 DEF TypeQueue
  <2>5. FateState'
    BY <1>2, <2>1, <2>2 DEF FateState, Split
  <2>6. QueueState'
    <3>1. Held(Elems(queue))' = Held(Elems(queue) \cup {i})
      BY <2>2 DEF Held, Size
    <3>2. Cardinality(Held(Elems(queue) \cup {i})) = Cardinality(Held(Elems(queue))) + Size(i)
      BY <1>1, HeldAdds
    <3>3. PICK c \in Nat : c = Cardinality(Held(Elems(queue)))
      BY <1>1, HeldIsFinite
    <3>4. budget' + Cardinality(Held(Elems(queue)))' = (budget - Size(i)) + (c + Size(i))
      BY <2>1, <3>1, <3>2, <3>3
    <3>5. budget + c = ByteCapacity
      BY <1>2, <3>3 DEF QueueState
    <3>6. (budget - Size(i)) + (c + Size(i)) = ByteCapacity
      BY <2>3, <3>3, <3>5
    <3> QED
      BY <2>2, <3>4, <3>6 DEF QueueState
  <2> QED
    BY <2>4, <2>5, <2>6
<1> QED
  BY <1>3, <1>4, <1>5

(* Giving the connection up counts as lost what had not been read.         *)
LEMMA GiveUpInv ==
  ASSUME SockInv, GiveUp, faults' \in 0 .. MaxFaults,
         UNCHANGED <<stype, wrote, cut, queue, budget, process, dropped, rejected>>
  PROVE  SockInv'
<1>1. /\ rpc' = "accept" /\ link' = "none" /\ half' = FALSE /\ wire' = <<>> /\ buf' = 0
      /\ got' = FALSE /\ lost' = lost \cup Arriving
  BY DEF GiveUp, Arriving, OnWire, PartsOf
<1>2. Arriving \subseteq Record /\ Len(wrote) \in Nat
  BY Known
<1>3. PartsOf(wire') = {} /\ Arriving' = {} /\ InOrder(wire')
  BY <1>1 DEF PartsOf, Arriving, InOrder
<1>4. InputState'
  <2>1. TypeInput'
    <3>1. wire' \in Seq(Record \X BOOLEAN) /\ buf' \in 0 .. MaxRecords /\ lost' \subseteq Record
      BY <1>1, <1>2, SocketAssumption DEF SockInv, InputState, TypeInput
    <3>2. half' \in BOOLEAN /\ got' \in BOOLEAN /\ link' \in {"none", "open", "closed"}
          /\ rpc' \in {"accept", "read"}
      BY <1>1
    <3> QED
      BY <3>1, <3>2 DEF SockInv, InputState, TypeInput
  <2>2. SenderState' /\ BufferState'
    BY <1>1, <1>2 DEF SenderState, BufferState
  <2> QED
    BY <1>3, <2>1, <2>2 DEF InputState
<1>5. TypeQueue'
  BY DEF SockInv, TypeQueue, process
<1>6. QueueState'
  BY QueueKept DEF SockInv
<1>7. FateState'
  <2>1. Arriving' = {} /\ lost' = lost \cup Arriving
    BY <1>1, <1>3
  <2> QED
    BY <2>1 DEF SockInv, FateState, Split, process
<1> QED
  BY <1>4, <1>5, <1>6, <1>7 DEF SockInv

-----------------------------------------------------------------------------
(* The sender.                                                             *)

(* A connection opens on an empty wire; its end terminates nothing.        *)
LEMMA SenderLinks ==
  ASSUME SockInv, Connect \/ Close
  PROVE  SockInv'
<1>1. /\ UNCHANGED <<stype, wrote, wire, rpc, buf, got, cut, queue, budget, process, dropped,
                     rejected, lost, faults>>
      /\ \/ link = "none" /\ rpc = "accept" /\ link' = "open" /\ half' = half
         \/ link' = "closed" /\ half' = FALSE
  BY DEF Connect, Close, sender
<1>2. Arriving' = Arriving
  BY <1>1 DEF Arriving
<1>3. InputState'
  <2>1. TypeInput /\ InOrder(wire) /\ SenderState /\ BufferState
    BY DEF SockInv, InputState
  <2>2. TypeInput'
    BY <1>1, <2>1 DEF TypeInput
  <2>3. /\ ~half' /\ link' # "none"
        /\ link' = "open" => wire = <<>> /\ buf = 0
    <3>1. CASE link = "none" /\ rpc = "accept" /\ link' = "open" /\ half' = half
      <4>1. ~half
        BY <2>1, <3>1 DEF SenderState
      <4>2. wire = <<>> /\ buf = 0
        BY <2>1, <3>1 DEF BufferState
      <4> QED
        BY <3>1, <4>1, <4>2
    <3>2. CASE link' = "closed" /\ half' = FALSE
      BY <3>2
    <3> QED
      BY <1>1, <3>1, <3>2
  <2>4. SenderState'
    BY <1>1, <2>3 DEF SenderState
  <2>5. stype' = "dgram" => ~half' /\ buf' = 0 /\ \A k \in 1 .. Len(wire') : wire'[k][2]
    BY <1>1, <2>1, <2>3, Zenon DEF BufferState
  <2>6. BufferState'
    BY <1>1, <2>1, <2>3, <2>5 DEF BufferState
  <2> QED
    BY <1>1, <2>1, <2>2, <2>4, <2>6 DEF InputState
<1>4. TypeQueue'
  BY <1>1 DEF SockInv, TypeQueue, process
<1>5. FateState' /\ QueueState'
  BY <1>1, <1>2, NothingMoves DEF process
<1> QED
  BY <1>3, <1>4, <1>5 DEF SockInv

(* A new record gets the next number, larger than any the reader knows.    *)
LEMMA WriteInv ==
  ASSUME NEW kind \in Kinds, NEW whole \in BOOLEAN, SockInv, Write(kind, whole)
  PROVE  SockInv'
<1>1. /\ link = "open" /\ ~half /\ Len(wrote) < MaxRecords
      /\ whole \/ stype = "stream"
      /\ wrote' = Append(wrote, kind)
      /\ wire' = Append(wire, <<Len(wrote) + 1, whole>>)
      /\ half' = ~whole
      /\ UNCHANGED <<stype, link, rpc, buf, got, cut, queue, budget, process, dropped, rejected, lost, faults>>
  BY DEF Write
<1>2. TypeInput /\ InOrder(wire) /\ SenderState /\ BufferState /\ TypeQueue /\ FateState /\ QueueState
  BY DEF SockInv, InputState
<1>3. PICK n : n = Len(wrote)
  OBVIOUS
<1>4. n \in Nat /\ n + 1 \in Record /\ n < MaxRecords /\ MaxRecords \in Nat
  BY <1>1, <1>3, Known DEF Record
<1>5. /\ wrote' \in Seq(Kinds) /\ Len(wrote') = n + 1
      /\ \A k \in 1 .. n : wrote'[k] = wrote[k]
  BY <1>1, <1>2, <1>3, AppendTo DEF TypeInput
<1>6. /\ wire \in Seq(Record \X BOOLEAN)
      /\ \A k \in 1 .. Len(wire) : wire[k][1] < n + 1
      /\ wire # <<>> => wire[Len(wire)][2]
      /\ wire = <<>> => buf = 0
  <2>1. ASSUME NEW k \in 1 .. Len(wire) PROVE wire[k][1] < n + 1
    <3>1. wire[k][1] \in 1 .. n
      BY <1>3, Known DEF PartsOf
    <3> QED
      BY <1>4, <3>1
  <2> QED
    BY <1>1, <1>2, <2>1 DEF TypeInput, SenderState
<1>7. /\ wire' \in Seq(Record \X BOOLEAN) /\ InOrder(wire')
      /\ PartsOf(wire') = PartsOf(wire) \cup {n + 1}
      /\ wire' # <<>> /\ wire'[Len(wire')] = <<n + 1, whole>>
      /\ wire = <<>> => wire'[1] = <<n + 1, whole>>
      /\ wire # <<>> => wire'[1] = wire[1]
  <2>1. PICK i \in Record : i = n + 1
    BY <1>4
  <2>2. wire' = Append(wire, <<i, whole>>)
    BY <1>1, <1>3, <2>1
  <2>3. \A k \in 1 .. Len(wire) : wire[k][1] < i
    BY <1>6, <2>1
  <2>4. /\ wire' \in Seq(Record \X BOOLEAN) /\ InOrder(wire')
        /\ PartsOf(wire') = PartsOf(wire) \cup {i}
        /\ wire' # <<>> /\ wire'[Len(wire')] = <<i, whole>>
        /\ wire = <<>> => wire'[1] = <<i, whole>>
        /\ wire # <<>> => wire'[1] = wire[1]
    <3>1. \/ (\A k \in 1 .. Len(wire) : wire[k][1] < i) /\ (wire # <<>> => wire[Len(wire)][2])
          \/ (wire # <<>> => wire[Len(wire)] = <<i, FALSE>>) /\ whole
      BY <1>6, <2>3, Zenon
    <3>2. wire \in Seq(Record \X BOOLEAN) /\ InOrder(wire)
      BY <1>2, <1>6
    <3>3. /\ Append(wire, <<i, whole>>) \in Seq(Record \X BOOLEAN)
          /\ InOrder(Append(wire, <<i, whole>>))
          /\ PartsOf(Append(wire, <<i, whole>>)) = PartsOf(wire) \cup {i}
          /\ Append(wire, <<i, whole>>) # <<>>
          /\ Append(wire, <<i, whole>>)[Len(Append(wire, <<i, whole>>))] = <<i, whole>>
          /\ wire = <<>> => Append(wire, <<i, whole>>)[1] = <<i, whole>>
          /\ wire # <<>> => Append(wire, <<i, whole>>)[1] = wire[1]
      BY <3>1, <3>2, AppendToWire, Zenon
    <3> QED
      BY <2>2, <3>3, Zenon
  <2> QED
    BY <2>1, <2>4, Zenon
<1>8. TypeInput'
  <2>1. Len(wrote') <= MaxRecords /\ half' \in BOOLEAN
    BY <1>1, <1>4, <1>5
  <2> QED
    BY <1>1, <1>2, <1>5, <1>7, <2>1 DEF TypeInput
<1>9. SenderState'
  <2>1. CASE whole
    <3>1. wire'[Len(wire')] = <<n + 1, whole>> /\ half' = ~whole
      BY <1>1, <1>7
    <3>2. wire'[Len(wire')][2] = whole
      BY <3>1
    <3>3. ~half' /\ wire'[Len(wire')][2]
      BY <2>1, <3>1, <3>2, Zenon
    <3> QED
      BY <1>7, <3>3 DEF SenderState
  <2>2. CASE ~whole
    <3>1. whole = FALSE
      BY <2>2
    <3>2. half' /\ wire'[Len(wire')] = <<n + 1, FALSE>> /\ link' = "open" /\ Len(wrote') > 0
      <4>1. Len(wrote') > 0
        BY <1>4, <1>5
      <4>2. half' = TRUE /\ wire'[Len(wire')] = <<n + 1, FALSE>> /\ link' = "open"
        BY <1>1, <1>7, <3>1, Zenon
      <4> QED
        BY <4>1, <4>2
    <3> QED
      BY <1>5, <1>7, <3>2 DEF SenderState
  <2> QED
    BY <2>1, <2>2
<1>10. BufferState'
  <2>1. buf' <= Len(wrote')
    BY <1>1, <1>2, <1>3, <1>4, <1>5 DEF BufferState, TypeInput
  <2>2. buf' # 0 /\ wire' # <<>> => wire'[1] = <<buf', TRUE>>
    BY <1>1, <1>2, <1>6, <1>7 DEF BufferState
  <2>3. ASSUME stype' = "dgram" PROVE ~half' /\ buf' = 0 /\ \A k \in 1 .. Len(wire') : wire'[k][2]
    <3>1. whole /\ stype = "dgram"
      BY <1>1, <2>3
    <3>2. \A k \in 1 .. Len(wire) : wire[k][2]
      BY <1>2, <3>1 DEF BufferState
    <3>3. wire'[Len(wire')][2]
      BY <1>7, <3>1
    <3>4. \A k \in 1 .. Len(wire') : k = Len(wire') \/ (k \in 1 .. Len(wire) /\ wire'[k] = wire[k])
      <4>1. <<n + 1, whole>> \in Record \X BOOLEAN
        BY <1>4
      <4>2. /\ Len(wire) \in Nat /\ Len(wire') = Len(wire) + 1
            /\ \A k \in 1 .. Len(wire) : wire'[k] = wire[k]
        BY <1>1, <1>3, <1>6, <4>1, AppendTo
      <4> QED
        BY <4>2
    <3> QED
      BY <1>1, <1>2, <3>1, <3>2, <3>3, <3>4 DEF BufferState
  <2> QED
    BY <1>1, <1>2, <2>1, <2>2, <2>3 DEF BufferState
<1>11. TypeQueue'
  BY <1>1, <1>2 DEF TypeQueue, process
<1>12. FateState'
  <2>1. Arriving' = Arriving \cup {n + 1}
    BY <1>1, <1>7 DEF Arriving
  <2>2. 1 .. (n + 1) = (1 .. n) \cup {n + 1} /\ n + 1 \notin 1 .. n
    BY <1>4
  <2>3. Split(Arriving, Elems(queue), pending \cup stored, dropped, rejected, lost, n)
    BY <1>2, <1>3 DEF FateState
  <2>4. Split(Arriving \cup {n + 1}, Elems(queue), pending \cup stored, dropped, rejected, lost, n + 1)
    BY <2>2, <2>3 DEF Split
  <2> QED
    BY <1>1, <1>5, <2>1, <2>4 DEF FateState, process
<1>13. QueueState'
  <2>1. \A k \in Elems(queue) : Size(k)' = Size(k)
    BY <1>3, <1>5, Known DEF Size
  <2>2. Held(Elems(queue))' = Held(Elems(queue))
    BY <1>1, <2>1 DEF Held
  <2> QED
    BY <1>1, <1>2, <2>2 DEF QueueState
<1> QED
  BY <1>7, <1>8, <1>9, <1>10, <1>11, <1>12, <1>13 DEF SockInv, InputState

(* The rest of a record follows its first part.                            *)
LEMMA WriteRestInv ==
  ASSUME SockInv, WriteRest
  PROVE  SockInv'
<1>1. /\ link = "open" /\ half /\ half' = FALSE
      /\ wire' = Append(wire, <<Len(wrote), TRUE>>)
      /\ UNCHANGED <<stype, wrote, link, rpc, buf, got, cut, queue, budget, process, dropped, rejected, lost, faults>>
  BY DEF WriteRest
<1>2. TypeInput /\ InOrder(wire) /\ SenderState /\ BufferState /\ TypeQueue /\ stype # "dgram"
  BY <1>1 DEF SockInv, InputState, BufferState
<1>3. PICK n : n = Len(wrote)
  OBVIOUS
<1>4. n \in Nat \ {0} /\ n \in Record
  BY <1>1, <1>2, <1>3, Known DEF Record, SenderState
<1>5. /\ wire \in Seq(Record \X BOOLEAN)
      /\ wire # <<>> => wire[Len(wire)] = <<n, FALSE>>
      /\ wire = <<>> => buf = n
  BY <1>1, <1>2, <1>3 DEF TypeInput, SenderState
<1>6. /\ wire' \in Seq(Record \X BOOLEAN) /\ InOrder(wire')
      /\ PartsOf(wire') = PartsOf(wire) \cup {n}
      /\ wire' # <<>> /\ wire'[Len(wire')] = <<n, TRUE>>
      /\ wire = <<>> => wire'[1] = <<n, TRUE>>
      /\ wire # <<>> => wire'[1] = wire[1]
  BY <1>1, <1>2, <1>3, <1>4, <1>5, AppendToWire
<1>7. n \in Arriving
  <2>1. CASE wire = <<>>
    BY <1>4, <1>5, <2>1 DEF Arriving
  <2>2. CASE wire # <<>>
    <3>1. Len(wire) \in 1 .. Len(wire)
      BY <1>5, <2>2, EmptyIff
    <3>2. wire[Len(wire)][1] = n
      BY <1>5, <2>2
    <3> QED
      BY <3>1, <3>2 DEF Arriving, PartsOf
  <2> QED
    BY <2>1, <2>2
<1>8. Arriving' = Arriving
  BY <1>1, <1>6, <1>7 DEF Arriving
<1>9. TypeInput'
  BY <1>1, <1>2, <1>6 DEF TypeInput
<1>10. SenderState'
  <2>1. wire'[Len(wire')][2]
    BY <1>6
  <2> QED
    BY <1>1, <1>6, <2>1 DEF SenderState
<1>11. BufferState'
  BY <1>1, <1>2, <1>5, <1>6 DEF BufferState
<1>12. TypeQueue'
  BY <1>1, <1>2 DEF TypeQueue, process
<1>13. FateState' /\ QueueState'
  BY <1>1, <1>8, NothingMoves DEF process
<1> QED
  BY <1>6, <1>9, <1>10, <1>11, <1>12, <1>13 DEF SockInv, InputState

-----------------------------------------------------------------------------
(* The reader.                                                             *)

(* The reader starts on a connection with an empty buffer.                 *)
LEMMA AcceptInv ==
  ASSUME SockInv, Accept
  PROVE  SockInv'
<1>1. /\ rpc = "accept" /\ link # "none" /\ rpc' = "read" /\ buf' = 0 /\ got' = FALSE
      /\ UNCHANGED <<stype, wrote, half, link, wire, cut, queue, budget, process, dropped,
                     rejected, lost, faults>>
  BY DEF Accept, sender
<1>2. TypeInput /\ InOrder(wire) /\ SenderState /\ BufferState /\ TypeQueue
  BY DEF SockInv, InputState
<1>3. buf' = buf
  BY <1>1, <1>2 DEF BufferState
<1>4. Arriving' = Arriving
  BY <1>1, <1>3 DEF Arriving
<1>5. TypeInput'
  <2>1. buf' \in 0 .. MaxRecords /\ got' \in BOOLEAN /\ rpc' \in {"accept", "read"}
    BY <1>1, <1>2, <1>3 DEF TypeInput
  <2> QED
    BY <1>1, <1>2, <2>1 DEF TypeInput
<1>6. SenderState'
  BY <1>1, <1>2, <1>3, Zenon DEF SenderState
<1>7. BufferState'
  <2>1. buf' <= Len(wrote')
    BY <1>1, <1>2, <1>3 DEF BufferState
  <2>2. stype' = "dgram" => ~half' /\ buf' = 0 /\ \A k \in 1 .. Len(wire') : wire'[k][2]
    BY <1>1, <1>2, Zenon DEF BufferState
  <2> QED
    BY <1>1, <2>1, <2>2 DEF BufferState
<1>8. TypeQueue'
  BY <1>1, <1>2 DEF TypeQueue, process
<1>9. FateState' /\ QueueState'
  BY <1>1, <1>4, NothingMoves DEF process
<1> QED
  BY <1>1, <1>2, <1>5, <1>6, <1>7, <1>8, <1>9 DEF SockInv, InputState

(* The first part of a record moves from the wire to an empty buffer.      *)
LEMMA ReadPartInv ==
  ASSUME SockInv, ReadPart
  PROVE  SockInv'
<1>1. /\ rpc = "read" /\ wire # <<>> /\ ~wire[1][2]
      /\ buf' = wire[1][1] /\ got' = TRUE /\ wire' = Tail(wire)
      /\ UNCHANGED <<stype, wrote, half, link, rpc, cut, queue, budget, process, dropped,
                     rejected, lost, faults>>
  BY TailOf DEF ReadPart, sender, SockInv, InputState, TypeInput
<1>2. TypeInput /\ InOrder(wire) /\ SenderState /\ BufferState /\ TypeQueue
  BY DEF SockInv, InputState
<1>3. wire \in Seq(Record \X BOOLEAN) /\ wire[1] \in Record \X BOOLEAN /\ wire' \in Seq(Record \X BOOLEAN)
  BY <1>1, <1>2, TailOf DEF TypeInput
<1>4. /\ InOrder(wire') /\ PartsOf(wire) = {buf'} \cup PartsOf(wire')
      /\ wire' # <<>> => wire'[1] = <<buf', TRUE>>
      /\ wire' # <<>> => wire'[Len(wire')] = wire[Len(wire)]
      /\ wire' = <<>> => wire[Len(wire)] = wire[1]
  BY <1>1, <1>2, <1>3, TailOfWire
<1>5. buf = 0 /\ stype # "dgram"
  <2>1. buf = 0
    <3>1. wire[1] = <<buf, TRUE>> => wire[1][2] = TRUE
      OBVIOUS
    <3> QED
      BY <1>1, <1>2, <3>1 DEF BufferState
  <2>2. 1 \in 1 .. Len(wire)
    BY <1>1, <1>3, EmptyIff
  <2> QED
    BY <1>1, <1>2, <2>1, <2>2 DEF BufferState
<1>6. buf' \in 1 .. Len(wrote) /\ Len(wrote) \in 0 .. MaxRecords /\ MaxRecords \in Nat
  BY <1>4, Known
<1>7. Arriving' = Arriving
  BY <1>4, <1>5, <1>6 DEF Arriving
<1>8. TypeInput'
  <2>1. buf' \in 0 .. MaxRecords /\ got' \in BOOLEAN
    BY <1>1, <1>6
  <2> QED
    BY <1>1, <1>2, <1>3, <2>1 DEF TypeInput
<1>9. SenderState'
  <2>1. CASE half
    <3>1. link = "open" /\ Len(wrote) > 0 /\ wire[Len(wire)] = <<Len(wrote), FALSE>>
      BY <1>1, <1>2, <2>1 DEF SenderState
    <3>2. wire' = <<>> => buf' = Len(wrote)
      <4>1. wire' = <<>> => wire[1] = <<Len(wrote), FALSE>>
        BY <1>4, <3>1, Zenon
      <4>2. wire[1] = <<Len(wrote), FALSE>> => wire[1][1] = Len(wrote)
        OBVIOUS
      <4> QED
        BY <1>1, <4>1, <4>2
    <3>3. half' /\ wrote' = wrote /\ link' = link
      BY <1>1, <2>1, Zenon
    <3> QED
      BY <1>4, <3>1, <3>2, <3>3 DEF SenderState
  <2>2. CASE ~half
    <3>1. ~half' /\ link' = link
      BY <1>1, <2>2, Zenon
    <3>2. link = "open" => wire[Len(wire)][2]
      BY <1>1, <1>2, <2>2, Zenon DEF SenderState
    <3>3. link = "open" => wire' # <<>> /\ wire'[Len(wire')][2]
      BY <1>1, <1>4, <3>2, Zenon
    <3> QED
      BY <3>1, <3>3 DEF SenderState
  <2> QED
    BY <2>1, <2>2
<1>10. BufferState'
  <2>1. buf' <= Len(wrote') /\ buf' # 0 /\ link' # "none"
    BY <1>1, <1>2, <1>6 DEF BufferState
  <2> QED
    BY <1>1, <1>4, <1>5, <2>1 DEF BufferState
<1>11. TypeQueue'
  BY <1>1, <1>2 DEF TypeQueue, process
<1>12. FateState' /\ QueueState'
  BY <1>1, <1>7, NothingMoves DEF process
<1> QED
  BY <1>4, <1>8, <1>9, <1>10, <1>11, <1>12 DEF SockInv, InputState

(* A whole record leaves the wire, and with it its part in the buffer.     *)
LEMMA TakeRecord ==
  ASSUME SockInv, rpc = "read", wire # <<>>, wire[1][2], wire' = Tail(wire),
         buf' = 0, got' = FALSE,
         UNCHANGED <<stype, wrote, half, link, rpc, cut, lost, faults>>
  PROVE  /\ InputState' /\ wire[1][1] \in Arriving
         /\ Arriving' = Arriving \ {wire[1][1]}
<1>1. TypeInput /\ InOrder(wire) /\ SenderState /\ BufferState
  BY DEF SockInv, InputState
<1>2. wire \in Seq(Record \X BOOLEAN) /\ wire[1] \in Record \X BOOLEAN /\ wire' \in Seq(Record \X BOOLEAN)
  BY <1>1, TailOf DEF TypeInput
<1>3. /\ InOrder(wire') /\ PartsOf(wire) = {wire[1][1]} \cup PartsOf(wire')
      /\ wire[1][1] \notin PartsOf(wire')
      /\ wire' # <<>> => wire'[Len(wire')] = wire[Len(wire)]
      /\ wire' = <<>> => wire[Len(wire)] = wire[1]
  BY <1>1, <1>2, TailOfWire
<1>4. buf = 0 \/ buf = wire[1][1]
  <2>1. buf = 0 \/ wire[1] = <<buf, TRUE>>
    BY <1>1, Zenon DEF BufferState
  <2>2. wire[1] = <<buf, TRUE>> => wire[1][1] = buf
    OBVIOUS
  <2> QED
    BY <2>1, <2>2
<1>5. wire[1][1] # 0
  BY <1>2 DEF Record
<1>6. Arriving' = PartsOf(wire')
  BY DEF Arriving
<1>7. Arriving' = Arriving \ {wire[1][1]} /\ wire[1][1] \in Arriving
  BY <1>3, <1>4, <1>5, <1>6 DEF Arriving
<1>8. Len(wrote) \in Nat /\ MaxRecords \in Nat
  BY Known
<1>9. TypeInput'
  <2>1. buf' \in 0 .. MaxRecords
    BY <1>8
  <2>2. got' \in BOOLEAN
    BY Zenon
  <2> QED
    BY <1>1, <1>2, <2>1, <2>2 DEF TypeInput
<1>10. SenderState'
  <2>1. CASE half
    <3>1. link = "open" /\ Len(wrote) > 0 /\ wire[Len(wire)] = <<Len(wrote), FALSE>>
      BY <1>1, <2>1 DEF SenderState
    <3>2. wire' # <<>>
      <4>1. ASSUME wire' = <<>> PROVE FALSE
        <5>1. wire[1] = <<Len(wrote), FALSE>>
          BY <1>3, <3>1, <4>1, Zenon
        <5>2. wire[1][2] = FALSE
          BY <5>1
        <5> QED
          BY <5>2
      <4> QED
        BY <4>1
    <3>3. half' /\ wrote' = wrote /\ link' = link
      BY <2>1, Zenon
    <3> QED
      BY <1>3, <3>1, <3>2, <3>3 DEF SenderState
  <2>2. CASE ~half
    <3>1. ~half' /\ link' = link
      BY <2>2, Zenon
    <3>2. link = "open" => wire[Len(wire)][2]
      BY <1>1, <2>2, Zenon DEF SenderState
    <3>3. link = "open" /\ wire' # <<>> => wire'[Len(wire')][2]
      BY <1>3, <3>2, Zenon
    <3> QED
      BY <3>1, <3>3 DEF SenderState
  <2> QED
    BY <2>1, <2>2
<1>11. BufferState'
  <2>1. stype' = "dgram" => ~half' /\ buf' = 0 /\ \A k \in 1 .. Len(wire') : wire'[k][2]
    <3>1. \A k \in 1 .. Len(wire') : k + 1 \in 1 .. Len(wire) /\ wire'[k] = wire[k + 1]
      BY <1>2, TailOf
    <3>2. stype = "dgram" => ~half /\ \A k \in 1 .. Len(wire) : wire[k][2]
      BY <1>1, Zenon DEF BufferState
    <3> QED
      BY <3>1, <3>2, Zenon
  <2>2. buf' <= Len(wrote') /\ link' # "none"
    BY <1>1, <1>8 DEF BufferState
  <2> QED
    BY <2>1, <2>2 DEF BufferState
<1> QED
  BY <1>3, <1>7, <1>9, <1>10, <1>11 DEF InputState

(* A terminated record is queued or, oversized, ends the connection.       *)
LEMMA ReadRecordInv ==
  ASSUME SockInv, ReadRecord
  PROVE  SockInv'
<1>1. /\ rpc = "read" /\ wire # <<>> /\ wire[1][2] /\ Head(wire) = wire[1]
      /\ UNCHANGED <<stype, wrote, cut, process, faults>>
  BY TailOf DEF ReadRecord, SockInv, InputState, TypeInput
<1>2. CASE GiveUp /\ UNCHANGED <<queue, budget, dropped, rejected>>
  BY <1>1, <1>2, GiveUpInv DEF SockInv, InputState, TypeInput
<1>3. CASE /\ Enqueue(wire[1][1])
           /\ wire' = Tail(wire) /\ buf' = 0 /\ got' = FALSE
           /\ UNCHANGED <<half, link, rpc, lost>>
  <2>1. InputState' /\ wire[1][1] \in Arriving /\ Arriving' = Arriving \ {wire[1][1]}
    BY <1>1, <1>3, TakeRecord
  <2>2. PICK i : i = wire[1][1]
    OBVIOUS
  <2>3. Enqueue(i) /\ i \in Arriving /\ Arriving' = Arriving \ {i}
    BY <1>3, <2>1, <2>2
  <2>4. TypeQueue' /\ FateState' /\ QueueState'
    BY <1>1, <1>3, <2>3, EnqueueInv DEF process
  <2> QED
    BY <2>1, <2>4 DEF SockInv
<1> QED
  BY <1>1, <1>2, <1>3 DEF ReadRecord

(* An oversized datagram is rejected, any other one is queued.             *)
LEMMA ReadDatagramInv ==
  ASSUME SockInv, ReadDatagram
  PROVE  SockInv'
<1>1. /\ rpc = "read" /\ stype = "dgram" /\ wire # <<>> /\ Head(wire) = wire[1] /\ wire' = Tail(wire)
      /\ UNCHANGED <<stype, wrote, half, link, rpc, buf, got, cut, process, lost, faults>>
  BY TailOf DEF ReadDatagram, sender, SockInv, InputState, TypeInput
<1>2. wire[1][2] /\ buf = 0 /\ ~got
  <2>1. 1 \in 1 .. Len(wire)
    BY <1>1, EmptyIff DEF SockInv, InputState, TypeInput
  <2> QED
    BY <1>1, <2>1 DEF SockInv, InputState, BufferState
<1>3. buf' = 0 /\ got' = FALSE
  BY <1>1, <1>2 DEF SockInv, InputState, TypeInput
<1>4. InputState' /\ wire[1][1] \in Arriving /\ Arriving' = Arriving \ {wire[1][1]}
  BY <1>1, <1>2, <1>3, TakeRecord
<1>5. PICK i : i = wire[1][1]
  OBVIOUS
<1>6. i \in Arriving /\ Arriving' = Arriving \ {i}
  BY <1>4, <1>5
<1>7. CASE rejected' = rejected \cup {i} /\ UNCHANGED <<queue, budget, dropped>>
  <2>1. i \in Record
    BY <1>6, Known
  <2>2. TypeQueue'
    BY <1>1, <1>7, <2>1 DEF SockInv, TypeQueue, process
  <2>3. FateState'
    BY <1>1, <1>6, <1>7 DEF SockInv, FateState, Split, process
  <2>4. QueueState'
    BY <1>1, <1>7, QueueKept DEF SockInv
  <2> QED
    BY <1>4, <2>2, <2>3, <2>4 DEF SockInv
<1>8. CASE Enqueue(i)
  <2>1. TypeQueue' /\ FateState' /\ QueueState'
    BY <1>1, <1>6, <1>8, EnqueueInv DEF process
  <2> QED
    BY <1>4, <2>1 DEF SockInv
<1> QED
  BY <1>1, <1>5, <1>7, <1>8 DEF ReadDatagram

(* At the end of the stream the buffer is empty, queued or given up.       *)
LEMMA EndOfStreamInv ==
  ASSUME SockInv, EndOfStream
  PROVE  SockInv'
<1>1. /\ rpc = "read" /\ wire = <<>> /\ link = "closed"
      /\ UNCHANGED <<stype, wrote, process, faults>>
  BY DEF EndOfStream
<1>2. TypeInput /\ InOrder(wire) /\ SenderState /\ BufferState /\ TypeQueue
  BY DEF SockInv, InputState
<1>3. /\ ~half /\ PartsOf(wire) = {} /\ Arriving = {buf} \ {0}
      /\ buf \in 0 .. MaxRecords /\ Len(wrote) \in Nat /\ MaxRecords \in Nat
  BY <1>1, <1>2, Known DEF SenderState, Arriving, PartsOf, TypeInput
<1>4. ASSUME buf' = 0, ~got', got' \in BOOLEAN, UNCHANGED <<half, wire, lost>>, cut' \subseteq Record,
             UNCHANGED <<link, rpc>> \/ (link' = "none" /\ rpc' = "accept")
      PROVE  InputState' /\ Arriving' = {}
  <2>1. TypeInput'
    <3>1. buf' \in 0 .. MaxRecords /\ link' \in {"none", "open", "closed"} /\ rpc' \in {"accept", "read"}
      BY <1>1, <1>3, <1>4
    <3> QED
      BY <1>1, <1>2, <1>4, <3>1 DEF TypeInput
  <2>2. ~half' /\ link' # "open" /\ wire' = <<>>
    BY <1>1, <1>3, <1>4
  <2>3. SenderState'
    BY <2>2 DEF SenderState
  <2>4. BufferState'
    <3>1. Len(wire') = 0 /\ buf' <= Len(wrote')
      BY <1>1, <1>3, <1>4, <2>2
    <3> QED
      BY <1>1, <1>4, <2>2, <3>1 DEF BufferState
  <2>5. InOrder(wire') /\ Arriving' = {}
    BY <1>2, <1>3, <1>4 DEF Arriving
  <2> QED
    BY <2>1, <2>3, <2>4, <2>5 DEF InputState
<1>5. CASE GiveUp /\ UNCHANGED <<cut, queue, budget, dropped, rejected>>
  BY <1>1, <1>2, <1>5, GiveUpInv DEF TypeInput
<1>6. CASE /\ buf # 0
           /\ Enqueue(buf) /\ cut' = cut \cup {buf}
           /\ IF got THEN UNCHANGED <<link, rpc>> ELSE link' = "none" /\ rpc' = "accept"
           /\ buf' = 0 /\ got' = FALSE
           /\ UNCHANGED <<half, wire, lost>>
  <2>1. cut' \subseteq Record
    BY <1>2, <1>3, <1>6 DEF TypeInput, Record
  <2>2. InputState' /\ Arriving' = {}
    BY <1>4, <1>6, <2>1
  <2>3. PICK i : i = buf
    OBVIOUS
  <2>4. i \in Arriving /\ Arriving' = Arriving \ {i} /\ Enqueue(i)
    BY <1>3, <1>6, <2>2, <2>3
  <2>5. TypeQueue' /\ FateState' /\ QueueState'
    BY <1>1, <1>6, <2>4, EnqueueInv DEF process
  <2> QED
    BY <2>2, <2>5 DEF SockInv
<1>7. CASE /\ buf = 0
           /\ link' = "none" /\ rpc' = "accept"
           /\ UNCHANGED <<half, wire, buf, got, cut, queue, budget, dropped, rejected, lost>>
  <2>1. ~got' /\ got' \in BOOLEAN /\ cut' \subseteq Record
    BY <1>2, <1>7 DEF BufferState, TypeInput
  <2>2. InputState' /\ Arriving' = {}
    BY <1>4, <1>7, <2>1
  <2>3. Arriving' = Arriving
    BY <1>3, <1>7, <2>2
  <2>4. FateState' /\ QueueState'
    BY <1>1, <1>7, <2>3, NothingMoves DEF process
  <2>5. TypeQueue'
    BY <1>1, <1>2, <1>7 DEF TypeQueue, process
  <2> QED
    BY <2>2, <2>4, <2>5 DEF SockInv
<1> QED
  BY <1>5, <1>6, <1>7 DEF EndOfStream

(* A tick keeps the buffer, unless what it holds is oversized.             *)
LEMMA ReadTickInv ==
  ASSUME SockInv, ReadTick
  PROVE  SockInv'
<1>1. /\ UNCHANGED <<stype, wrote, cut, queue, budget, process, dropped, rejected, faults>>
      /\ \/ got' = FALSE /\ UNCHANGED <<half, link, wire, rpc, buf, lost>>
         \/ GiveUp
  BY DEF ReadTick
<1>2. TypeInput /\ InOrder(wire) /\ SenderState /\ BufferState /\ TypeQueue
  BY DEF SockInv, InputState
<1>3. CASE got' = FALSE /\ UNCHANGED <<half, link, wire, rpc, buf, lost>>
  <2>1. TypeInput'
    BY <1>1, <1>2, <1>3 DEF TypeInput
  <2>2. SenderState'
    BY <1>1, <1>2, <1>3, Zenon DEF SenderState
  <2>3. BufferState'
    <3>1. ~got'
      BY <1>3
    <3> QED
      BY <1>1, <1>2, <1>3, <3>1, Zenon DEF BufferState
  <2>4. Arriving' = Arriving
    BY <1>3 DEF Arriving
  <2>5. FateState' /\ QueueState'
    BY <1>1, <1>3, <2>4, NothingMoves DEF process
  <2>6. TypeQueue'
    BY <1>1, <1>2 DEF TypeQueue, process
  <2> QED
    BY <1>2, <1>3, <2>1, <2>2, <2>3, <2>5, <2>6 DEF SockInv, InputState
<1>4. CASE GiveUp
  BY <1>1, <1>2, <1>4, GiveUpInv DEF TypeInput
<1> QED
  BY <1>1, <1>3, <1>4

(* A failed read gives the connection up.                                  *)
LEMMA ReadFailsInv ==
  ASSUME SockInv, ReadFails
  PROVE  SockInv'
<1>1. faults' \in 0 .. MaxFaults
  BY SocketAssumption DEF SockInv, InputState, TypeInput, ReadFails
<1> QED
  BY <1>1, GiveUpInv DEF ReadFails

-----------------------------------------------------------------------------
(* The processor.                                                          *)

(* What the processor does leaves the input alone.                         *)
LEMMA InputKept ==
  ASSUME InputState, UNCHANGED <<sender, socket, cut, lost>>, faults' \in 0 .. MaxFaults
  PROVE  InputState' /\ Arriving' = Arriving /\ wrote' = wrote /\ lost' = lost
<1>1. UNCHANGED <<stype, wrote, half, link, wire, rpc, buf, got, cut, lost>>
  BY DEF sender, socket
<1>2. TypeInput /\ InOrder(wire) /\ SenderState /\ BufferState
  BY DEF InputState
<1>3. TypeInput'
  BY <1>1, <1>2 DEF TypeInput
<1>4. SenderState' /\ BufferState'
  BY <1>1, <1>2, Zenon DEF SenderState, BufferState
<1> QED
  BY <1>1, <1>2, <1>3, <1>4 DEF InputState, Arriving

(* The record leaves the queue with its bytes, for the sink or for the     *)
(* rejected ones.                                                          *)
LEMMA ProcessRecordInv ==
  ASSUME SockInv, ProcessRecord
  PROVE  SockInv'
<1>1. PICK i : i = queue[1]
  OBVIOUS
<1>2. /\ queue # <<>> /\ queue \in Seq(Record) /\ Head(queue) = i /\ i \in Record
      /\ Tail(queue) \in Seq(Record) /\ Len(Tail(queue)) = Len(queue) - 1 /\ Len(queue) \in Nat
  <2>1. queue # <<>> /\ queue \in Seq(Record)
    BY DEF ProcessRecord, SockInv, TypeQueue
  <2> QED
    BY <1>1, <2>1, TailOf
<1>3. /\ queue' = Tail(queue) /\ budget' = budget + Size(i)
      /\ UNCHANGED <<sender, socket, cut, stored, dropped, lost, faults>>
      /\ ppc' \in {"recv", "commit"}
      /\ \/ pending' = pending \cup {i} /\ rejected' = rejected
         \/ pending' = pending /\ rejected' = rejected \cup {i}
  BY <1>2 DEF ProcessRecord, SockInv, TypeQueue
<1>4. InputState' /\ Arriving' = Arriving /\ wrote' = wrote /\ lost' = lost
  BY <1>3, InputKept DEF SockInv, InputState, TypeInput
<1>5. Once(queue') /\ Elems(queue') = Elems(queue) \ {i} /\ i \in Elems(queue)
  BY <1>1, <1>2, <1>3, TailOfQueue DEF SockInv, QueueState
<1>6. Elems(queue) \in SUBSET Record /\ MaxRecords \in Nat
  BY Known
<1>7. PICK Q \in SUBSET Record : Q = Elems(queue) \ {i}
  BY <1>6
<1>8. PICK c \in Nat : c = Cardinality(Held(Q))
  BY <1>6, HeldIsFinite
<1>9. budget + (c + Size(i)) = ByteCapacity
  <2>1. Elems(queue) = Q \cup {i} /\ i \notin Q
    BY <1>5, <1>7
  <2>2. Cardinality(Held(Q \cup {i})) = Cardinality(Held(Q)) + Size(i)
    BY <1>2, <1>6, <2>1, HeldAdds
  <2> QED
    BY <1>8, <2>1, <2>2 DEF SockInv, QueueState
<1>10. budget \in Nat /\ Size(i) \in {1, 2} /\ ByteCapacity \in Nat
  BY SizeType, SocketAssumption DEF SockInv, TypeQueue
<1>11. budget' + c = ByteCapacity /\ budget' \in 0 .. ByteCapacity
  BY <1>3, <1>8, <1>9, <1>10
<1>12. QueueState'
  <2>1. Held(Elems(queue))' = Held(Q)
    BY <1>4, <1>5, <1>7 DEF Held, Size
  <2> QED
    BY <1>5, <1>8, <1>11, <2>1 DEF QueueState
<1>13. TypeQueue'
  <2>1. queue' \in Seq(Record) /\ Len(queue') <= RecordCapacity
    BY <1>2, <1>3, SocketAssumption DEF SockInv, TypeQueue
  <2> QED
    BY <1>2, <1>3, <1>11, <2>1 DEF SockInv, TypeQueue
<1>14. FateState'
  <2>1. Split(Arriving, Elems(queue), pending \cup stored, dropped, rejected, lost, Len(wrote))
    BY DEF SockInv, FateState
  <2>2. Split(Arriving, Elems(queue) \ {i}, pending' \cup stored, dropped, rejected', lost, Len(wrote))
    BY <1>3, <1>5, <2>1 DEF Split
  <2> QED
    BY <1>3, <1>4, <1>5, <2>2 DEF FateState
<1> QED
  BY <1>4, <1>12, <1>13, <1>14 DEF SockInv

(* A commit moves the batch within the sink, whether it is acknowledged or *)
(* not.                                                                    *)
LEMMA SinkInv ==
  ASSUME SockInv, Maintenance \/ Commit \/ CommitRetries
  PROVE  SockInv'
<1>1. /\ UNCHANGED <<sender, socket, cut, queue, budget, dropped, rejected, lost>>
      /\ ppc' \in {"recv", "commit"} /\ faults' \in 0 .. MaxFaults
      /\ (pending \cup stored)' = pending \cup stored
  <2>1. CASE Maintenance \/ Commit
    BY <2>1 DEF Maintenance, Commit, SockInv, InputState, TypeInput
  <2>2. CASE CommitRetries
    <3>1. faults' \in 0 .. MaxFaults
      BY <2>2, SocketAssumption DEF CommitRetries, SockInv, InputState, TypeInput
    <3> QED
      BY <2>2, <3>1 DEF CommitRetries, SockInv, TypeQueue
  <2> QED
    BY <2>1, <2>2
<1>2. InputState' /\ Arriving' = Arriving /\ wrote' = wrote /\ lost' = lost
  BY <1>1, InputKept DEF SockInv
<1>3. FateState' /\ QueueState'
  BY <1>1, <1>2, NothingMoves
<1>4. pending' \subseteq Record /\ stored' \subseteq Record
  BY <1>1 DEF SockInv, TypeQueue
<1>5. TypeQueue'
  BY <1>1, <1>4 DEF SockInv, TypeQueue
<1> QED
  BY <1>2, <1>3, <1>5 DEF SockInv

-----------------------------------------------------------------------------
(* Theorems.                                                               *)

(* At the start nothing is written, and every byte is free.                *)
LEMMA SockInitially ==
  ASSUME SockInit
  PROVE  SockInv
<1> USE SocketAssumption DEF SockInit
<1>1. Len(wrote) = 0 /\ Len(wire) = 0 /\ Len(queue) = 0 /\ MaxRecords \in Nat
  OBVIOUS
<1>2. TypeInput
  <2>1. /\ stype \in Types /\ half \in BOOLEAN /\ got \in BOOLEAN
        /\ link \in {"none", "open", "closed"} /\ rpc \in {"accept", "read"}
    BY Zenon
  <2>2. wrote \in Seq(Kinds) /\ wire \in Seq(Record \X BOOLEAN) /\ Len(wrote) <= MaxRecords
    BY <1>1
  <2>3. buf \in 0 .. MaxRecords /\ faults \in 0 .. MaxFaults /\ cut \subseteq Record /\ lost \subseteq Record
    OBVIOUS
  <2> QED
    BY <2>1, <2>2, <2>3 DEF TypeInput
<1>3. TypeQueue
  BY <1>1 DEF TypeQueue
<1>4. InOrder(wire) /\ SenderState /\ BufferState
  BY <1>1 DEF InOrder, SenderState, BufferState
<1>5. PartsOf(wire) = {} /\ Arriving = {} /\ Elems(queue) = {}
  BY <1>1 DEF PartsOf, Arriving, Elems
<1>6. 1 .. Len(wrote) = {}
  BY <1>1
<1>7. FateState
  BY <1>5, <1>6 DEF FateState, Split
<1>8. Held({}) = {}
  BY DEF Held
<1>9. QueueState
  <2>1. Cardinality(Held(Elems(queue))) = 0
    BY <1>5, <1>8, FS_EmptySet, Zenon
  <2>2. Once(queue)
    BY <1>1 DEF Once
  <2> QED
    BY <2>1, <2>2 DEF QueueState
<1> QED
  BY <1>2, <1>3, <1>4, <1>7, <1>9 DEF SockInv, InputState

(* Every step of sender, reader and processor keeps the invariant.         *)
LEMMA SockStep ==
  ASSUME SockInv, [SockNext]_sockVars
  PROVE  SockInv'
<1>1. CASE Sender
  BY <1>1, SenderLinks, WriteInv, WriteRestInv DEF Sender
<1>2. CASE Reader
  BY <1>2, AcceptInv, ReadPartInv, ReadRecordInv, EndOfStreamInv, ReadTickInv, ReadDatagramInv
     DEF Reader
<1>3. CASE Processor
  BY <1>3, ProcessRecordInv, SinkInv DEF Processor
<1>4. CASE ReadFails
  BY <1>4, ReadFailsInv
<1>5. CASE CommitRetries
  BY <1>5, SinkInv
<1>6. CASE UNCHANGED sockVars
  <2>1. UNCHANGED <<sender, socket, cut, lost, faults, queue, budget, ppc, pending, stored, dropped, rejected>>
    BY <1>6 DEF sockVars, process
  <2>2. InputState' /\ Arriving' = Arriving /\ wrote' = wrote /\ lost' = lost
    BY <2>1, InputKept DEF SockInv, InputState, TypeInput
  <2>3. FateState' /\ QueueState'
    BY <2>1, <2>2, NothingMoves
  <2>4. TypeQueue'
    BY <2>1 DEF SockInv, TypeQueue
  <2> QED
    BY <2>2, <2>3, <2>4 DEF SockInv
<1> QED
  BY <1>1, <1>2, <1>3, <1>4, <1>5, <1>6 DEF SockNext

(* SockInv holds in every state that run_stream, run_datagram and the      *)
(* processor task can reach.                                               *)
THEOREM SocketInvariant == SockSpec => []SockInv
<1>1. SockInit => SockInv
  BY SockInitially
<1>2. SockInv /\ [SockNext]_sockVars => SockInv'
  BY SockStep
<1> QED
  BY <1>1, <1>2, PTL DEF SockSpec

(* Every variable keeps its type; in particular the queue and the byte     *)
(* budget stay within the capacities of SocketIngress.                     *)
THEOREM SocketTypes == SockSpec => []SockTypeOK
<1>1. SockInv => SockTypeOK
  BY DEF SockInv, InputState, TypeInput, TypeQueue, SockTypeOK
<1> QED
  BY <1>1, SocketInvariant, PTL

(* The queue that FateState and QueueState speak of is the one of OneFate. *)
LEMMA FateFollows ==
  ASSUME SockInv
  PROVE  OneFate
<1>1. OnWire = PartsOf(wire) /\ Queued = Elems(queue) /\ HeldBytes = Held(Elems(queue))
  BY DEF OnWire, PartsOf, Queued, Elems, HeldBytes, Held
<1>2. Split(OnWire \cup Buffered, Queued, pending \cup stored, dropped, rejected, lost, Len(wrote))
  BY <1>1 DEF SockInv, FateState, Arriving, Buffered
<1>3. DOMAIN Places = {"wire", "queue", "sink", "dropped", "rejected", "lost"}
  BY DEF Places
<1>4. /\ Places["wire"] = OnWire \cup Buffered /\ Places["queue"] = Queued
      /\ Places["sink"] = pending \cup stored /\ Places["dropped"] = dropped
      /\ Places["rejected"] = rejected /\ Places["lost"] = lost
  BY DEF Places
<1>5. ASSUME NEW i \in 1 .. Len(wrote)
      PROVE  Cardinality({p \in DOMAIN Places : i \in Places[p]}) = 1
  <2>1. \E p \in DOMAIN Places : i \in Places[p]
    BY <1>2, <1>3, <1>4 DEF Split
  <2>2. \A p, q \in DOMAIN Places : i \in Places[p] /\ i \in Places[q] => p = q
    BY <1>2, <1>3, <1>4 DEF Split
  <2>3. \E p : {q \in DOMAIN Places : i \in Places[q]} = {p}
    BY <2>1, <2>2
  <2> QED
    BY <2>3, FS_Singleton
<1> QED
  BY <1>1, <1>5 DEF OneFate, SockInv, QueueState, Once

(* Every record written to the socket is in exactly one of the places a    *)
(* record can be, at most once in the queue, and the queue's bytes are the *)
(* ones missing from byte_budget: whatever the interleaving of reader,     *)
(* processor and ticks, and however often a read or a commit fails.        *)
THEOREM EveryRecordHasOneFate == SockSpec => []OneFate
BY FateFollows, SocketInvariant, PTL

=============================================================================
