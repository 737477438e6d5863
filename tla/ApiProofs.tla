----------------------------- MODULE ApiProofs -----------------------------
(***************************************************************************)
(* The server's API: first the sessions and auto-archive filters of        *)
(* ConfigState, for any number of requests handled at the same time, of    *)
(* users, sessions, filters and connections of the pool; then EventQuery:  *)
(* the searches, for every query the parser accepts and any events, the    *)
(* differences of counters, for any stats events, and the count, histogram *)
(* and top values.                                                         *)
(***************************************************************************)
EXTENDS ConfigState, EventQuery, Counting, SequenceTheorems, TLAPS

-----------------------------------------------------------------------------
(* Sessions and filters.                                                   *)

(* What a handler may rely on where it stands.                             *)
ReqOK(q) ==
  /\ q.pc = "login" => q.user \in Accounts
  /\ q.pc = "save" => q.user \in Accounts /\ q.tok \in used \ known
  /\ q.pc \notin {"login", "save"} => q.tok \in known
  /\ q.pc \in {"acquire", "db", "expire", "put"} =>
       /\ q.op \in Ops
       /\ q.op = "add" => q.filter \in Filters
       /\ q.op = "delete" => q.id \in ids
  /\ q.pc = "put" => q.user \in Accounts /\ q.tok \notin out \ excused
  /\ q.pc \in {"insert", "live", "remove", "unlive"} => q.filter \in Filters
  /\ q.pc = "live" => q.filter \in dels \/ q.filter \in RowFilters
  /\ q.pc \in {"row", "remove"} => q.id \in ids
  /\ q.pc = "remove" => rows[q.id] \in {Nil, q.filter}
  /\ q.pc \in {"remove", "unlive"} => q.filter \in dels

ReqsOK == \A r \in Reqs : req[r] # Nil => ReqOK(req[r])

(* A session id is handed to one login.                                    *)
SaveOnce == \A r, s \in Reqs : At(r, "save") /\ At(s, "save") /\ req[r].tok = req[s].tok => r = s

(* The handlers that hold a connection; the others are in the pool.        *)
Holders == {r \in Reqs : At(r, "db") \/ At(r, "expire")}
PoolConserved == pool + Cardinality(Holders) = PoolSize

UnusedRowsEmpty == \A i \in RowIds \ ids : rows[i] = Nil

ConfigInv ==
  /\ ConfigTypeOK /\ clock \in Nat /\ out \subseteq known
  /\ ReqsOK /\ SaveOnce /\ PoolConserved /\ UnusedRowsEmpty
  /\ LogoutHolds /\ FilterStaysInForce

-----------------------------------------------------------------------------
(* How a step changes the requests.                                        *)

Slot == Request \union {Nil}

(* The same request, whose snapshot may have become stale.                 *)
Agrees(p, q) ==
  \/ q = p
  \/ /\ p \in Request /\ q \in Request /\ p # Nil
     /\ p.pc = "remove"
     /\ q.pc = p.pc /\ q.op = p.op /\ q.tok = p.tok /\ q.user = p.user
     /\ q.filter = p.filter /\ q.id = p.id

(* Making snapshots stale leaves every request as it was otherwise.        *)
LEMMA StaleAgrees ==
  ASSUME NEW q \in [Reqs -> Slot], NEW self
  PROVE  /\ Stale(q, self) \in [Reqs -> Slot]
         /\ \A s \in Reqs : Agrees(q[s], Stale(q, self)[s])
         /\ self \in Reqs => Stale(q, self)[self] = q[self]
<1>1. ASSUME NEW p \in Request
      PROVE  LET c == [p EXCEPT !.stale = TRUE]
             IN  /\ c \in Request /\ c.pc = p.pc /\ c.op = p.op /\ c.tok = p.tok
                 /\ c.user = p.user /\ c.filter = p.filter /\ c.id = p.id
  BY DEF Request
<1>2. ASSUME NEW s \in Reqs
      PROVE Stale(q, self)[s] \in Slot /\ Agrees(q[s], Stale(q, self)[s])
  <2>1. CASE s # self /\ q[s] # Nil /\ q[s].pc = "remove"
    <3>1. q[s] \in Request /\ Stale(q, self)[s] = [q[s] EXCEPT !.stale = TRUE]
      BY <2>1 DEF Stale, Slot
    <3> QED
      BY <3>1, <2>1, <1>1 DEF Agrees, Slot
  <2>2. CASE ~(s # self /\ q[s] # Nil /\ q[s].pc = "remove")
    BY <2>2 DEF Stale, Agrees
  <2> QED
    BY <2>1, <2>2
<1>3. Stale(q, self) \in [Reqs -> Slot]
  BY <1>2 DEF Stale
<1>4. self \in Reqs => Stale(q, self)[self] = q[self]
  BY DEF Stale
<1> QED
  BY <1>2, <1>3, <1>4

(* The request r is now x and the others are as they were.                 *)
Moves(r, x) ==
  /\ req' \in [Reqs -> Slot]
  /\ req'[r] = x
  /\ \A s \in Reqs \ {r} : Agrees(req[s], req'[s])

(* A step that sets one request moves it, and may make other snapshots     *)
(* stale.                                                                  *)
LEMMA MovesTo ==
  ASSUME req \in [Reqs -> Slot], NEW r \in Reqs, NEW x \in Slot,
         \/ req' = [req EXCEPT ![r] = x]
         \/ req' = Stale([req EXCEPT ![r] = x], r)
  PROVE  Moves(r, x)
<1> DEFINE q == [req EXCEPT ![r] = x]
<1>1. q \in [Reqs -> Slot] /\ q[r] = x /\ \A s \in Reqs \ {r} : q[s] = req[s]
  OBVIOUS
<1> HIDE DEF q
<1>2. CASE req' = q
  BY <1>1, <1>2 DEF Moves, Agrees
<1>3. CASE req' = Stale(q, r)
  <2>1. /\ Stale(q, r) \in [Reqs -> Slot]
        /\ \A s \in Reqs : Agrees(q[s], Stale(q, r)[s])
        /\ Stale(q, r)[r] = q[r]
    BY <1>1, StaleAgrees
  <2> QED
    BY <2>1, <1>1, <1>3 DEF Moves
<1> QED
  BY <1>2, <1>3 DEF q

(* An answered request is gone.                                            *)
LEMMA AnsweredMoves ==
  ASSUME req \in [Reqs -> Slot], NEW r \in Reqs,
         req' = Answered(r) \/ req' = Stale(Answered(r), r)
  PROVE  Moves(r, Nil)
<1>1. Nil \in Slot
  BY DEF Slot
<1> QED
  BY <1>1, MovesTo DEF Answered

(* A request that goes on changes its control point only.                  *)
LEMMA GotoMoves ==
  ASSUME req \in [Reqs -> Slot], NEW r \in Reqs, req[r] # Nil,
         NEW pc \in {"db", "expire", "live", "unlive"},
         req' = Goto(r, pc) \/ req' = Stale(Goto(r, pc), r)
  PROVE  /\ Moves(r, [req[r] EXCEPT !.pc = pc])
         /\ [req[r] EXCEPT !.pc = pc] \in Request
<1>1. req[r] \in Request
  BY DEF Slot
<1>2. [req[r] EXCEPT !.pc = pc] \in Request
  BY <1>1 DEF Request
<1>3. Goto(r, pc) = [req EXCEPT ![r] = [req[r] EXCEPT !.pc = pc]]
  BY DEF Goto
<1> QED
  BY <1>2, <1>3, MovesTo DEF Slot

-----------------------------------------------------------------------------
(* The part of the invariant that is about the requests.                   *)

ReqPart ==
  /\ req \in [Reqs -> Slot] /\ ReqsOK /\ SaveOnce
  /\ PoolConserved /\ pool \in 0 .. PoolSize

Connected(q) == q # Nil /\ q.pc \in {"db", "expire"}

(* What a handler relies on does not depend on its snapshot being fresh.   *)
LEMMA AgreesOK ==
  ASSUME NEW p, NEW q, Agrees(p, q), ReqOK(p)'
  PROVE  ReqOK(q)'
<1>1. CASE q = p
  BY <1>1
<1>2. CASE q # p
  BY <1>2 DEF Agrees, ReqOK
<1> QED
  BY <1>1, <1>2

(* The handlers that hold a connection can be counted.                     *)
LEMMA HoldersType == IsFiniteSet(Holders) /\ Cardinality(Holders) \in Nat
<1>1. Holders \in SUBSET Reqs
  BY DEF Holders
<1> QED
  BY <1>1, ConfigAssumption, FS_Subset, FS_CardinalityType

(* A step that moves one request: r is about to be x.                      *)
LEMMA OneMoves ==
  ASSUME ReqPart, NEW r \in Reqs, NEW x, Moves(r, x), pool' \in Nat,
         pool' = IF Connected(x) THEN IF Connected(req[r]) THEN pool ELSE pool - 1
                 ELSE IF Connected(req[r]) THEN pool + 1 ELSE pool,
         x # Nil => ReqOK(x)',
         x # Nil /\ x.pc = "save" => x.tok \notin used,
         \A s \in Reqs \ {r} : \A q \in Request : req[s] = q /\ q # Nil => ReqOK(q)'
  PROVE  ReqPart'
<1>1. req' \in [Reqs -> Slot] /\ req'[r] = x
  BY DEF Moves
<1>2. ASSUME NEW s \in Reqs \ {r} PROVE Agrees(req[s], req'[s]) /\ req[s] \in Slot
  BY DEF Moves, ReqPart
<1>3. ReqsOK'
  <2> SUFFICES ASSUME NEW s \in Reqs, NEW q, q = req'[s], q # Nil PROVE ReqOK(q)'
    BY DEF ReqsOK, ReqOK
  <2>1. CASE s = r
    BY <2>1, <1>1
  <2>2. CASE s # r
    <3> SUFFICES ASSUME NEW p, p = req[s] PROVE ReqOK(q)'
      OBVIOUS
    <3>1. Agrees(p, q) /\ p \in Slot
      BY <1>2, <2>2
    <3>2. p \in Request /\ p # Nil
      BY <3>1 DEF Agrees, Slot
    <3>3. ReqOK(p)'
      BY <3>2, <2>2
    <3> QED
      BY <3>1, <3>3, AgreesOK
  <2> QED
    BY <2>1, <2>2
<1>4. ASSUME NEW s \in Reqs \ {r}
      PROVE  \/ req'[s] = req[s]
             \/ req[s] # Nil /\ req[s].pc = "remove" /\ req'[s].pc = "remove"
  BY <1>2 DEF Agrees
<1>5. SaveOnce'
  <2> SUFFICES ASSUME NEW s \in Reqs, NEW t \in Reqs, At(s, "save")', At(t, "save")',
                      req'[s].tok = req'[t].tok, s # t
               PROVE  FALSE
    BY DEF SaveOnce
  <2>1. \A v \in Reqs \ {r} : At(v, "save")' => req'[v] = req[v] /\ At(v, "save")
    BY <1>4 DEF At
  <2>2. \A v \in Reqs : At(v, "save") => req[v].tok \in used
    BY DEF ReqPart, ReqsOK, ReqOK, At
  <2>3. CASE s # r /\ t # r
    BY <2>1, <2>3 DEF ReqPart, SaveOnce
  <2>4. CASE s = r
    <3>1. x.tok \notin used
      BY <2>4, <1>1 DEF At
    <3> QED
      BY <2>1, <2>2, <2>4, <3>1, <1>1
  <2>5. CASE t = r
    <3>1. x.tok \notin used
      BY <2>5, <1>1 DEF At
    <3> QED
      BY <2>1, <2>2, <2>5, <3>1, <1>1
  <2> QED
    BY <2>3, <2>4, <2>5
<1>6. Holders' = IF Connected(x) THEN Holders \union {r} ELSE Holders \ {r}
  <2>1. \A v \in Reqs \ {r} : v \in Holders' <=> v \in Holders
    BY <1>4 DEF Holders, At
  <2>2. r \in Holders' <=> Connected(x)
    BY <1>1 DEF Holders, At, Connected
  <2>3. Holders \subseteq Reqs /\ Holders' \subseteq Reqs
    BY DEF Holders
  <2> QED
    BY <2>1, <2>2, <2>3
<1>7. r \in Holders <=> Connected(req[r])
  BY DEF Holders, At, Connected
<1>8. PoolConserved' /\ pool' \in 0 .. PoolSize
  <2>1. IsFiniteSet(Holders) /\ Cardinality(Holders) \in Nat
    BY HoldersType
  <2>2. /\ Cardinality(Holders \union {r}) = IF r \in Holders THEN Cardinality(Holders)
                                             ELSE Cardinality(Holders) + 1
        /\ Cardinality(Holders \ {r}) = IF r \in Holders THEN Cardinality(Holders) - 1
                                         ELSE Cardinality(Holders)
        /\ IsFiniteSet(Holders \union {r}) /\ IsFiniteSet(Holders \ {r})
    BY <2>1, FS_AddElement, FS_RemoveElement
  <2>3. Cardinality(Holders \union {r}) \in Nat /\ Cardinality(Holders \ {r}) \in Nat
    BY <2>2, FS_CardinalityType
  <2>4. pool \in Nat /\ pool + Cardinality(Holders) = PoolSize /\ PoolSize \in Nat
    BY ConfigAssumption DEF ReqPart, PoolConserved
  <2>5. pool' + Cardinality(Holders') = PoolSize /\ Cardinality(Holders') \in Nat
    <3>1. CASE Connected(x)
      <4>1. Cardinality(Holders') = IF r \in Holders THEN Cardinality(Holders)
                                    ELSE Cardinality(Holders) + 1
        BY <1>6, <2>2, <3>1
      <4>2. pool' = IF r \in Holders THEN pool ELSE pool - 1
        BY <1>7, <3>1
      <4> QED
        BY <2>1, <2>4, <4>1, <4>2
    <3>2. CASE ~Connected(x)
      <4>1. /\ Cardinality(Holders') = IF r \in Holders THEN Cardinality(Holders) - 1
                                       ELSE Cardinality(Holders)
            /\ Cardinality(Holders') \in Nat
        BY <1>6, <2>2, <2>3, <3>2
      <4>2. pool' = IF r \in Holders THEN pool + 1 ELSE pool
        BY <1>7, <3>2
      <4> QED
        BY <2>1, <2>4, <4>1, <4>2
    <3> QED
      BY <3>1, <3>2
  <2> QED
    BY <2>4, <2>5 DEF PoolConserved
<1> QED
  BY <1>1, <1>3, <1>5, <1>8 DEF ReqPart

(* The tables, the cache and the filters in memory.                        *)
DataOK ==
  /\ users \subseteq Accounts /\ used \subseteq Tokens /\ known \subseteq used
  /\ sess \in [Tokens -> [user : Accounts, exp : Nat] \union {Nil}]
  /\ cache \in [Tokens -> Accounts \union {Nil}]
  /\ rows \in [RowIds -> Filters \union {Nil}] /\ ids \subseteq RowIds
  /\ live \subseteq Filters /\ added \subseteq Filters /\ dels \subseteq Filters
  /\ out \subseteq Tokens /\ excused \subseteq Tokens
  /\ clock \in Nat

SessPart == out \subseteq known /\ LogoutHolds
FilterPart == UnusedRowsEmpty /\ FilterStaysInForce

(* The invariant in the four parts that the steps prove one by one.        *)
LEMMA InvParts == ConfigInv <=> DataOK /\ ReqPart /\ SessPart /\ FilterPart
BY DEF ConfigInv, ConfigTypeOK, DataOK, ReqPart, SessPart, FilterPart, Slot

(* The other requests stand where they stood.                              *)
LEMMA StillOK ==
  ASSUME NEW q, ReqOK(q),
         used \subseteq used', known \subseteq known', ids \subseteq ids', dels \subseteq dels',
         q.pc = "save" => q.tok \notin known',
         q.pc = "put" => q.tok \notin out' \ excused',
         q.pc = "remove" => rows'[q.id] \in {rows[q.id], Nil},
         \A f \in RowFilters : f \in dels' \/ f \in RowFilters'
  PROVE  ReqOK(q)'
BY DEF ReqOK

(* A step that leaves alone what the other requests rely on.               *)
LEMMA QuietMove ==
  ASSUME ReqPart, NEW r \in Reqs, NEW x, Moves(r, x), pool' \in Nat,
         pool' = IF Connected(x) THEN IF Connected(req[r]) THEN pool ELSE pool - 1
                 ELSE IF Connected(req[r]) THEN pool + 1 ELSE pool,
         x # Nil => ReqOK(x)' /\ x.pc # "save",
         UNCHANGED <<used, known, ids, rows, dels, out>>, excused \subseteq excused'
  PROVE  ReqPart'
<1>1. ASSUME NEW s \in Reqs \ {r}, NEW q \in Request, req[s] = q, q # Nil PROVE ReqOK(q)'
  <2>1. ReqOK(q)
    BY <1>1 DEF ReqPart, ReqsOK
  <2>2. (q.pc = "save" => q.tok \notin known) /\ (q.pc = "put" => q.tok \notin out \ excused)
    BY <2>1 DEF ReqOK
  <2>3. RowFilters' = RowFilters
    BY DEF RowFilters
  <2> QED
    BY <2>1, <2>2, <2>3, StillOK
<1> QED
  BY <1>1, OneMoves

(* A request that is answered needs nothing further.                       *)
LEMMA QuietAnswer ==
  ASSUME ReqPart, NEW r \in Reqs, req[r] # Nil,
         req' = Answered(r) \/ req' = Stale(Answered(r), r),
         pool' = IF Connected(req[r]) THEN pool + 1 ELSE pool,
         UNCHANGED <<used, known, ids, rows, dels, out>>, excused \subseteq excused'
  PROVE  ReqPart'
<1>1. Moves(r, Nil)
  BY AnsweredMoves DEF ReqPart
<1>2. ~Connected(Nil)
  BY DEF Connected
<1>3. pool' \in Nat
  BY DEF ReqPart
<1> QED
  BY <1>1, <1>2, <1>3, QuietMove

(* The filters of the table.                                               *)
LEMMA RowFiltersIs == \A f : f \in RowFilters <=> f # Nil /\ \E i \in RowIds : rows[i] = f
BY DEF RowFilters

(* At the start no request is handled, nobody is logged in and all         *)
(* connections are free.                                                   *)
LEMMA ConfigInitInv == ConfigInit => ConfigInv
<1> SUFFICES ASSUME ConfigInit PROVE ConfigInv
  OBVIOUS
<1>1. DataOK
  BY DEF ConfigInit, DataOK
<1>2. Holders = {} /\ \A r \in Reqs : req[r] = Nil
  BY DEF ConfigInit, Holders, At
<1>3. Cardinality(Holders) = 0
  BY <1>2, FS_EmptySet
<1>4. ReqPart
  BY <1>2, <1>3, ConfigAssumption
  DEF ConfigInit, ReqPart, Slot, ReqsOK, SaveOnce, At, PoolConserved
<1>5. SessPart /\ FilterPart
  BY DEF ConfigInit, SessPart, LogoutHolds, FilterPart, UnusedRowsEmpty, FilterStaysInForce
<1> QED
  BY <1>1, <1>4, <1>5, InvParts

-----------------------------------------------------------------------------
(* Logging in.                                                             *)

Parts == DataOK /\ ReqPart /\ SessPart /\ FilterPart

(* A login begins with an account of the table.                            *)
LEMMA LoginStep ==
  ASSUME Parts, NEW r \in Reqs, NEW u \in Accounts, Login(r, u) PROVE Parts'
<1> DEFINE x == [pc |-> "login", op |-> "login", tok |-> Nil, user |-> u,
                 filter |-> Nil, id |-> Nil, stale |-> FALSE]
<1>1. x \in Request /\ x.pc = "login" /\ x.user = u
  BY DEF Request
<1>2. /\ req[r] = Nil /\ req' = [req EXCEPT ![r] = x]
      /\ UNCHANGED <<users, sess, cache, used, known, rows, ids, live, pool, clock, mishaps, out, excused, added, dels>>
  BY DEF Login, Idle
<1> HIDE DEF x
<1>3. Moves(r, x)
  BY <1>1, <1>2, MovesTo DEF Parts, ReqPart, Slot
<1>4. ReqOK(x)'
  BY <1>1 DEF ReqOK
<1>5. ReqPart'
  BY <1>1, <1>2, <1>3, <1>4, QuietMove DEF Parts, ReqPart, Connected
<1> QED
  BY <1>2, <1>5 DEF Parts, DataOK, SessPart, LogoutHolds, FilterPart, UnusedRowsEmpty,
                    FilterStaysInForce, RowFilters

(* A session gets an id that no session had, in the cache and for the row  *)
(* to come.                                                                *)
LEMMA CreateSessionStep ==
  ASSUME Parts, NEW r \in Reqs, CreateSession(r) PROVE Parts'
<1>1. PICK t \in Tokens \ used :
          /\ used' = used \union {t}
          /\ cache' = [cache EXCEPT ![t] = req[r].user]
          /\ req' = [req EXCEPT ![r].pc = "save", ![r].tok = t]
  BY DEF CreateSession
<1>2. /\ req[r] # Nil /\ req[r].pc = "login" /\ req[r] \in Request
      /\ UNCHANGED <<users, sess, known, rows, ids, live, pool, clock, out, excused, added, dels>>
  BY DEF CreateSession, At, Parts, ReqPart, Slot
<1>3. req[r].user \in Accounts
  BY <1>2 DEF Parts, ReqPart, ReqsOK, ReqOK
<1>a. PICK x : x = [req[r] EXCEPT !.pc = "save", !.tok = t]
  OBVIOUS
<1>4. x \in Request /\ x.pc = "save" /\ x.tok = t /\ x.user = req[r].user
  BY <1>2, <1>a DEF Request
<1>5. req' = [req EXCEPT ![r] = x]
  BY <1>1, <1>a
<1>6. Moves(r, x)
  BY <1>4, <1>5, MovesTo DEF Parts, ReqPart, Slot
<1>7. ReqOK(x)'
  <2>1. t \in used' \ known'
    BY <1>1, <1>2 DEF Parts, DataOK
  <2> QED
    BY <1>3, <1>4, <2>1 DEF ReqOK
<1>8. ASSUME NEW s \in Reqs \ {r}, NEW q \in Request, req[s] = q, q # Nil PROVE ReqOK(q)'
  <2>1. ReqOK(q)
    BY <1>8 DEF Parts, ReqPart, ReqsOK
  <2>2. (q.pc = "save" => q.tok \notin known) /\ (q.pc = "put" => q.tok \notin out \ excused)
    BY <2>1 DEF ReqOK
  <2>3. RowFilters' = RowFilters
    BY <1>2 DEF RowFilters
  <2> QED
    BY <1>1, <1>2, <2>1, <2>2, <2>3, StillOK
<1>9. ReqPart'
  <2>1. ~Connected(x) /\ ~Connected(req[r]) /\ pool \in Nat
    BY <1>2, <1>4 DEF Connected, Parts, ReqPart
  <2> QED
    BY <1>1, <1>2, <1>4, <1>6, <1>7, <1>8, <2>1, OneMoves DEF Parts
<1>10. DataOK'
  BY <1>1, <1>2, <1>3 DEF Parts, DataOK
<1>11. SessPart'
  <2>1. t \notin out
    BY <1>1 DEF Parts, DataOK, SessPart
  <2> QED
    BY <1>1, <1>2, <2>1 DEF Parts, DataOK, SessPart, LogoutHolds
<1>12. FilterPart'
  BY <1>2 DEF Parts, FilterPart, UnusedRowsEmpty, FilterStaysInForce, RowFilters
<1> QED
  BY <1>9, <1>10, <1>11, <1>12 DEF Parts

(* The row of a new session is saved, or its saving fails.                 *)
LEMMA SaveSessionStep ==
  ASSUME Parts, NEW r \in Reqs, SaveSession(r) PROVE Parts'
<1> DEFINE t == req[r].tok
           u == req[r].user
<1>1. /\ req[r] # Nil /\ req[r].pc = "save" /\ At(r, "save")
      /\ known' = known \union {t}
      /\ \/ u \in users /\ sess' = [sess EXCEPT ![t] = SessionRow(u)]
         \/ UNCHANGED sess
      /\ req' = Answered(r) \/ req' = Stale(Answered(r), r)
      /\ UNCHANGED <<users, cache, used, rows, ids, live, pool, clock, out, excused, added, dels>>
  BY DEF SaveSession, At
<1>2. u \in Accounts /\ t \in used \ known
  BY <1>1 DEF Parts, ReqPart, ReqsOK, ReqOK
<1>3. Moves(r, Nil)
  BY <1>1, AnsweredMoves DEF Parts, ReqPart
<1>4. ASSUME NEW s \in Reqs \ {r}, NEW q \in Request, req[s] = q, q # Nil PROVE ReqOK(q)'
  <2>1. ReqOK(q)
    BY <1>4 DEF Parts, ReqPart, ReqsOK
  <2>2. (q.pc = "save" => q.tok \notin known) /\ (q.pc = "put" => q.tok \notin out \ excused)
    BY <2>1 DEF ReqOK
  <2>3. q.pc = "save" => q.tok # t
    BY <1>1, <1>4 DEF Parts, ReqPart, SaveOnce, At
  <2>4. RowFilters' = RowFilters
    BY <1>1 DEF RowFilters
  <2> QED
    BY <1>1, <2>1, <2>2, <2>3, <2>4, StillOK
<1>5. ReqPart'
  <2>1. ~Connected(Nil) /\ ~Connected(req[r]) /\ pool \in Nat
    BY <1>1 DEF Connected, Parts, ReqPart
  <2> QED
    BY <1>1, <1>3, <1>4, <2>1, OneMoves DEF Parts
<1>6. DataOK'
  <2>1. SessionRow(u) \in [user : Accounts, exp : Nat]
    <3>1. clock + SessionLife \in Nat
      BY ConfigAssumption DEF Parts, DataOK
    <3> QED
      BY <1>2, <3>1 DEF SessionRow
  <2>2. t \in Tokens /\ sess \in [Tokens -> [user : Accounts, exp : Nat] \union {Nil}]
    BY <1>2 DEF Parts, DataOK
  <2>3. sess' \in [Tokens -> [user : Accounts, exp : Nat] \union {Nil}]
    BY <1>1, <2>1, <2>2
  <2> QED
    BY <1>1, <1>2, <2>3 DEF Parts, DataOK
<1>7. SessPart'
  <2>1. t \notin out
    BY <1>2 DEF Parts, SessPart
  <2>2. \A v \in Tokens : v # t => sess'[v] = sess[v]
    BY <1>1 DEF Parts, DataOK
  <2> QED
    BY <1>1, <2>1, <2>2 DEF Parts, DataOK, SessPart, LogoutHolds
<1>8. FilterPart'
  BY <1>1 DEF Parts, FilterPart, UnusedRowsEmpty, FilterStaysInForce, RowFilters
<1> QED
  BY <1>5, <1>6, <1>7, <1>8 DEF Parts

-----------------------------------------------------------------------------
(* The session extractor.                                                  *)

(* What the handler proper changes before it first awaits the database.    *)
LEMMA EnterMoves ==
  ASSUME Parts, NEW r \in Reqs, NEW q \in Request, q.tok \in known, q.op \in Ops,
         q.op = "add" => q.filter \in Filters,
         q.op = "delete" => q.id \in ids,
         req' = Enter(r, q),
         ~Connected(req[r]),
         UNCHANGED <<used, known, ids, rows, dels, out, pool, live>>, excused \subseteq excused'
  PROVE  ReqPart'
<1>0. pool \in Nat /\ pool' = pool /\ req \in [Reqs -> Slot]
  BY DEF Parts, ReqPart
<1>1. ASSUME NEW x \in Slot, req' = [req EXCEPT ![r] = x], ~Connected(x),
             x # Nil => ReqOK(x)' /\ x.pc # "save"
      PROVE  ReqPart'
  <2>1. Moves(r, x)
    BY <1>0, <1>1, MovesTo
  <2> QED
    BY <1>0, <1>1, <2>1, QuietMove DEF Parts
<1>2. ASSUME NEW pc \in {"logout", "insert", "row"},
             pc = "insert" => q.filter \in Filters, pc = "row" => q.id \in ids
      PROVE  LET x == [q EXCEPT !.pc = pc]
             IN  x \in Slot /\ ~Connected(x) /\ ReqOK(x)' /\ x.pc # "save"
  <2> DEFINE x == [q EXCEPT !.pc = pc]
  <2>1. x \in Request /\ x.pc = pc /\ x.tok = q.tok /\ x.filter = q.filter /\ x.id = q.id
    BY DEF Request
  <2> HIDE DEF x
  <2>2. ReqOK(x)'
    BY <1>2, <2>1 DEF ReqOK
  <2>3. ~Connected(x) /\ x.pc # "save"
    BY <2>1 DEF Connected
  <2> QED
    BY <2>1, <2>2, <2>3 DEF Slot, x
<1>3. Nil \in Slot /\ ~Connected(Nil)
  BY DEF Slot, Connected
<1>4. CASE q.op = "use"
  <2>1. req' = [req EXCEPT ![r] = Nil]
    BY <1>4 DEF Enter
  <2> QED
    BY <1>1, <1>3, <2>1
<1>5. CASE q.op = "logout"
  <2>1. req' = [req EXCEPT ![r] = [q EXCEPT !.pc = "logout"]]
    BY <1>5 DEF Enter
  <2> QED
    BY <1>1, <1>2, <2>1
<1>6. CASE q.op = "add"
  <2>1. req' = [req EXCEPT ![r] = IF q.filter \in live THEN Nil ELSE [q EXCEPT !.pc = "insert"]]
    BY <1>6 DEF Enter
  <2>2. CASE q.filter \in live
    BY <1>1, <1>3, <2>1, <2>2
  <2>3. CASE q.filter \notin live
    BY <1>1, <1>2, <1>6, <2>1, <2>3
  <2> QED
    BY <2>2, <2>3
<1>7. CASE q.op = "delete"
  <2>1. req' = [req EXCEPT ![r] = [q EXCEPT !.pc = "row"]]
    BY <1>7 DEF Enter
  <2> QED
    BY <1>1, <1>2, <1>7, <2>1
<1> QED
  BY <1>4, <1>5, <1>6, <1>7 DEF Ops

(* An add that finds its filter live is answered at once.                  *)
LEMMA AddFindsLive ==
  ASSUME Parts, NEW q, UNCHANGED <<rows, ids, live, dels>>,
         \/ added' = IF q.op = "add" /\ q.filter \in live THEN added \union {q.filter} ELSE added
         \/ UNCHANGED added
  PROVE  FilterPart' /\ added' \subseteq Filters
<1>1. RowFilters' = RowFilters
  BY DEF RowFilters
<1>2. added' \subseteq added \union live
  OBVIOUS
<1>3. added' \subseteq Filters
  BY <1>2 DEF Parts, DataOK
<1>4. FilterStaysInForce'
  BY <1>1, <1>2 DEF Parts, FilterPart, FilterStaysInForce
<1> QED
  BY <1>3, <1>4 DEF Parts, FilterPart, UnusedRowsEmpty

(* A session in the cache is used without the database; any other is       *)
(* looked up.                                                              *)
LEMMA AuthenticateStep ==
  ASSUME Parts, NEW r \in Reqs, NEW t \in known, NEW op \in Ops, NEW f, NEW i,
         f \in Filters \/ (f = Nil /\ op # "add"), i \in ids \/ (i = Nil /\ op # "delete"),
         Authenticate(r, t, op, f, i)
  PROVE  Parts'
<1> DEFINE q == [pc |-> "acquire", op |-> op, tok |-> t, user |-> Nil, filter |-> f, id |-> i,
                 stale |-> FALSE]
<1>0. t \in Tokens /\ f \in Filters \union {Nil} /\ i \in RowIds \union {Nil}
  BY DEF Parts, DataOK
<1>1. q \in Request /\ q.pc = "acquire" /\ q.op = op /\ q.tok = t /\ q.filter = f /\ q.id = i
  BY <1>0 DEF Request, Ops
<1>2. /\ req[r] = Nil
      /\ \/ cache[t] # Nil /\ req' = Enter(r, q) /\ EnterEffects(q)
         \/ cache[t] = Nil /\ req' = [req EXCEPT ![r] = q] /\ UNCHANGED <<cache, excused, added>>
      /\ UNCHANGED <<users, sess, used, known, rows, ids, live, pool, clock, mishaps, out, dels>>
  BY DEF Authenticate, Idle
<1> HIDE DEF q
<1>3. ~Connected(req[r]) /\ pool \in Nat
  BY <1>2 DEF Connected, Parts, ReqPart
<1>4. /\ excused \subseteq excused' /\ excused' \subseteq excused \union {t}
      /\ cache' = cache \/ cache' = [cache EXCEPT ![t] = Nil]
      /\ \/ added' = IF q.op = "add" /\ q.filter \in live THEN added \union {q.filter} ELSE added
         \/ UNCHANGED added
  BY <1>1, <1>2 DEF EnterEffects
<1>5. ReqPart'
  <2>1. CASE req' = Enter(r, q)
    BY <1>1, <1>2, <1>3, <1>4, <2>1, EnterMoves
  <2>2. CASE req' = [req EXCEPT ![r] = q]
    <3>1. Moves(r, q)
      BY <1>1, <2>2, MovesTo DEF Parts, ReqPart, Slot
    <3>2. ReqOK(q)'
      BY <1>1, <1>2 DEF ReqOK
    <3>3. ~Connected(q) /\ q.pc # "save"
      BY <1>1 DEF Connected
    <3> QED
      BY <1>2, <1>3, <1>4, <3>1, <3>2, <3>3, QuietMove DEF Parts
  <2> QED
    BY <1>2, <2>1, <2>2
<1>6. FilterPart' /\ added' \subseteq Filters
  BY <1>2, <1>4, AddFindsLive
<1>7. DataOK'
  BY <1>0, <1>2, <1>4, <1>6 DEF Parts, DataOK
<1>8. SessPart'
  <2>1. \A v \in Tokens : cache'[v] = cache[v] \/ cache'[v] = Nil
    BY <1>0, <1>4 DEF Parts, DataOK
  <2> QED
    BY <1>2, <1>4, <2>1 DEF Parts, DataOK, SessPart, LogoutHolds
<1> QED
  BY <1>5, <1>6, <1>7, <1>8 DEF Parts

(* Where only the request and the pool change.                             *)
LEMMA OnlyRequest ==
  ASSUME Parts, ReqPart',
         UNCHANGED <<users, sess, cache, used, known, rows, ids, live, clock, out, excused, added, dels>>
  PROVE  Parts'
BY DEF Parts, DataOK, SessPart, LogoutHolds, FilterPart, UnusedRowsEmpty, FilterStaysInForce, RowFilters

(* A look-up takes a connection, or gives up when there is none.           *)
LEMMA AcquireConnStep ==
  ASSUME Parts, NEW r \in Reqs, AcquireConn(r) PROVE Parts'
<1>1. /\ req[r] # Nil /\ req[r].pc = "acquire"
      /\ \/ pool > 0 /\ pool' = pool - 1 /\ req' = Goto(r, "db")
         \/ pool = 0 /\ req' = Answered(r) /\ UNCHANGED pool
      /\ UNCHANGED <<users, sess, cache, used, known, rows, ids, live, clock, out, excused, added, dels>>
  BY DEF AcquireConn, At
<1>2. ~Connected(req[r]) /\ pool \in Nat /\ req[r] \in Request /\ ReqOK(req[r]) /\ req \in [Reqs -> Slot]
  BY <1>1 DEF Connected, Parts, ReqPart, Slot, ReqsOK
<1>3. CASE req' = Answered(r) /\ UNCHANGED pool
  <2>1. ReqPart'
    BY <1>1, <1>2, <1>3, QuietAnswer DEF Parts
  <2> QED
    BY <1>1, <2>1, OnlyRequest
<1>4. CASE pool > 0 /\ pool' = pool - 1 /\ req' = Goto(r, "db")
  <2>0. PICK x : x = [req[r] EXCEPT !.pc = "db"]
    OBVIOUS
  <2>1. Moves(r, x) /\ x \in Request
    BY <1>1, <1>2, <1>4, <2>0, GotoMoves
  <2>2. x.pc = "db" /\ x.tok = req[r].tok /\ x.op = req[r].op /\ x.filter = req[r].filter
        /\ x.id = req[r].id /\ x # Nil
    BY <1>2, <2>0, <2>1, NilAssumption DEF Request
  <2>3. ReqOK(x)'
    BY <1>1, <1>2, <2>2 DEF ReqOK
  <2>4. Connected(x) /\ pool' \in Nat /\ x.pc # "save"
    BY <1>2, <1>4, <2>2 DEF Connected
  <2>5. ReqPart'
    BY <1>1, <1>2, <1>4, <2>1, <2>3, <2>4, QuietMove DEF Parts
  <2> QED
    BY <1>1, <2>5, OnlyRequest
<1> QED
  BY <1>1, <1>3, <1>4

(* A look-up finds the row, finds it expired, or finds none; only in the   *)
(* second case it keeps its connection.                                    *)
LEMMA LookUpStep ==
  ASSUME Parts, NEW r \in Reqs, LookUp(r) PROVE Parts'
<1> DEFINE row == sess[req[r].tok]
<1>1. /\ req[r] # Nil /\ req[r].pc = "db"
      /\ \/ req' = Answered(r) /\ pool' = pool + 1
         \/ req' = Goto(r, "expire") /\ UNCHANGED pool
         \/ /\ row # Nil /\ req' = [req EXCEPT ![r].pc = "put", ![r].user = row.user]
            /\ pool' = pool + 1
      /\ UNCHANGED <<users, sess, cache, used, known, rows, ids, live, clock, out, excused, added, dels>>
  BY DEF LookUp, At
<1>2. Connected(req[r]) /\ pool \in Nat /\ req[r] \in Request /\ ReqOK(req[r]) /\ req \in [Reqs -> Slot]
  BY <1>1 DEF Connected, Parts, ReqPart, Slot, ReqsOK
<1>3. CASE req' = Answered(r) /\ pool' = pool + 1
  <2>1. ReqPart'
    BY <1>1, <1>2, <1>3, QuietAnswer DEF Parts
  <2> QED
    BY <1>1, <2>1, OnlyRequest
<1>4. CASE req' = Goto(r, "expire") /\ UNCHANGED pool
  <2>0. PICK x : x = [req[r] EXCEPT !.pc = "expire"]
    OBVIOUS
  <2>1. Moves(r, x) /\ x \in Request
    BY <1>1, <1>2, <1>4, <2>0, GotoMoves
  <2>2. x.pc = "expire" /\ x.tok = req[r].tok /\ x.op = req[r].op /\ x.filter = req[r].filter
        /\ x.id = req[r].id /\ x # Nil
    BY <1>2, <2>0, <2>1, NilAssumption DEF Request
  <2>3. ReqOK(x)'
    BY <1>1, <1>2, <2>2 DEF ReqOK
  <2>4. Connected(x) /\ pool' \in Nat /\ x.pc # "save"
    BY <1>2, <1>4, <2>2 DEF Connected
  <2>5. ReqPart'
    BY <1>1, <1>2, <1>4, <2>1, <2>3, <2>4, QuietMove DEF Parts
  <2> QED
    BY <1>1, <2>5, OnlyRequest
<1>5. CASE /\ row # Nil /\ req' = [req EXCEPT ![r].pc = "put", ![r].user = row.user]
           /\ pool' = pool + 1
  <2>a. req[r].tok \in known /\ req[r].tok \in Tokens
    BY <1>1, <1>2 DEF ReqOK, Parts, DataOK
  <2>b. row.user \in Accounts /\ req[r].tok \notin out \ excused
    BY <1>5, <2>a DEF Parts, DataOK, SessPart, LogoutHolds
  <2>0. PICK x : x = [req[r] EXCEPT !.pc = "put", !.user = row.user]
    OBVIOUS
  <2>1. x \in Request
    BY <1>2, <2>0, <2>b DEF Request
  <2>2. x.pc = "put" /\ x.tok = req[r].tok /\ x.op = req[r].op /\ x.filter = req[r].filter
        /\ x.id = req[r].id /\ x.user = row.user
    BY <1>2, <2>0 DEF Request
  <2>c. req' = [req EXCEPT ![r] = x]
    BY <1>5, <2>0
  <2>d. Moves(r, x)
    BY <1>2, <2>1, <2>c, MovesTo DEF Slot
  <2>3. ReqOK(x)'
    BY <1>1, <1>2, <2>2, <2>b DEF ReqOK
  <2>4. ~Connected(x) /\ pool' \in Nat /\ x.pc # "save"
    BY <1>2, <1>5, <2>2 DEF Connected
  <2>5. ReqPart'
    BY <1>1, <1>2, <1>5, <2>d, <2>3, <2>4, QuietMove DEF Parts
  <2> QED
    BY <1>1, <2>5, OnlyRequest
<1> QED
  BY <1>1, <1>3, <1>4, <1>5

(* Rows that go: those of expired sessions, or that of a session logged out. *)
LEMMA FewerSessions ==
  ASSUME DataOK, sess' \in [Tokens -> [user : Accounts, exp : Nat] \union {Nil}],
         UNCHANGED <<users, cache, used, known, rows, ids, live, clock, added, dels>>,
         out' \subseteq Tokens, excused' \subseteq Tokens
  PROVE  DataOK'
BY DEF DataOK

(* Expiring needs a second connection; whether it gets one or not, the     *)
(* first is given back.                                                    *)
LEMMA ExpireSessionsStep ==
  ASSUME Parts, NEW r \in Reqs, ExpireSessions(r) PROVE Parts'
<1>1. /\ req[r] # Nil /\ req[r].pc = "expire" /\ pool' = pool + 1
      /\ \/ sess' = [t \in Tokens |-> IF sess[t] # Nil /\ sess[t].exp < clock THEN Nil ELSE sess[t]]
         \/ UNCHANGED sess
      /\ req' = Answered(r) \/ req' = Stale(Answered(r), r)
      /\ UNCHANGED <<users, cache, used, known, rows, ids, live, clock, out, excused, added, dels>>
  BY DEF ExpireSessions, At
<1>2. Connected(req[r])
  BY <1>1 DEF Connected
<1>3. ReqPart'
  BY <1>1, <1>2, QuietAnswer DEF Parts
<1>4. /\ \A t \in Tokens : sess'[t] = sess[t] \/ sess'[t] = Nil
      /\ sess' \in [Tokens -> [user : Accounts, exp : Nat] \union {Nil}]
  <2>1. CASE UNCHANGED sess
    BY <2>1 DEF Parts, DataOK
  <2>2. CASE sess' = [t \in Tokens |-> IF sess[t] # Nil /\ sess[t].exp < clock THEN Nil ELSE sess[t]]
    BY <2>2 DEF Parts, DataOK
  <2> QED
    BY <1>1, <2>1, <2>2
<1>5. DataOK'
  BY <1>1, <1>4, FewerSessions DEF Parts, DataOK
<1>6. SessPart'
  BY <1>1, <1>4 DEF Parts, DataOK, SessPart, LogoutHolds
<1>7. FilterPart'
  BY <1>1 DEF Parts, FilterPart, UnusedRowsEmpty, FilterStaysInForce, RowFilters
<1> QED
  BY <1>3, <1>5, <1>6, <1>7 DEF Parts

(* The session that was found enters the cache, or leaves it again when    *)
(* the request is a logout.                                                *)
LEMMA CacheSessionStep ==
  ASSUME Parts, NEW r \in Reqs, CacheSession(r) PROVE Parts'
<1>0. PICK q : q = req[r]
  OBVIOUS
<1>1. /\ q # Nil /\ q.pc = "put" /\ req' = Enter(r, q)
      /\ added' = IF q.op = "add" /\ q.filter \in live THEN added \union {q.filter} ELSE added
      /\ cache' = [cache EXCEPT ![q.tok] = IF q.op = "logout" THEN Nil ELSE q.user]
      /\ excused' = excused \/ excused' = excused \union {q.tok}
      /\ UNCHANGED <<users, sess, used, known, rows, ids, live, pool, clock, out, dels>>
  BY <1>0 DEF CacheSession, At
<1>2. q \in Request /\ ReqOK(q) /\ ~Connected(req[r])
  BY <1>0, <1>1 DEF Parts, ReqPart, Slot, ReqsOK, Connected
<1>3. /\ q.tok \in known /\ q.op \in Ops /\ q.user \in Accounts /\ q.tok \notin out \ excused
      /\ q.op = "add" => q.filter \in Filters
      /\ q.op = "delete" => q.id \in ids
  BY <1>1, <1>2 DEF ReqOK
<1>4. q.tok \in Tokens
  BY <1>3 DEF Parts, DataOK
<1>5. ReqPart'
  BY <1>1, <1>2, <1>3, EnterMoves
<1>6. FilterPart' /\ added' \subseteq Filters
  BY <1>1, AddFindsLive
<1>7. cache' \in [Tokens -> Accounts \union {Nil}]
  BY <1>1, <1>3, <1>4 DEF Parts, DataOK
<1>8. DataOK'
  BY <1>1, <1>4, <1>6, <1>7 DEF Parts, DataOK
<1>9. SessPart'
  <2>1. \A t \in Tokens : t # q.tok => cache'[t] = cache[t]
    BY <1>1 DEF Parts, DataOK
  <2> QED
    BY <1>1, <1>3, <2>1 DEF Parts, DataOK, SessPart, LogoutHolds
<1> QED
  BY <1>5, <1>6, <1>8, <1>9 DEF Parts

(* A logout takes the session out of cache and table, or is excused.       *)
LEMMA DeleteSessionStep ==
  ASSUME Parts, NEW r \in Reqs, DeleteSession(r) PROVE Parts'
<1>0. PICK t : t = req[r].tok
  OBVIOUS
<1>1. /\ req[r] # Nil /\ req[r].pc = "logout" /\ out' = out \union {t}
      /\ \/ /\ sess' = [sess EXCEPT ![t] = Nil]
            /\ excused' = IF cache[t] # Nil \/ \E s \in Reqs : At(s, "put") /\ req[s].tok = t
                          THEN excused \union {t} ELSE excused
         \/ excused' = excused \union {t} /\ UNCHANGED sess
      /\ req' = Answered(r) \/ req' = Stale(Answered(r), r)
      /\ UNCHANGED <<users, cache, used, known, rows, ids, live, pool, clock, added, dels>>
  BY <1>0 DEF DeleteSession, At
<1>2. t \in known /\ t \in Tokens
  BY <1>0, <1>1 DEF Parts, ReqPart, ReqsOK, ReqOK, DataOK
<1>3. excused \subseteq excused' /\ excused' \subseteq excused \union {t}
  BY <1>1
<1>4. Moves(r, Nil)
  BY <1>1, AnsweredMoves DEF Parts, ReqPart
<1>5. ASSUME NEW s \in Reqs \ {r}, NEW q \in Request, req[s] = q, q # Nil PROVE ReqOK(q)'
  <2>1. ReqOK(q)
    BY <1>5 DEF Parts, ReqPart, ReqsOK
  <2>2. q.pc = "save" => q.tok \notin known
    BY <2>1 DEF ReqOK
  <2>3. q.pc = "put" => q.tok \notin out' \ excused'
    <3> SUFFICES ASSUME q.pc = "put" PROVE q.tok \notin out' \ excused'
      OBVIOUS
    <3>1. q.tok \notin out \ excused
      BY <2>1 DEF ReqOK
    <3>2. CASE q.tok = t
      <4>1. At(s, "put") /\ req[s].tok = t
        BY <1>5, <3>2 DEF At
      <4> QED
        BY <1>1, <3>2, <4>1
    <3>3. CASE q.tok # t
      BY <1>1, <1>3, <3>1, <3>3
    <3> QED
      BY <3>2, <3>3
  <2>4. RowFilters' = RowFilters
    BY <1>1 DEF RowFilters
  <2> QED
    BY <1>1, <2>1, <2>2, <2>3, <2>4, StillOK
<1>6. ReqPart'
  <2>1. ~Connected(Nil) /\ ~Connected(req[r]) /\ pool \in Nat
    BY <1>1 DEF Connected, Parts, ReqPart
  <2> QED
    BY <1>1, <1>4, <1>5, <2>1, OneMoves DEF Parts
<1>7. /\ sess' \in [Tokens -> [user : Accounts, exp : Nat] \union {Nil}]
      /\ \A v \in Tokens : sess'[v] = sess[v] \/ sess'[v] = Nil
      /\ t \notin excused' => sess'[t] = Nil
  <2>1. CASE sess' = [sess EXCEPT ![t] = Nil]
    BY <2>1, <1>2 DEF Parts, DataOK
  <2>2. CASE excused' = excused \union {t} /\ UNCHANGED sess
    BY <2>2 DEF Parts, DataOK
  <2> QED
    BY <1>1, <2>1, <2>2
<1>8. DataOK'
  BY <1>1, <1>2, <1>3, <1>7, FewerSessions DEF Parts, DataOK
<1>9. SessPart'
  <2>1. t \notin excused' => cache'[t] = Nil
    BY <1>1
  <2>2. out' \subseteq known'
    BY <1>1, <1>2 DEF Parts, SessPart
  <2>3. LogoutHolds'
    BY <1>1, <1>3, <1>7, <2>1 DEF Parts, DataOK, SessPart, LogoutHolds
  <2> QED
    BY <2>2, <2>3 DEF SessPart
<1>10. FilterPart'
  BY <1>1 DEF Parts, FilterPart, UnusedRowsEmpty, FilterStaysInForce, RowFilters
<1> QED
  BY <1>6, <1>8, <1>9, <1>10 DEF Parts

-----------------------------------------------------------------------------
(* The filters.                                                            *)

(* An added filter has its row before it is applied.                       *)
LEMMA InsertFilterStep ==
  ASSUME Parts, NEW r \in Reqs, InsertFilter(r) PROVE Parts'
<1>1. PICK i \in RowIds \ ids : rows' = [rows EXCEPT ![i] = req[r].filter] /\ ids' = ids \union {i}
  BY DEF InsertFilter
<1>2. /\ req[r] # Nil /\ req[r].pc = "insert" /\ req' = Stale(Goto(r, "live"), r)
      /\ UNCHANGED <<users, sess, cache, used, known, live, pool, clock, out, excused, added, dels>>
  BY DEF InsertFilter, At
<1>3. /\ req[r] \in Request /\ ReqOK(req[r]) /\ ~Connected(req[r]) /\ pool \in Nat
      /\ req \in [Reqs -> Slot]
  BY <1>2 DEF Parts, ReqPart, Slot, ReqsOK, Connected
<1>4. req[r].filter \in Filters /\ req[r].tok \in known
  BY <1>2, <1>3 DEF ReqOK
<1>5. /\ rows' \in [RowIds -> Filters \union {Nil}] /\ rows'[i] = req[r].filter
      /\ \A j \in RowIds : j # i => rows'[j] = rows[j]
      /\ rows[i] = Nil
  BY <1>1, <1>4 DEF Parts, DataOK, FilterPart, UnusedRowsEmpty
<1>6. RowFilters \subseteq RowFilters' /\ req[r].filter \in RowFilters'
  <2>1. \A f : f \in RowFilters' <=> f # Nil /\ \E j \in RowIds : rows'[j] = f
    BY DEF RowFilters
  <2> QED
    BY <1>1, <1>4, <1>5, <2>1, RowFiltersIs, NilAssumption
<1>a. PICK x : x = [req[r] EXCEPT !.pc = "live"]
  OBVIOUS
<1>7. Moves(r, x) /\ x \in Request
  BY <1>2, <1>3, <1>a, GotoMoves
<1>8. x.pc = "live" /\ x.tok = req[r].tok /\ x.filter = req[r].filter
  BY <1>3, <1>a DEF Request
<1>9. ReqOK(x)' /\ ~Connected(x) /\ x.pc # "save"
  BY <1>2, <1>4, <1>6, <1>8 DEF ReqOK, Connected
<1>10. ASSUME NEW s \in Reqs \ {r}, NEW q \in Request, req[s] = q, q # Nil PROVE ReqOK(q)'
  <2>1. ReqOK(q)
    BY <1>10 DEF Parts, ReqPart, ReqsOK
  <2>2. /\ q.pc = "save" => q.tok \notin known
        /\ q.pc = "put" => q.tok \notin out \ excused
        /\ q.pc = "remove" => q.id \in ids
    BY <2>1 DEF ReqOK
  <2>3. q.pc = "remove" => rows'[q.id] = rows[q.id]
    BY <1>1, <1>5, <2>2 DEF Parts, DataOK
  <2> QED
    BY <1>1, <1>2, <1>6, <2>1, <2>2, <2>3, StillOK
<1>11. ReqPart'
  BY <1>2, <1>3, <1>7, <1>9, <1>10, OneMoves DEF Parts
<1>12. DataOK'
  BY <1>1, <1>2, <1>5 DEF Parts, DataOK
<1>13. SessPart'
  BY <1>2 DEF Parts, SessPart, LogoutHolds
<1>14. FilterPart'
  <2>1. UnusedRowsEmpty'
    BY <1>1, <1>5 DEF Parts, FilterPart, UnusedRowsEmpty
  <2>2. FilterStaysInForce'
    BY <1>2, <1>6 DEF Parts, FilterPart, FilterStaysInForce
  <2> QED
    BY <2>1, <2>2 DEF FilterPart
<1> QED
  BY <1>11, <1>12, <1>13, <1>14 DEF Parts

(* The two halves that only touch memory, and the request is answered.     *)
LEMMA LiveStep ==
  ASSUME Parts, NEW r \in Reqs, AddLive(r) \/ RemoveLive(r) PROVE Parts'
<1>0. PICK f : f = req[r].filter
  OBVIOUS
<1>1. /\ req[r] # Nil /\ req[r].pc \in {"live", "unlive"} /\ req' = Answered(r)
      /\ UNCHANGED <<users, sess, cache, used, known, rows, ids, pool, clock, out, excused, dels>>
      /\ \/ req[r].pc = "live" /\ live' = live \union {f} /\ added' = added \union {f}
         \/ req[r].pc = "unlive" /\ live' = live \ {f} /\ UNCHANGED added
  BY <1>0 DEF AddLive, RemoveLive, At
<1>2. ReqOK(req[r]) /\ ~Connected(req[r]) /\ pool \in Nat
  BY <1>1 DEF Parts, ReqPart, ReqsOK, Connected
<1>3. /\ f \in Filters
      /\ req[r].pc = "live" => f \in dels \/ f \in RowFilters
      /\ req[r].pc = "unlive" => f \in dels
  BY <1>0, <1>1, <1>2 DEF ReqOK
<1>4. ReqPart'
  BY <1>1, <1>2, QuietAnswer DEF Parts
<1>5. DataOK'
  BY <1>1, <1>3 DEF Parts, DataOK
<1>6. SessPart'
  BY <1>1 DEF Parts, SessPart, LogoutHolds
<1>7. FilterPart'
  <2>1. RowFilters' = RowFilters /\ UnusedRowsEmpty'
    BY <1>1 DEF RowFilters, Parts, FilterPart, UnusedRowsEmpty
  <2>2. FilterStaysInForce'
    BY <1>1, <1>3, <2>1 DEF Parts, FilterPart, FilterStaysInForce
  <2> QED
    BY <2>1, <2>2 DEF FilterPart
<1> QED
  BY <1>4, <1>5, <1>6, <1>7 DEF Parts

(* A delete learns which filter the row holds.                             *)
LEMMA ReadFilterRowStep ==
  ASSUME Parts, NEW r \in Reqs, ReadFilterRow(r) PROVE Parts'
<1>0. PICK f : f = rows[req[r].id]
  OBVIOUS
<1>1. /\ req[r] # Nil /\ req[r].pc = "row"
      /\ IF f = Nil THEN req' = Answered(r) /\ UNCHANGED dels
         ELSE /\ req' = [req EXCEPT ![r].pc = "remove", ![r].filter = f]
              /\ dels' = dels \union {f}
      /\ UNCHANGED <<users, sess, cache, used, known, rows, ids, live, pool, clock, out, excused, added>>
  BY <1>0 DEF ReadFilterRow, At
<1>2. /\ req[r] \in Request /\ ReqOK(req[r]) /\ ~Connected(req[r]) /\ pool \in Nat
      /\ req \in [Reqs -> Slot]
  BY <1>1 DEF Parts, ReqPart, Slot, ReqsOK, Connected
<1>3. req[r].id \in ids /\ req[r].id \in RowIds /\ req[r].tok \in known
  BY <1>1, <1>2 DEF ReqOK, Parts, DataOK
<1>4. CASE f = Nil
  <2>1. ReqPart'
    BY <1>1, <1>2, <1>4, QuietAnswer DEF Parts
  <2> QED
    BY <1>1, <1>4, <2>1, OnlyRequest
<1>5. CASE f # Nil
  <2>1. f \in Filters
    BY <1>0, <1>3, <1>5 DEF Parts, DataOK
  <2>2. PICK x : x = [req[r] EXCEPT !.pc = "remove", !.filter = f]
    OBVIOUS
  <2>3. x \in Request /\ x.pc = "remove" /\ x.tok = req[r].tok /\ x.id = req[r].id /\ x.filter = f
    BY <1>2, <2>1, <2>2 DEF Request
  <2>4. req' = [req EXCEPT ![r] = x] /\ dels' = dels \union {f}
    BY <1>1, <1>5, <2>2
  <2>5. Moves(r, x)
    BY <1>2, <2>3, <2>4, MovesTo DEF Slot
  <2>6. ReqOK(x)' /\ ~Connected(x) /\ x.pc # "save"
    BY <1>0, <1>1, <1>3, <2>1, <2>3, <2>4 DEF ReqOK, Connected
  <2>7. RowFilters' = RowFilters
    BY <1>1 DEF RowFilters
  <2>8. ASSUME NEW s \in Reqs \ {r}, NEW q \in Request, req[s] = q, q # Nil PROVE ReqOK(q)'
    <3>1. ReqOK(q)
      BY <2>8 DEF Parts, ReqPart, ReqsOK
    <3>2. (q.pc = "save" => q.tok \notin known) /\ (q.pc = "put" => q.tok \notin out \ excused)
      BY <3>1 DEF ReqOK
    <3> QED
      BY <1>1, <2>4, <2>7, <3>1, <3>2, StillOK
  <2>9. ReqPart'
    BY <1>1, <1>2, <2>5, <2>6, <2>8, OneMoves DEF Parts
  <2>10. DataOK'
    BY <1>1, <2>1, <2>4 DEF Parts, DataOK
  <2>11. SessPart'
    BY <1>1 DEF Parts, SessPart, LogoutHolds
  <2>12. FilterPart'
    BY <1>1, <2>4, <2>7 DEF Parts, FilterPart, UnusedRowsEmpty, FilterStaysInForce
  <2> QED
    BY <2>9, <2>10, <2>11, <2>12 DEF Parts
<1> QED
  BY <1>4, <1>5

(* The row goes before the filter stops being applied.                     *)
LEMMA DeleteFilterRowStep ==
  ASSUME Parts, NEW r \in Reqs, DeleteFilterRow(r) PROVE Parts'
<1>0. PICK i : i = req[r].id
  OBVIOUS
<1>1. /\ req[r] # Nil /\ req[r].pc = "remove"
      /\ req' = Goto(r, "unlive") \/ req' = Stale(Goto(r, "unlive"), r)
      /\ UNCHANGED rows \/ rows' = [rows EXCEPT ![i] = Nil]
      /\ UNCHANGED <<users, sess, cache, used, known, ids, live, pool, clock, out, excused, added, dels>>
  BY <1>0 DEF DeleteFilterRow, At
<1>2. /\ req[r] \in Request /\ ReqOK(req[r]) /\ ~Connected(req[r]) /\ pool \in Nat
      /\ req \in [Reqs -> Slot]
  BY <1>1 DEF Parts, ReqPart, Slot, ReqsOK, Connected
<1>3. /\ i \in ids /\ i \in RowIds /\ req[r].tok \in known
      /\ req[r].filter \in Filters /\ req[r].filter \in dels
      /\ rows[i] \in dels \union {Nil}
  BY <1>0, <1>1, <1>2 DEF ReqOK, Parts, DataOK
<1>4. /\ rows' \in [RowIds -> Filters \union {Nil}]
      /\ \A j \in RowIds : rows'[j] = rows[j] \/ (j = i /\ rows'[j] = Nil)
  BY <1>1, <1>3 DEF Parts, DataOK
<1>5. \A f \in RowFilters : f \in dels \/ f \in RowFilters'
  <2>1. \A f : f \in RowFilters' <=> f # Nil /\ \E j \in RowIds : rows'[j] = f
    BY DEF RowFilters
  <2> QED
    BY <1>3, <1>4, <2>1, RowFiltersIs
<1>a. PICK x : x = [req[r] EXCEPT !.pc = "unlive"]
  OBVIOUS
<1>6. Moves(r, x) /\ x \in Request
  BY <1>1, <1>2, <1>a, GotoMoves
<1>7. x.pc = "unlive" /\ x.tok = req[r].tok /\ x.filter = req[r].filter
  BY <1>2, <1>a DEF Request
<1>8. ReqOK(x)' /\ ~Connected(x) /\ x.pc # "save"
  BY <1>1, <1>3, <1>7 DEF ReqOK, Connected
<1>9. ASSUME NEW s \in Reqs \ {r}, NEW q \in Request, req[s] = q, q # Nil PROVE ReqOK(q)'
  <2>1. ReqOK(q)
    BY <1>9 DEF Parts, ReqPart, ReqsOK
  <2>2. /\ q.pc = "save" => q.tok \notin known
        /\ q.pc = "put" => q.tok \notin out \ excused
        /\ q.pc = "remove" => q.id \in ids
    BY <2>1 DEF ReqOK
  <2>3. q.pc = "remove" => rows'[q.id] \in {rows[q.id], Nil}
    BY <1>4, <2>2 DEF Parts, DataOK
  <2> QED
    BY <1>1, <1>5, <2>1, <2>2, <2>3, StillOK
<1>10. ReqPart'
  BY <1>1, <1>2, <1>6, <1>8, <1>9, OneMoves DEF Parts
<1>11. DataOK'
  BY <1>1, <1>4 DEF Parts, DataOK
<1>12. SessPart'
  BY <1>1 DEF Parts, SessPart, LogoutHolds
<1>13. FilterPart'
  <2>1. UnusedRowsEmpty'
    BY <1>1, <1>4 DEF Parts, FilterPart, UnusedRowsEmpty
  <2>2. FilterStaysInForce'
    BY <1>1, <1>5 DEF Parts, FilterPart, FilterStaysInForce
  <2> QED
    BY <2>1, <2>2 DEF FilterPart
<1> QED
  BY <1>10, <1>11, <1>12, <1>13 DEF Parts

-----------------------------------------------------------------------------
(* The surroundings.                                                       *)

(* A dropped handler gives its connection back, and a dropped logout is    *)
(* excused.                                                                *)
LEMMA DropRequestStep ==
  ASSUME Parts, NEW r \in Reqs, DropRequest(r) PROVE Parts'
<1>1. /\ req[r] # Nil /\ req' = Answered(r)
      /\ pool' = IF req[r].pc \in {"db", "expire"} THEN pool + 1 ELSE pool
      /\ excused' = IF req[r].pc = "logout" THEN excused \union {req[r].tok} ELSE excused
      /\ UNCHANGED <<users, sess, cache, used, known, rows, ids, live, clock, out, added, dels>>
  BY DEF DropRequest
<1>2. pool' = (IF Connected(req[r]) THEN pool + 1 ELSE pool) /\ excused \subseteq excused'
  BY <1>1 DEF Connected
<1>3. ReqPart'
  BY <1>1, <1>2, QuietAnswer DEF Parts
<1>4. excused' \subseteq Tokens
  BY <1>1 DEF Parts, DataOK, ReqPart, ReqsOK, ReqOK
<1>5. DataOK'
  BY <1>1, <1>4 DEF Parts, DataOK
<1>6. SessPart'
  BY <1>1, <1>2 DEF Parts, SessPart, LogoutHolds
<1>7. FilterPart'
  BY <1>1 DEF Parts, FilterPart, UnusedRowsEmpty, FilterStaysInForce, RowFilters
<1> QED
  BY <1>3, <1>5, <1>6, <1>7 DEF Parts

(* A restart drops all requests and rebuilds the memory from the tables.   *)
LEMMA RestartStep ==
  ASSUME Parts, Restart PROVE Parts'
<1>1. /\ req' = [r \in Reqs |-> Nil] /\ pool' = PoolSize
      /\ cache' = [t \in Tokens |-> Nil] /\ live' = RowFilters
      /\ excused' = excused \union {req[r].tok : r \in {s \in Reqs : At(s, "logout")}}
      /\ UNCHANGED <<users, sess, used, known, rows, ids, clock, out, added, dels>>
  BY DEF Restart
<1>2. excused \subseteq excused' /\ excused' \subseteq Tokens
  BY <1>1 DEF Parts, DataOK, ReqPart, ReqsOK, ReqOK, At
<1>3. ReqPart'
  <2>1. \A r \in Reqs : req'[r] = Nil
    BY <1>1
  <2>2. Holders' = {}
    BY <2>1 DEF Holders, At
  <2>3. Cardinality(Holders') = 0
    BY <2>2, FS_EmptySet
  <2>4. req' \in [Reqs -> Slot]
    BY <1>1 DEF Slot
  <2>5. ReqsOK' /\ SaveOnce'
    BY <2>1 DEF ReqsOK, SaveOnce, At
  <2>6. PoolConserved' /\ pool' \in 0 .. PoolSize
    BY <1>1, <2>3, ConfigAssumption DEF PoolConserved
  <2> QED
    BY <2>4, <2>5, <2>6 DEF ReqPart
<1>4. RowFilters \subseteq Filters
  BY RowFiltersIs DEF Parts, DataOK
<1>5. DataOK'
  BY <1>1, <1>2, <1>4 DEF Parts, DataOK
<1>6. SessPart'
  BY <1>1, <1>2 DEF Parts, DataOK, SessPart, LogoutHolds
<1>7. FilterPart'
  <2>1. RowFilters' = RowFilters
    BY <1>1 DEF RowFilters
  <2> QED
    BY <1>1, <2>1 DEF Parts, FilterPart, UnusedRowsEmpty, FilterStaysInForce
<1> QED
  BY <1>3, <1>5, <1>6, <1>7 DEF Parts

(* Removing a user, which its session rows prevent, touches no session.    *)
LEMMA RemoveUserStep ==
  ASSUME Parts, NEW u \in Accounts, RemoveUser(u) PROVE Parts'
<1>1. /\ users' = users \ {u} /\ req' = Stale(req, Nil)
      /\ UNCHANGED <<sess, cache, used, known, rows, ids, live, pool, clock, out, excused, added, dels>>
  BY DEF RemoveUser
<1>2. /\ req' \in [Reqs -> Slot]
      /\ \A s \in Reqs : Agrees(req[s], req'[s])
  BY <1>1, StaleAgrees DEF Parts, ReqPart
<1>3. ASSUME NEW s \in Reqs
      PROVE  \/ req'[s] = req[s]
             \/ req[s] # Nil /\ req[s].pc = "remove" /\ req'[s].pc = "remove"
  BY <1>2 DEF Agrees
<1>4. ReqsOK'
  <2> SUFFICES ASSUME NEW s \in Reqs, NEW q, q = req'[s], q # Nil PROVE ReqOK(q)'
    BY DEF ReqsOK, ReqOK
  <2>1. PICK p : p = req[s]
    OBVIOUS
  <2>2. Agrees(p, q) /\ p # Nil
    BY <1>2, <2>1 DEF Agrees
  <2>3. ReqOK(p)
    BY <2>1, <2>2 DEF Parts, ReqPart, ReqsOK
  <2>4. ReqOK(p)'
    BY <1>1, <2>3 DEF ReqOK, RowFilters
  <2> QED
    BY <2>2, <2>4, AgreesOK
<1>5. SaveOnce'
  <2>1. \A v \in Reqs : At(v, "save")' => req'[v] = req[v] /\ At(v, "save")
    BY <1>3 DEF At
  <2> QED
    BY <2>1 DEF Parts, ReqPart, SaveOnce
<1>6. Holders' = Holders
  BY <1>3 DEF Holders, At
<1>7. ReqPart'
  BY <1>1, <1>2, <1>4, <1>5, <1>6 DEF Parts, ReqPart, PoolConserved
<1> QED
  BY <1>1, <1>7 DEF Parts, DataOK, SessPart, LogoutHolds, FilterPart, UnusedRowsEmpty,
                    FilterStaysInForce, RowFilters

(* Nothing changes but the clock.                                          *)
LEMMA IdleStep ==
  ASSUME Parts, clock' \in Nat,
         UNCHANGED <<users, sess, cache, used, known, rows, ids, live, pool, req, out, excused, added, dels>>
  PROVE  Parts'
<1>1. ReqPart'
  BY DEF Parts, ReqPart, ReqsOK, ReqOK, RowFilters, SaveOnce, At, PoolConserved, Holders
<1> QED
  BY <1>1 DEF Parts, DataOK, SessPart, LogoutHolds, FilterPart, UnusedRowsEmpty,
              FilterStaysInForce, RowFilters

(* Every step of handlers, commands and restarts keeps the invariant.      *)
LEMMA ConfigStepInv == ConfigInv /\ [ConfigNext]_cfgVars => ConfigInv'
<1>0. (ConfigInv <=> Parts) /\ (ConfigInv' <=> Parts')
  BY InvParts DEF Parts, ConfigInv, ConfigTypeOK, DataOK, ReqPart, SessPart, FilterPart, Slot
<1> SUFFICES ASSUME Parts, [ConfigNext]_cfgVars PROVE Parts'
  BY <1>0
<1>1. ASSUME NEW r \in Reqs, Handle(r) PROVE Parts'
  BY <1>1, CreateSessionStep, SaveSessionStep, AcquireConnStep, LookUpStep, ExpireSessionsStep,
     CacheSessionStep, DeleteSessionStep, InsertFilterStep, LiveStep, ReadFilterRowStep,
     DeleteFilterRowStep
  DEF Handle
<1>2. ASSUME NEW r \in Reqs, NEW t \in known,
             \/ \E op \in {"use", "logout"} : Authenticate(r, t, op, Nil, Nil)
             \/ \E f \in Filters : Authenticate(r, t, "add", f, Nil)
             \/ \E i \in ids : Authenticate(r, t, "delete", Nil, i)
      PROVE  Parts'
  <2>1. ASSUME NEW op \in {"use", "logout"}, Authenticate(r, t, op, Nil, Nil) PROVE Parts'
    BY <2>1, AuthenticateStep DEF Ops
  <2>2. ASSUME NEW f \in Filters, Authenticate(r, t, "add", f, Nil) PROVE Parts'
    BY <2>2, AuthenticateStep DEF Ops
  <2>3. ASSUME NEW i \in ids, Authenticate(r, t, "delete", Nil, i) PROVE Parts'
    BY <2>3, AuthenticateStep DEF Ops
  <2> QED
    BY <1>2, <2>1, <2>2, <2>3
<1>3. CASE Tick
  <2>1. clock' \in Nat
    BY <1>3 DEF Tick, Parts, DataOK
  <2> QED
    BY <1>3, <2>1, IdleStep DEF Tick
<1>4. CASE UNCHANGED cfgVars
  <2>1. clock' \in Nat
    BY <1>4 DEF cfgVars, Parts, DataOK
  <2> QED
    BY <1>4, <2>1, IdleStep DEF cfgVars
<1> QED
  BY <1>1, <1>2, <1>3, <1>4, LoginStep, DropRequestStep, RestartStep, RemoveUserStep
  DEF ConfigNext

(* The inductive invariant holds in every state.                           *)
THEOREM ConfigInvariant == ConfigSpec => []ConfigInv
BY ConfigInitInv, ConfigStepInv, PTL DEF ConfigSpec

(* The tables, the cache and the requests keep their types; in particular  *)
(* no connection is given back to the pool twice.                          *)
THEOREM ConfigTypes == ConfigSpec => []ConfigTypeOK
<1>1. ConfigInv => ConfigTypeOK
  BY DEF ConfigInv
<1> QED
  BY <1>1, ConfigInvariant, PTL

(* A session whose logout was answered is not in the cache and not in the  *)
(* table, however requests with it overlapped, unless the logout raced a   *)
(* look-up, its statement failed or its handler was dropped.               *)
THEOREM LogoutIsFinal == ConfigSpec => []LogoutHolds
<1>1. ConfigInv => LogoutHolds
  BY DEF ConfigInv
<1> QED
  BY <1>1, ConfigInvariant, PTL

(* A filter whose add was answered is applied until a delete of it begins, *)
(* and until then a filter that is applied has a row.                      *)
THEOREM AddedFilterStays == ConfigSpec => []FilterStaysInForce
<1>1. ConfigInv => FilterStaysInForce
  BY DEF ConfigInv
<1> QED
  BY <1>1, ConfigInvariant, PTL

(* Every connection of the pool is free or held by one handler between its *)
(* look-up and its answer: none leaks when a handler is dropped, refused   *)
(* or interrupted by a restart.                                            *)
THEOREM NoConnectionLeaks == ConfigSpec => []PoolConserved
<1>1. ConfigInv => PoolConserved
  BY DEF ConfigInv
<1> QED
  BY <1>1, ConfigInvariant, PTL

-----------------------------------------------------------------------------
(* Queries.                                                                *)

(* What the parser pushes: only key:value elements have a key, and the     *)
(* operator before a time is dropped.                                      *)
ElementOK(el) ==
  /\ el.neg \in BOOLEAN
  /\ \/ el.kind = "String" /\ el.key = None /\ el.val \in Words
     \/ el.kind = "KeyValue" /\ el.key \in Keys /\ el.val \in Words \union {NoName, "-"}
     \/ el.kind \in TimeKinds /\ el.key = None /\ ~el.neg /\ el.val \in Times
     \/ el.kind \in FlagKinds /\ el.key = None

QueryInv ==
  /\ elements \in Seq(QueryElement) /\ negated \in BOOLEAN /\ status \in {"parsing", "bad"}
  /\ \A i \in 1 .. Len(elements) : ElementOK(elements[i])

(* Every action either leaves the elements alone or puts one or two        *)
(* elements behind them, and a refused query stays refused.                *)
Grows(x, y) ==
  /\ Len(x) <= Len(y)
  /\ \A i \in 1 .. Len(x) : y[i] = x[i]

(* Pushed: one element behind the others.                                  *)
LEMMA PushedGrows ==
  ASSUME QueryInv, NEW el \in QueryElement, ElementOK(el), Pushed(el)
  PROVE  QueryInv' /\ Grows(elements, elements') /\ status' = status
<1>1. elements' = Append(elements, el) /\ negated' = FALSE /\ status' = status
  BY DEF Pushed
<1>2. elements \in Seq(QueryElement) /\ elements' \in Seq(QueryElement)
  BY <1>1 DEF QueryInv
<1>3. Len(elements') = Len(elements) + 1 /\ elements'[Len(elements) + 1] = el
      /\ \A i \in 1 .. Len(elements) : elements'[i] = elements[i]
  BY <1>1, <1>2
<1>4. Len(elements) \in Nat
  BY <1>2
<1>5. \A i \in 1 .. Len(elements') : ElementOK(elements'[i])
  <2> TAKE i \in 1 .. Len(elements')
  <2>1. CASE i = Len(elements) + 1
    BY <2>1, <1>3
  <2>2. CASE i \in 1 .. Len(elements)
    BY <2>2, <1>3 DEF QueryInv
  <2> QED BY <2>1, <2>2, <1>3, <1>4
<1>6. Grows(elements, elements')
  BY <1>3, <1>4 DEF Grows
<1>7. QueryInv'
  BY <1>1, <1>2, <1>5 DEF QueryInv
<1> QED BY <1>1, <1>6, <1>7

(* Every action of the parser keeps the elements well-formed and only adds *)
(* to them.                                                                *)
LEMMA QueryStep ==
  ASSUME QueryInv, [QueryNext]_reportVars
  PROVE  QueryInv' /\ Grows(elements, elements') /\ (status' = "parsing" => status = "parsing")
<1>0. elements \in Seq(QueryElement) /\ Len(elements) \in Nat /\ Grows(elements, elements)
  BY DEF QueryInv, Grows
<1> DEFINE Goal == QueryInv' /\ Grows(elements, elements') /\ (status' = "parsing" => status = "parsing")
<1>1. ASSUME UNCHANGED elements, negated' \in BOOLEAN, status' \in {status, "bad"}
      PROVE  Goal
  BY <1>0, <1>1 DEF QueryInv
<1>2. ASSUME NEW el \in QueryElement, ElementOK(el), Pushed(el) PROVE Goal
  BY <1>2, PushedGrows
<1>3. CASE ParseOperator \/ ParseBadTime
  BY <1>1, <1>3 DEF ParseOperator, ParseBadTime, QueryInv
<1>4. CASE ParseTime
  <2>1. PICK k \in TimeKinds, t \in Times : Pushed(Element(FALSE, k, None, t))
    BY <1>4 DEF ParseTime
  <2>2. Element(FALSE, k, None, t) \in QueryElement /\ ElementOK(Element(FALSE, k, None, t))
    BY DEF Element, QueryElement, ElementOK
  <2> QED BY <2>1, <2>2, <1>2
<1>5. CASE ParseKeyValue
  <2>1. negated \in BOOLEAN
    BY DEF QueryInv
  <2>2. ASSUME NEW f \in FlagKinds, Pushed(Element(negated, f, None, None)) PROVE Goal
    <3>1. Element(negated, f, None, None) \in QueryElement /\ ElementOK(Element(negated, f, None, None))
      BY <2>1 DEF Element, QueryElement, ElementOK
    <3> QED BY <2>2, <3>1, <1>2
  <2>3. ASSUME NEW k \in Keys, NEW v \in Words \union {NoName}, Pushed(Element(negated, "KeyValue", k, v))
        PROVE  Goal
    <3>1. Element(negated, "KeyValue", k, v) \in QueryElement /\ ElementOK(Element(negated, "KeyValue", k, v))
      BY <2>1 DEF Element, QueryElement, ElementOK
    <3> QED BY <2>3, <3>1, <1>2
  <2> QED BY <1>5, <2>2, <2>3 DEF ParseKeyValue
<1>6. CASE ParseKeyOperator
  <2>1. PICK k \in Keys, w \in Words :
          elements' = elements \o <<Element(negated, "KeyValue", k, "-"), Element(FALSE, "String", None, w)>>
    BY <1>6 DEF ParseKeyOperator
  <2> DEFINE a == Element(negated, "KeyValue", k, "-")
             b == Element(FALSE, "String", None, w)
  <2>2. a \in QueryElement /\ ElementOK(a) /\ b \in QueryElement /\ ElementOK(b)
    BY DEF Element, QueryElement, ElementOK, QueryInv
  <2> HIDE DEF a, b
  <2>3. /\ elements' \in Seq(QueryElement) /\ Len(elements') = Len(elements) + 2
        /\ elements'[Len(elements) + 1] = a /\ elements'[Len(elements) + 2] = b
        /\ \A i \in 1 .. Len(elements) : elements'[i] = elements[i]
    <3>1. elements' = elements \o <<a, b>>
      BY <2>1 DEF a, b
    <3>2. <<a, b>> \in Seq(QueryElement) /\ Len(<<a, b>>) = 2 /\ <<a, b>>[1] = a /\ <<a, b>>[2] = b
      BY <2>2
    <3> DEFINE ab == <<a, b>>
    <3> HIDE DEF ab
    <3>3. elements' = elements \o ab /\ ab \in Seq(QueryElement) /\ Len(ab) = 2 /\ ab[1] = a /\ ab[2] = b
      BY <3>1, <3>2 DEF ab
    <3>4. /\ elements \o ab \in Seq(QueryElement) /\ Len(elements \o ab) = Len(elements) + Len(ab)
          /\ \A i \in 1 .. Len(elements) + Len(ab) :
               (elements \o ab)[i] = IF i <= Len(elements) THEN elements[i] ELSE ab[i - Len(elements)]
      BY <3>3, <1>0, ConcatProperties
    <3> QED BY <3>3, <3>4, <1>0
  <2>4. \A i \in 1 .. Len(elements') : ElementOK(elements'[i])
    <3> TAKE i \in 1 .. Len(elements')
    <3>1. CASE i = Len(elements) + 1 \/ i = Len(elements) + 2
      BY <3>1, <2>2, <2>3
    <3>2. CASE i \in 1 .. Len(elements)
      BY <3>2, <2>3 DEF QueryInv
    <3> QED BY <3>1, <3>2, <2>3, <1>0
  <2>5. negated' = FALSE /\ status' = status
    BY <1>6 DEF ParseKeyOperator
  <2>6. Grows(elements, elements')
    BY <2>3, <1>0 DEF Grows
  <2>7. QueryInv'
    BY <2>3, <2>4, <2>5 DEF QueryInv
  <2> QED BY <2>5, <2>6, <2>7
<1>7. CASE ParseWord
  <2>1. negated \in BOOLEAN
    BY DEF QueryInv
  <2>2. ASSUME NEW w \in Words, Pushed(Element(negated, "String", None, w)) PROVE Goal
    <3>1. Element(negated, "String", None, w) \in QueryElement /\ ElementOK(Element(negated, "String", None, w))
      BY <2>1 DEF Element, QueryElement, ElementOK
    <3> QED BY <2>2, <3>1, <1>2
  <2>3. CASE negated' = FALSE /\ UNCHANGED <<fts, elements, status, statsVars>>
    BY <2>3, <1>1
  <2> QED BY <1>7, <2>2, <2>3 DEF ParseWord
<1>8. CASE Report \/ SensorRestart \/ TimePasses \/ UNCHANGED reportVars
  <2>1. UNCHANGED <<elements, negated, status>>
    BY <1>8 DEF Report, SensorRestart, TimePasses, reportVars, queryVars
  <2> QED BY <2>1, <1>1 DEF QueryInv
<1> QED BY <1>3, <1>4, <1>5, <1>6, <1>7, <1>8 DEF QueryNext

(* The elements are always what the parser can push: an element has a key  *)
(* exactly when it is a key:value pair (QueryParser::parse).               *)
THEOREM QueryTypes == QuerySpec => []QueryInv
<1>1. QueryInit => QueryInv
  <2> SUFFICES ASSUME QueryInit PROVE QueryInv
    OBVIOUS
  <2>1. elements = <<>> /\ negated = FALSE /\ status = "parsing"
    BY DEF QueryInit
  <2>2. elements \in Seq(QueryElement) /\ Len(elements) = 0
    BY <2>1
  <2>3. \A i \in 1 .. Len(elements) : ElementOK(elements[i])
    BY <2>2
  <2>4. negated \in BOOLEAN /\ status \in {"parsing", "bad"}
    BY <2>1
  <2> QED BY <2>2, <2>3, <2>4 DEF QueryInv
<1>2. QueryInv /\ [QueryNext]_reportVars => QueryInv'
  BY QueryStep
<1> QED BY <1>1, <1>2, PTL DEF QuerySpec

-----------------------------------------------------------------------------
(* What an element becomes, kind by kind. *)

(* The keys into an array are none of those with a translation of their    *)
(* own, but for the name of a query.                                       *)
LEMMA KeysApart ==
  /\ None \notin DOMAIN ArrayOf
  /\ \A k \in SpecialKeys : k \notin DOMAIN ArrayOf
  /\ "@ip" \notin DOMAIN ArrayOf /\ "@mac" \notin DOMAIN ArrayOf /\ "@sid" \notin DOMAIN ArrayOf
  /\ "host" \notin DOMAIN ArrayOf /\ "dns.type" \notin DOMAIN ArrayOf /\ "dns.rrname" \notin DOMAIN ArrayOf
  /\ "alert.signature_id" \notin DOMAIN ArrayOf
  /\ "dns.queries.rrname" \in DOMAIN ArrayOf /\ ArrayOf["dns.queries.rrname"] = "queries"
  /\ "dns.queries.rrname" \notin Numeric
  /\ \A k \in DOMAIN ArrayOf : Shorthand(k) = k /\ ArrayOf[k] \in DnsArrays
BY QueryAssumption DEF SpecialKeys, Into, Shorthand

(* The clause of a positive key, by the key.                               *)
LEMMA EqCases ==
  ASSUME NEW e, NEW j, NEW k, NEW v
  PROVE  /\ k = "dns.type" => (EqWhere(e, j, k, v) <=> \E w \in Aliases(v) : SqlEq(e, k, w))
         /\ k \in RrnameKeys => (EqWhere(e, j, k, v) <=>
              SqlEq(e, "dns.rrname", v) \/ RowSays(e, "queries", j, "dns.queries.rrname", v))
         /\ k \in Into(Joined) \ RrnameKeys =>
              (EqWhere(e, j, k, v) <=> k \notin Numeric /\ RowSays(e, ArrayOf[k], j, k, v))
         /\ k \in Into({"authorities", "additionals"}) => (EqWhere(e, j, k, v) <=> Glob(e, ArrayOf[k], v))
         /\ k \notin {"dns.type"} \union RrnameKeys \union DOMAIN ArrayOf =>
              (EqWhere(e, j, k, v) <=> SqlEq(e, k, v))
<1>1. k \in Into(Joined) => k \in DOMAIN ArrayOf /\ k # "dns.type" /\ k \notin Into({"authorities", "additionals"})
  BY KeysApart DEF Into, Joined
<1>2. k \in Into({"authorities", "additionals"}) => k \in DOMAIN ArrayOf /\ k # "dns.type" /\ k \notin RrnameKeys
  BY KeysApart DEF Into, RrnameKeys
<1>3. k \in RrnameKeys => k # "dns.type"
  BY DEF RrnameKeys
<1>4. CASE k = "dns.type"
  BY <1>1, <1>2, <1>3, <1>4 DEF EqWhere
<1>5. CASE k \in RrnameKeys
  BY <1>1, <1>2, <1>3, <1>5 DEF EqWhere
<1>6. CASE k \in Into(Joined) \ RrnameKeys
  BY <1>1, <1>2, <1>3, <1>6 DEF EqWhere
<1>7. CASE k \in Into({"authorities", "additionals"})
  BY <1>1, <1>2, <1>3, <1>7 DEF EqWhere
<1>8. CASE k \notin {"dns.type"} \union RrnameKeys \union Into(Joined) \union Into({"authorities", "additionals"})
  BY <1>1, <1>2, <1>3, <1>8 DEF EqWhere
<1> QED BY <1>1, <1>2, <1>3, <1>4, <1>5, <1>6, <1>7, <1>8

NoJoins(el) == \A a \in Joined : ~Joins(el, a)

(* A key that joins no array leads into none, or into the last two.        *)
LEMMA NoJoinKey ==
  ASSUME NEW el, el.kind = "KeyValue", NoJoins(el)
  PROVE  /\ el.key \notin RrnameKeys /\ el.key \notin Into(Joined)
         /\ Shorthand(el.key) \notin RrnameKeys /\ Shorthand(el.key) \notin Into(Joined)
         /\ el.key \in DOMAIN ArrayOf => el.key \in Into({"authorities", "additionals"})
         /\ el.key \notin DOMAIN ArrayOf => Shorthand(el.key) \notin DOMAIN ArrayOf
<1>1. \A a \in Joined : el.key \notin Into({a}) /\ ~(el.key = "dns.rrname" /\ a = "queries")
  BY DEF NoJoins, Joins
<1>2. el.key \notin Into(Joined)
  BY <1>1 DEF Into
<1>3. el.key # "dns.rrname" /\ el.key # "dns.queries.rrname"
  BY <1>1, <1>2, KeysApart DEF Into, Joined
<1>4. el.key \in DOMAIN ArrayOf => el.key \in Into({"authorities", "additionals"})
  BY <1>2, KeysApart DEF Into, DnsArrays
<1>5. /\ el.key \in DOMAIN ArrayOf => Shorthand(el.key) = el.key
      /\ Shorthand(el.key) \in {el.key, "alert.signature_id"}
  BY KeysApart DEF Shorthand
<1>6. "alert.signature_id" \notin RrnameKeys /\ "alert.signature_id" \notin Into(Joined)
  BY KeysApart DEF RrnameKeys, Into
<1> QED BY <1>2, <1>3, <1>4, <1>5, <1>6, KeysApart DEF RrnameKeys

(* What the SQLite query makes of an element, by its kind.                 *)
LEMMA SqliteElement ==
  ASSUME NEW el, ElementOK(el), NEW e, NEW j
  PROVE  /\ el.kind = "String" => (SqliteWhere(el, e, j) <=> TextWhere(el.neg, el.val, e))
         /\ el.kind = "KeyValue" => (SqliteWhere(el, e, j) <=> KeyWhere(el, e, j))
         /\ el.kind \in TimeKinds => (SqliteWhere(el, e, j) <=> InTime(el, e))
         /\ el.kind \in FlagKinds => (SqliteWhere(el, e, j) <=> Flag(el, e) # el.neg)
BY DEF SqliteWhere, TimeKinds, FlagKinds

(* What the Elasticsearch query makes of an element, by its kind.          *)
LEMMA ElasticElement ==
  ASSUME NEW el, ElementOK(el), NEW e
  PROVE  /\ el.kind = "String" => (Expression(el, e) <=> HasToken(e, el.val))
         /\ el.kind \in TimeKinds => (Expression(el, e) <=> InTime(el, e))
         /\ el.kind \in FlagKinds => (Expression(el, e) <=> Flag(el, e))
         /\ el.kind = "KeyValue" =>
              /\ el.key = "@mac" => (Expression(el, e) <=> HasToken(e, el.val))
              /\ el.key = "@ip" => (Expression(el, e) <=> \E k \in IpFields : Term(e, k, el.val))
              /\ el.key = "dns.type" =>
                   (Expression(el, e) <=> \E v \in Aliases(el.val) : Term(e, el.key, v))
              /\ el.key \in RrnameKeys => (Expression(el, e) <=> RrnameTerm(e, el.val))
              /\ el.key \in DOMAIN ArrayOf \ RrnameKeys => (Expression(el, e) <=> ArrayTerm(e, el.key, el.val))
              /\ el.key \notin {"@mac", "@ip", "dns.type"} \union RrnameKeys \union DOMAIN ArrayOf /\ el.val # NoName =>
                   (Expression(el, e) <=> Term(e, Shorthand(el.key), el.val))
<1>1. None \notin SpecialKeys
  BY QueryAssumption
<1>2. CASE el.kind # "KeyValue"
  <2>1. /\ el.key = None /\ el.key \notin {"@ip", "@mac", "host", "dns.type"}
        /\ el.key \notin RrnameKeys /\ el.key \notin DOMAIN ArrayOf \ RrnameKeys
    BY <1>1, <1>2, KeysApart DEF ElementOK, SpecialKeys, RrnameKeys
  <2> QED BY <2>1, <1>2 DEF ElementOK, Expression, TimeKinds, FlagKinds
<1>3. CASE el.kind = "KeyValue"
  <2>1. /\ el.kind \notin TimeKinds /\ el.kind \notin FlagKinds /\ el.kind # "String"
        /\ \A k \in {"@ip", "@mac", "host", "dns.type"} : k \notin RrnameKeys /\ k \notin DOMAIN ArrayOf
    BY <1>3, KeysApart DEF TimeKinds, FlagKinds, RrnameKeys
  <2>2. CASE el.key \in {"@ip", "@mac", "host", "dns.type"}
    BY <1>3, <2>1, <2>2 DEF Expression
  <2>3. CASE el.key \in RrnameKeys
    BY <1>3, <2>1, <2>3 DEF Expression
  <2>4. CASE el.key \in DOMAIN ArrayOf \ RrnameKeys
    BY <1>3, <2>1, <2>4 DEF Expression
  <2>5. CASE el.key \notin {"@ip", "@mac", "host", "dns.type"} \union RrnameKeys \union DOMAIN ArrayOf
    BY <1>3, <2>1, <2>5 DEF Expression
  <2> QED BY <1>3, <2>1, <2>2, <2>3, <2>4, <2>5
<1> QED BY <1>2, <1>3

(* Whether an event is in an element's clause of the bool query.           *)
Holds(el, e) ==
  /\ Clause(el) = "filter" => Expression(el, e)
  /\ Clause(el) = "must_not" => ~Expression(el, e)

(* filter and must_not together: the document matches each element,        *)
(* negation included.                                                      *)
LEMMA MustHolds ==
  ASSUME NEW q, NEW e
  PROVE  Must(q, e) <=> \A i \in DOMAIN q : Holds(q[i], e)
BY DEF Must, Holds

(* Which clause of the Elasticsearch query an element goes to.             *)
LEMMA ClauseOf ==
  ASSUME NEW el, ElementOK(el)
  PROVE  /\ el.kind # "KeyValue" => Clause(el) = IF el.neg THEN "must_not" ELSE "filter"
         /\ el.kind = "KeyValue" /\ el.key \notin {"@mac", "@ip"} /\ el.val # NoName =>
              Clause(el) = IF el.neg THEN "must_not" ELSE "filter"
         /\ el.kind = "KeyValue" /\ el.key = "@ip" => Clause(el) = IF el.neg THEN "must_not" ELSE "should"
         /\ Clause(el) = "should" <=> el.kind = "KeyValue" /\ el.key = "@ip" /\ ~el.neg
BY DEF ElementOK, Clause

(* A word found in full text search is found by LIKE.                      *)
LEMMA TokenIsLike ==
  ASSUME NEW e, NEW w
  PROVE  HasToken(e, w) => Like(e, w)
BY DEF HasToken, Like

(* An element both read alike, whatever the joined row, unless it looks at *)
(* the joined row itself.                                                  *)
LEMMA SameElement ==
  ASSUME NEW e \in Catalogue, NEW el, ElementOK(el), Same(el), NoJoins(el), NEW j
  PROVE  SqliteWhere(el, e, j) <=> Holds(el, e)
<1>0. e.arch \in BOOLEAN /\ e.esc \in BOOLEAN /\ el.neg \in BOOLEAN
  BY QueryAssumption DEF IsEvent, ElementOK
<1>1. CASE el.kind \in TimeKinds
  <2>1. el.kind # "KeyValue" /\ ~el.neg
    BY <1>1 DEF ElementOK, TimeKinds, FlagKinds
  <2>2. Clause(el) = "filter"
    BY <2>1, ClauseOf
  <2> QED BY <1>1, <2>2, SqliteElement, ElasticElement DEF Holds
<1>2. CASE el.kind \in FlagKinds
  <2>1. el.kind # "KeyValue" /\ Flag(el, e) \in BOOLEAN
    BY <1>0, <1>2 DEF FlagKinds, Flag
  <2>2. Clause(el) = IF el.neg THEN "must_not" ELSE "filter"
    BY <2>1, ClauseOf
  <2>3. SqliteWhere(el, e, j) <=> Flag(el, e) # el.neg
    BY <1>2, SqliteElement
  <2>4. Expression(el, e) <=> Flag(el, e)
    BY <1>2, ElasticElement
  <2> QED BY <1>0, <2>1, <2>2, <2>3, <2>4 DEF Holds
<1>3. CASE el.kind = "String"
  <2>1. ~el.neg /\ fts
    BY <1>3 DEF Same, TimeKinds, FlagKinds
  <2>2. Clause(el) = "filter"
    BY <1>3, <2>1, ClauseOf
  <2>3. SqliteWhere(el, e, j) <=> HasToken(e, el.val)
    BY <1>3, <2>1, SqliteElement DEF TextWhere
  <2> QED BY <1>3, <2>2, <2>3, ElasticElement DEF Holds
<1>4. CASE el.kind = "KeyValue"
  <2>1. /\ ~el.neg /\ el.key \notin {"@ip", "@mac"} /\ el.val # NoName
        /\ el.key \notin Into({"authorities", "additionals"})
    BY <1>4 DEF Same, TimeKinds, FlagKinds
  <2>2. Clause(el) = "filter" /\ Shorthand(el.key) \notin {"@ip", "@mac"}
    BY <1>4, <2>1, ClauseOf DEF Shorthand
  <2>3. SqliteWhere(el, e, j) <=> EqWhere(e, j, Shorthand(el.key), el.val)
    <3>1. SqliteWhere(el, e, j) <=> KeyWhere(el, e, j)
      BY <1>4, SqliteElement
    <3> QED BY <2>1, <2>2, <3>1 DEF KeyWhere
  <2>4. /\ el.key \notin RrnameKeys \union DOMAIN ArrayOf
        /\ Shorthand(el.key) \notin RrnameKeys \union DOMAIN ArrayOf
    BY <1>4, <2>1, NoJoinKey
  <2>5. CASE el.key = "dns.type"
    <3>1. SqliteWhere(el, e, j) <=> \E v \in Aliases(el.val) : SqlEq(e, el.key, v)
      BY <2>3, <2>5, EqCases DEF Shorthand
    <3>2. Expression(el, e) <=> \E v \in Aliases(el.val) : Term(e, el.key, v)
      BY <1>4, <2>5, ElasticElement
    <3> QED BY <2>2, <3>1, <3>2 DEF Holds, SqlEq, Term
  <2>6. CASE el.key # "dns.type"
    <3>1. Shorthand(el.key) # "dns.type"
      BY <2>6 DEF Shorthand
    <3>2. SqliteWhere(el, e, j) <=> SqlEq(e, Shorthand(el.key), el.val)
      BY <2>3, <2>4, <3>1, EqCases
    <3>3. Expression(el, e) <=> Term(e, Shorthand(el.key), el.val)
      BY <1>4, <2>1, <2>4, <2>6, ElasticElement
    <3> QED BY <2>2, <3>2, <3>3 DEF Holds, SqlEq, Term
  <2> QED BY <2>5, <2>6
<1> QED BY <1>1, <1>2, <1>3, <1>4 DEF ElementOK

RowOK(e, j) ==
  \A a \in Joined : j[a] = 0 \/ (j[a] \in DOMAIN e.dns[a] /\ e.dns[a][j[a]] \in ToSet(e.dns[a]))

(* A row of the joins has a position in each joined array, or none.        *)
LEMMA JoinedRow ==
  ASSUME NEW q, NEW e \in Catalogue, NEW j \in JoinRows(q, e)
  PROVE  RowOK(e, j)
<1>1. \A a \in Joined : j[a] \in ArrayRows(q, e, a)
  BY DEF JoinRows, Joined
<1> QED BY <1>1 DEF ArrayRows, ToSet, RowOK

(* The field of the array that a joining key asks for, and the field that  *)
(* a name is looked for in besides.                                        *)
JoinKey(el) == IF el.key \in RrnameKeys THEN "dns.queries.rrname" ELSE el.key
Own(el, e) == el.key \in RrnameKeys /\ SqlEq(e, "dns.rrname", el.val)

(* An element that joins an array: SQLite looks at one element of it,      *)
(* Elasticsearch at all of them.                                           *)
LEMMA JoinElement ==
  ASSUME NEW e \in Catalogue, NEW el, ElementOK(el), Same(el), NEW a \in Joined, Joins(el, a), NEW j
  PROVE  /\ SqliteWhere(el, e, j) <=> Own(el, e) \/ RowSays(e, a, j, JoinKey(el), el.val)
         /\ Holds(el, e) <=> Own(el, e) \/ \E x \in ToSet(e.dns[a]) : Says(x, JoinKey(el), el.val)
<1>1. el.kind = "KeyValue" /\ (el.key \in Into({a}) \/ (el.key = "dns.rrname" /\ a = "queries"))
  BY DEF Joins
<1>2. ~el.neg /\ el.val # NoName /\ el.key \notin Numeric /\ el.key \notin {"@ip", "@mac"}
  BY <1>1 DEF Same, TimeKinds, FlagKinds
<1>3. Clause(el) = "filter"
  BY <1>1, <1>2, ClauseOf
<1>4. Shorthand(el.key) = el.key
  BY <1>1, KeysApart DEF Into, Shorthand
<1>5. SqliteWhere(el, e, j) <=> EqWhere(e, j, el.key, el.val)
  <2>1. SqliteWhere(el, e, j) <=> KeyWhere(el, e, j)
    BY <1>1, SqliteElement
  <2> QED BY <1>2, <1>4, <2>1 DEF KeyWhere
<1>6. ArrayTerm(e, "dns.queries.rrname", el.val)
        <=> \E x \in ToSet(e.dns["queries"]) : Says(x, "dns.queries.rrname", el.val)
  BY KeysApart DEF ArrayTerm, Elements
<1>7. CASE el.key \in RrnameKeys
  <2>1. a = "queries" /\ JoinKey(el) = "dns.queries.rrname"
    BY <1>1, <1>7, KeysApart DEF RrnameKeys, Into, JoinKey
  <2>2. Expression(el, e) <=> RrnameTerm(e, el.val)
    BY <1>1, <1>7, ElasticElement
  <2>3. EqWhere(e, j, el.key, el.val) <=>
          SqlEq(e, "dns.rrname", el.val) \/ RowSays(e, "queries", j, "dns.queries.rrname", el.val)
    BY <1>7, EqCases
  <2>4. Own(el, e) <=> SqlEq(e, "dns.rrname", el.val)
    BY <1>7 DEF Own
  <2> QED BY <1>3, <1>5, <1>6, <2>1, <2>2, <2>3, <2>4 DEF Holds, RrnameTerm, Term, SqlEq
<1>8. CASE el.key \notin RrnameKeys
  <2>1. el.key \in Into(Joined) \ RrnameKeys /\ ArrayOf[el.key] = a /\ JoinKey(el) = el.key /\ el.key \in DOMAIN ArrayOf
    BY <1>1, <1>8 DEF RrnameKeys, Into, JoinKey
  <2>2. Expression(el, e) <=> ArrayTerm(e, el.key, el.val)
    BY <1>1, <1>8, <2>1, ElasticElement
  <2>3. EqWhere(e, j, el.key, el.val) <=> RowSays(e, a, j, el.key, el.val)
    BY <1>2, <2>1, EqCases
  <2>4. ArrayTerm(e, el.key, el.val) <=> \E x \in ToSet(e.dns[a]) : Says(x, el.key, el.val)
    BY <2>1 DEF ArrayTerm, Elements
  <2>5. ~Own(el, e)
    BY <1>8 DEF Own
  <2> QED BY <1>3, <1>5, <2>1, <2>2, <2>3, <2>4, <2>5 DEF Holds
<1> QED BY <1>7, <1>8

(* An element whose negation SQLite applies to fewer events.               *)
LEMMA NarrowElement ==
  ASSUME NEW e \in Catalogue, NEW el, ElementOK(el), Narrower(el), NEW j, RowOK(e, j),
         SqliteWhere(el, e, j)
  PROVE  Holds(el, e)
<1>1. CASE Same(el)
  <2>1. CASE \E a \in Joined : Joins(el, a)
    <3>1. PICK a \in Joined : Joins(el, a)
      BY <2>1
    <3>2. RowSays(e, a, j, JoinKey(el), el.val) => \E x \in ToSet(e.dns[a]) : Says(x, JoinKey(el), el.val)
      BY DEF RowSays, RowOK
    <3> QED BY <1>1, <3>1, <3>2, JoinElement
  <2>2. CASE NoJoins(el)
    BY <1>1, <2>2, SameElement
  <2> QED BY <2>1, <2>2 DEF NoJoins
<1>2. CASE el.neg /\ el.kind = "String"
  <2>1. Clause(el) = "must_not" /\ (Expression(el, e) <=> HasToken(e, el.val))
    BY <1>2, ClauseOf, ElasticElement
  <2>2. ~Like(e, el.val)
    BY <1>2, SqliteElement DEF TextWhere
  <2> QED BY <2>1, <2>2, TokenIsLike DEF Holds
<1>3. CASE el.neg /\ el.kind = "KeyValue" /\ el.key \notin {"@mac", "dns.type"} /\ el.val # NoName
  <2>1. Clause(el) = "must_not" /\ KeyWhere(el, e, j)
    BY <1>3, ClauseOf, SqliteElement
  <2>2. el.val # None
    BY <1>3, QueryAssumption DEF ElementOK, TimeKinds, FlagKinds
  <2>3. CASE el.key = "@ip"
    <3>1. ~Like(e, el.val)
      BY <2>1, <2>3, <1>3 DEF KeyWhere, Shorthand, TextWhere
    <3>2. \A k : Term(e, k, el.val) => el.val \in Texts(e)
      BY <2>2 DEF Term, Says, Texts, Range
    <3>3. Expression(el, e) <=> \E k \in IpFields : Term(e, k, el.val)
      BY <1>3, <2>3, ElasticElement
    <3> QED BY <2>1, <3>1, <3>2, <3>3 DEF Holds, Like
  <2>4. CASE el.key # "@ip"
    <3>1. SqlNe(e, Shorthand(el.key), el.val)
      BY <2>1, <2>4, <1>3 DEF KeyWhere, Shorthand
    <3>2. ~Term(e, Shorthand(el.key), el.val)
      BY <3>1 DEF SqlNe, Term, Says
    <3>3. el.key \notin DOMAIN ArrayOf
      <4> SUFFICES ASSUME el.key \in DOMAIN ArrayOf PROVE FALSE
        OBVIOUS
      <4>1. el.key \in DOMAIN e.f
        BY <3>1, KeysApart DEF SqlNe
      <4> QED BY <4>1, QueryAssumption DEF IsEvent
    <3>4. CASE el.key \in RrnameKeys
      <4>1. el.key = "dns.rrname"
        BY <3>3, <3>4, KeysApart DEF RrnameKeys
      <4>2. "dns.rrname" \in DOMAIN e.f /\ e.f["dns.rrname"] # None
        BY <3>1, <4>1 DEF SqlNe, Shorthand
      <4>3. e.dns["queries"] = <<>>
        BY <4>2, QueryAssumption DEF IsEvent
      <4>4. ToSet(e.dns["queries"]) = {}
        BY <4>3 DEF ToSet
      <4>5. ~ArrayTerm(e, "dns.queries.rrname", el.val)
        BY <4>4, KeysApart DEF ArrayTerm, Elements
      <4>6. ~RrnameTerm(e, el.val)
        BY <3>2, <4>1, <4>5 DEF RrnameTerm, Shorthand
      <4> QED BY <1>3, <2>1, <3>4, <4>6, ElasticElement DEF Holds
    <3>5. CASE el.key \notin RrnameKeys
      <4>1. Expression(el, e) <=> Term(e, Shorthand(el.key), el.val)
        BY <1>3, <2>4, <3>3, <3>5, ElasticElement
      <4> QED BY <2>1, <3>2, <4>1 DEF Holds
    <3> QED BY <3>4, <3>5
  <2> QED BY <2>3, <2>4
<1>4. CASE ~el.neg /\ el.kind = "KeyValue" /\ el.key \in Numeric \intersect Into(Joined)
  <2>1. el.key \in Into(Joined) \ RrnameKeys /\ Shorthand(el.key) = el.key /\ el.key \notin {"@ip", "@mac"}
    BY <1>4, KeysApart DEF Into, RrnameKeys
  <2>2. EqWhere(e, j, el.key, el.val)
    <3>1. KeyWhere(el, e, j)
      BY <1>4, SqliteElement
    <3> QED BY <1>4, <2>1, <3>1 DEF KeyWhere
  <2> QED BY <1>4, <2>1, <2>2, EqCases
<1> QED BY <1>1, <1>2, <1>3, <1>4 DEF Narrower

(* Only a positive "@ip" is an alternative.                                *)
LEMMA NoShould ==
  ASSUME QueryInv, \A i \in DOMAIN elements : Narrower(elements[i]), NEW e
  PROVE  Should(elements, e)
<1>1. ASSUME NEW i \in DOMAIN elements PROVE Clause(elements[i]) # "should"
  <2>1. ElementOK(elements[i])
    BY <1>1 DEF QueryInv
  <2>2. ~(elements[i].kind = "KeyValue" /\ elements[i].key = "@ip" /\ ~elements[i].neg)
    BY <1>1, KeysApart DEF Narrower, Same, TimeKinds, FlagKinds, Into
  <2> QED BY <2>1, <2>2, ClauseOf
<1> QED BY <1>1 DEF Should, Shoulds

(* At most one element looks at the row of a joined array.                 *)
LEMMA OneJoinIsOne ==
  ASSUME QueryInv, OneJoin(elements), NEW a \in Joined, NEW i \in DOMAIN elements, NEW k \in DOMAIN elements,
         Joins(elements[i], a), Joins(elements[k], a)
  PROVE  i = k
<1> DEFINE J == {m \in DOMAIN elements : Joins(elements[m], a)}
<1>1. IsFiniteSet(DOMAIN elements)
  <2>1. DOMAIN elements = 1 .. Len(elements) /\ Len(elements) \in Nat
    BY DEF QueryInv
  <2> QED BY <2>1, FS_Interval
<1>2. IsFiniteSet(J) /\ Cardinality(J) \in Nat /\ Cardinality(J) <= 1
  <2>1. IsFiniteSet(J)
    BY <1>1, FS_Subset
  <2>2. Cardinality(J) <= 1
    BY DEF OneJoin
  <2> QED BY <2>1, <2>2, FS_CardinalityType
<1>3. {i, k} \subseteq J
  OBVIOUS
<1> HIDE DEF J
<1>4. ASSUME i # k PROVE FALSE
  <2>1. IsFiniteSet({i}) /\ Cardinality({i}) = 1
    BY FS_Singleton
  <2>2. k \notin {i}
    BY <1>4
  <2>3. IsFiniteSet({i} \cup {k}) /\ Cardinality({i} \cup {k}) = 2
    BY <2>1, <2>2, FS_AddElement
  <2>4. {i} \cup {k} \subseteq J
    BY <1>3
  <2>5. Cardinality({i} \cup {k}) <= Cardinality(J)
    BY <2>4, <1>2, FS_Subset
  <2> QED BY <2>3, <2>5, <1>2
<1> QED BY <1>4

(* Elements both stores read alike are among those SQLite reads no wider.  *)
LEMMA SameIsNarrower ==
  ASSUME \A i \in DOMAIN elements : Same(elements[i])
  PROVE  \A i \in DOMAIN elements : Narrower(elements[i])
BY DEF Narrower

(* SQLite finds nothing that Elasticsearch does not.                       *)
LEMMA NarrowSearch ==
  ASSUME QueryInv, \A i \in DOMAIN elements : Narrower(elements[i])
  PROVE  SqliteSearch(elements) \subseteq ElasticSearch(elements)
<1> SUFFICES ASSUME NEW e \in SqliteSearch(elements) PROVE e \in ElasticSearch(elements)
  OBVIOUS
<1>1. e \in Catalogue /\ \E j \in JoinRows(elements, e) : SqliteRow(elements, e, j)
  BY DEF SqliteSearch
<1>2. PICK j \in JoinRows(elements, e) : SqliteRow(elements, e, j)
  BY <1>1
<1>3. RowOK(e, j)
  BY <1>1, JoinedRow
<1>4. ASSUME NEW i \in DOMAIN elements PROVE Holds(elements[i], e)
  <2>1. ElementOK(elements[i])
    BY <1>4 DEF QueryInv
  <2>2. SqliteWhere(elements[i], e, j)
    BY <1>2 DEF SqliteRow
  <2> QED BY <1>1, <1>3, <2>1, <2>2, NarrowElement
<1>5. Must(elements, e)
  BY <1>4, MustHolds
<1>6. Should(elements, e)
  BY NoShould
<1> QED BY <1>1, <1>5, <1>6 DEF ElasticSearch

(* What an element asks of a joined array, some position in it answers, as *)
(* long as no other element asks.                                          *)
LEMMA JoinChoice ==
  ASSUME QueryInv, OneJoin(elements), \A i \in DOMAIN elements : Same(elements[i]),
         NEW e \in Catalogue, \A i \in DOMAIN elements : Holds(elements[i], e), NEW a \in Joined
  PROVE  \E n \in ArrayRows(elements, e, a) : \A i \in DOMAIN elements : \A j :
            Joins(elements[i], a) /\ j[a] = n => SqliteWhere(elements[i], e, j)
<1>1. \A i \in DOMAIN elements : ElementOK(elements[i])
  BY DEF QueryInv
<1>2. CASE \A i \in DOMAIN elements : ~Joins(elements[i], a)
  <2>1. 0 \in ArrayRows(elements, e, a)
    BY <1>2 DEF ArrayRows
  <2> QED BY <1>2, <2>1
<1>3. CASE \E i \in DOMAIN elements : Joins(elements[i], a)
  <2>1. PICK i \in DOMAIN elements : Joins(elements[i], a)
    BY <1>3
  <2> DEFINE el == elements[i]
             s == e.dns[a]
  <2>2. \A k \in DOMAIN elements : Joins(elements[k], a) => k = i
    BY <2>1, OneJoinIsOne
  <2>3. \A j : SqliteWhere(el, e, j) <=> Own(el, e) \/ RowSays(e, a, j, JoinKey(el), el.val)
    BY <1>1, <2>1, JoinElement
  <2>4. Own(el, e) \/ \E x \in ToSet(s) : Says(x, JoinKey(el), el.val)
    BY <1>1, <2>1, JoinElement
  <2>5. s \in Seq(ToSet(s))
    <3>1. a \in DnsArrays
      BY DEF DnsArrays
    <3> QED BY <3>1, QueryAssumption DEF IsEvent
  <2>6. DOMAIN s = 1 .. Len(s) /\ Len(s) \in Nat /\ (s # <<>> => Len(s) # 0)
    BY <2>5
  <2>7. ArrayRows(elements, e, a) = IF s # <<>> THEN DOMAIN s ELSE {0}
    BY <2>1 DEF ArrayRows
  <2>8. \E n \in ArrayRows(elements, e, a) : \A j : j[a] = n => SqliteWhere(el, e, j)
    <3>1. CASE Own(el, e)
      <4>1. \E n : n \in ArrayRows(elements, e, a)
        <5>1. CASE s = <<>>
          BY <2>7, <5>1
        <5>2. CASE s # <<>>
          <6>1. 1 \in DOMAIN s
            BY <2>6, <5>2
          <6> QED BY <2>7, <5>2, <6>1
        <5> QED BY <5>1, <5>2
      <4> QED BY <2>3, <3>1, <4>1
    <3>2. CASE \E x \in ToSet(s) : Says(x, JoinKey(el), el.val)
      <4>1. PICK n \in DOMAIN s : Says(s[n], JoinKey(el), el.val)
        BY <3>2 DEF ToSet
      <4>2. n # 0 /\ s # <<>>
        BY <2>6, <4>1
      <4>3. \A j : j[a] = n => RowSays(e, a, j, JoinKey(el), el.val)
        BY <4>1, <4>2 DEF RowSays
      <4>4. n \in ArrayRows(elements, e, a)
        BY <2>7, <4>1, <4>2
      <4> QED BY <2>3, <4>3, <4>4
    <3> QED BY <2>4, <3>1, <3>2
  <2>9. PICK n \in ArrayRows(elements, e, a) : \A j : j[a] = n => SqliteWhere(el, e, j)
    BY <2>8
  <2>10. \A k \in DOMAIN elements : \A j : Joins(elements[k], a) /\ j[a] = n => SqliteWhere(elements[k], e, j)
    BY <2>2, <2>9
  <2> QED BY <2>10
<1> QED BY <1>2, <1>3

(* With one look at each joined array at most, Elasticsearch finds no more. *)
LEMMA SameSearch ==
  ASSUME QueryInv, OneJoin(elements), \A i \in DOMAIN elements : Same(elements[i])
  PROVE  ElasticSearch(elements) \subseteq SqliteSearch(elements)
<1> SUFFICES ASSUME NEW e \in ElasticSearch(elements) PROVE e \in SqliteSearch(elements)
  OBVIOUS
<1>1. e \in Catalogue /\ \A i \in DOMAIN elements : Holds(elements[i], e)
  BY MustHolds DEF ElasticSearch
<1>2. \A i \in DOMAIN elements : ElementOK(elements[i])
  BY DEF QueryInv
<1>3. \A a \in Joined : \E n \in ArrayRows(elements, e, a) : \A i \in DOMAIN elements : \A j :
         Joins(elements[i], a) /\ j[a] = n => SqliteWhere(elements[i], e, j)
  BY <1>1, JoinChoice
<1>4. PICK q \in ArrayRows(elements, e, "queries") : \A i \in DOMAIN elements : \A j :
         Joins(elements[i], "queries") /\ j["queries"] = q => SqliteWhere(elements[i], e, j)
  BY <1>3 DEF Joined
<1>5. PICK r \in ArrayRows(elements, e, "answers") : \A i \in DOMAIN elements : \A j :
         Joins(elements[i], "answers") /\ j["answers"] = r => SqliteWhere(elements[i], e, j)
  BY <1>3 DEF Joined
<1> DEFINE row == [queries |-> q, answers |-> r]
<1>6. row \in JoinRows(elements, e) /\ row["queries"] = q /\ row["answers"] = r
  BY DEF JoinRows
<1> HIDE DEF row
<1>7. ASSUME NEW i \in DOMAIN elements PROVE SqliteWhere(elements[i], e, row)
  <2>1. CASE NoJoins(elements[i])
    BY <1>1, <1>2, <2>1, SameElement
  <2>2. CASE Joins(elements[i], "queries")
    BY <1>4, <1>6, <2>2
  <2>3. CASE Joins(elements[i], "answers")
    BY <1>5, <1>6, <2>3
  <2> QED BY <2>1, <2>2, <2>3 DEF NoJoins, Joined
<1> QED BY <1>1, <1>6, <1>7 DEF SqliteSearch, SqliteRow

(* The two SQL statements of the inbox ask for the same.                   *)
LEMMA InboxElement ==
  ASSUME NEW e \in Catalogue, NEW el, ElementOK(el)
  PROVE  TimedWhere(el, e) <=> GroupedWhere(el, e)
<1>0. e.arch \in BOOLEAN /\ e.esc \in BOOLEAN /\ el.neg \in BOOLEAN
      /\ Like(e, el.val) \in BOOLEAN
  BY QueryAssumption DEF IsEvent, ElementOK, Like
<1>1. CASE el.kind = "String"
  BY <1>0, <1>1 DEF TimedWhere, GroupedWhere, TimeKinds
<1>2. CASE el.kind = "KeyValue"
  BY <1>2 DEF TimedWhere, GroupedWhere, TextWhere, TimeKinds
<1>3. CASE el.kind \in TimeKinds
  BY <1>3 DEF TimedWhere, GroupedWhere, TimeKinds
<1>4. CASE el.kind \in FlagKinds
  BY <1>0, <1>4 DEF TimedWhere, GroupedWhere, Flag, TimeKinds, FlagKinds
<1> QED BY <1>1, <1>2, <1>3, <1>4 DEF ElementOK

(* What Elasticsearch's inbox asks for, SQLite's asks for at least.        *)
LEMMA InboxWider ==
  ASSUME NEW e \in Catalogue, NEW el, ElementOK(el), Same(el),
         el.key \notin {"dns.type", "dns.rrname"} \union DOMAIN ArrayOf, Holds(el, e)
  PROVE  TimedWhere(el, e)
<1>0. NoJoins(el)
  BY DEF NoJoins, Joins, Into
<1>1. SqliteWhere(el, e, NoJoin)
  BY <1>0, SameElement
<1>2. CASE el.kind = "String"
  <2>1. ~el.neg /\ fts
    BY <1>2 DEF Same, TimeKinds, FlagKinds
  <2>2. HasToken(e, el.val)
    BY <1>1, <1>2, <2>1, SqliteElement DEF TextWhere
  <2> QED BY <1>2, <2>1, <2>2, TokenIsLike DEF TimedWhere, TimeKinds
<1>3. CASE el.kind = "KeyValue"
  <2>1. ~el.neg /\ el.key \notin {"@ip", "@mac"}
    BY <1>3 DEF Same, TimeKinds, FlagKinds
  <2>2. el.val # None
    BY <1>3, QueryAssumption DEF ElementOK, TimeKinds, FlagKinds
  <2>3. SqlEq(e, Shorthand(el.key), el.val)
    <3>1. KeyWhere(el, e, NoJoin) /\ Shorthand(el.key) \notin {"@ip", "@mac", "dns.type"}
      BY <1>1, <1>3, <2>1, SqliteElement DEF Shorthand
    <3>2. Shorthand(el.key) \notin RrnameKeys \union DOMAIN ArrayOf
      BY <1>0, <1>3, NoJoinKey
    <3> QED BY <2>1, <3>1, <3>2, EqCases DEF KeyWhere
  <2>4. FieldWhere(el, e)
    BY <2>1, <2>2, <2>3 DEF FieldWhere, SqlEq, Says, FieldLike
  <2> QED BY <1>3, <2>1, <2>4 DEF TimedWhere, TimeKinds
<1>4. CASE el.kind \in TimeKinds
  BY <1>1, <1>4, SqliteElement DEF TimedWhere, TimeKinds
<1>5. CASE el.kind \in FlagKinds
  BY <1>1, <1>5, SqliteElement DEF TimedWhere, TimeKinds, FlagKinds
<1> QED BY <1>2, <1>3, <1>4, <1>5 DEF ElementOK

(* SearchAgrees follows from what the parser pushes.                       *)
LEMMA QueryInvAgrees == QueryInv => SearchAgrees
<1> SUFFICES ASSUME QueryInv PROVE SearchAgrees
  OBVIOUS
<1>0. \A i \in DOMAIN elements : ElementOK(elements[i])
  BY DEF QueryInv
<1>1. ASSUME OneJoin(elements), \A i \in DOMAIN elements : Same(elements[i])
      PROVE  SqliteSearch(elements) = ElasticSearch(elements)
  BY <1>1, SameIsNarrower, NarrowSearch, SameSearch
<1>2. ASSUME \A i \in DOMAIN elements : Narrower(elements[i])
      PROVE  SqliteSearch(elements) \subseteq ElasticSearch(elements)
  BY <1>2, NarrowSearch
<1>3. Inbox(elements) = GroupedInbox(elements)
  BY <1>0, InboxElement DEF Inbox, GroupedInbox
<1>4. ASSUME \A i \in DOMAIN elements :
               Same(elements[i]) /\ elements[i].key \notin {"dns.type", "dns.rrname"} \union DOMAIN ArrayOf
      PROVE  ElasticInbox(elements) \subseteq Inbox(elements)
  <2> SUFFICES ASSUME NEW e \in ElasticInbox(elements) PROVE e \in Inbox(elements)
    OBVIOUS
  <2>1. e \in Catalogue /\ Alert(e) /\ (status = "bad" \/ Must(elements, e))
    BY DEF ElasticInbox
  <2>2. Must(elements, e) => \A i \in DOMAIN elements : TimedWhere(elements[i], e)
    BY <1>0, <1>4, <2>1, MustHolds, InboxWider
  <2> QED BY <2>1, <2>2 DEF Inbox
<1> QED BY <1>1, <1>2, <1>3, <1>4 DEF SearchAgrees

(* For any events, words and keys and any number of tokens, the two        *)
(* datastores find the same events, SQLite fewer where a negated field is  *)
(* absent, and the inbox is the same however SQLite lists it.              *)
THEOREM SearchesAgree == QuerySpec => []SearchAgrees
BY QueryTypes, QueryInvAgrees, PTL

-----------------------------------------------------------------------------
(* Typing on.  An element depends only on the arrays that it joins, and a  *)
(* negated one on none.                                                    *)
LEMMA RowIndependent ==
  ASSUME NEW el, ElementOK(el), NEW e, NEW j, NEW k, SqliteWhere(el, e, j),
         el.neg \/ \A a \in Joined : Joins(el, a) => j[a] = k[a]
  PROVE  SqliteWhere(el, e, k)
<1>1. CASE el.kind = "KeyValue"
  <2> DEFINE sh == Shorthand(el.key)
  <2>1. CASE el.neg \/ sh \in {"@ip", "@mac"}
    <3>1. KeyWhere(el, e, j) <=> KeyWhere(el, e, k)
      BY <2>1 DEF KeyWhere
    <3> QED BY <1>1, <3>1, SqliteElement
  <2>2. CASE ~el.neg /\ sh \notin {"@ip", "@mac"}
    <3>1. /\ \A m : SqliteWhere(el, e, m) <=> EqWhere(e, m, sh, el.val)
      BY <1>1, <2>2, SqliteElement DEF KeyWhere
    <3>2. \A a \in Joined : Joins(el, a) => j[a] = k[a]
      BY <2>2
    <3>3. CASE el.key \in RrnameKeys
      <4>1. Joins(el, "queries") /\ "queries" \in Joined /\ sh = el.key
        BY <1>1, <3>3, KeysApart DEF Joins, Into, RrnameKeys, Joined, Shorthand
      <4>2. j["queries"] = k["queries"]
        BY <3>2, <4>1
      <4>3. RowSays(e, "queries", j, "dns.queries.rrname", el.val) <=> RowSays(e, "queries", k, "dns.queries.rrname", el.val)
        BY <4>2 DEF RowSays
      <4> QED BY <3>1, <3>3, <4>1, <4>3, EqCases
    <3>4. CASE el.key \in Into(Joined) \ RrnameKeys
      <4> DEFINE a == ArrayOf[el.key]
      <4>1. Joins(el, a) /\ a \in Joined /\ sh = el.key
        BY <1>1, <3>4, KeysApart DEF Joins, Into
      <4>2. j[a] = k[a]
        BY <3>2, <4>1
      <4>3. RowSays(e, a, j, el.key, el.val) <=> RowSays(e, a, k, el.key, el.val)
        BY <4>2 DEF RowSays
      <4> QED BY <3>1, <3>4, <4>1, <4>3, EqCases
    <3>5. CASE el.key \notin RrnameKeys \union Into(Joined)
      <4>1. NoJoins(el)
        BY <3>5 DEF NoJoins, Joins, Into, RrnameKeys
      <4>2. sh \notin RrnameKeys /\ sh \notin Into(Joined)
        BY <1>1, <4>1, NoJoinKey
      <4>3. sh \in DOMAIN ArrayOf => sh \in Into({"authorities", "additionals"})
        BY <4>2, KeysApart DEF Into, DnsArrays
      <4> HIDE DEF sh
      <4> QED BY <3>1, <4>2, <4>3, EqCases
    <3> QED BY <3>3, <3>4, <3>5
  <2> QED BY <2>1, <2>2
<1>2. CASE el.kind # "KeyValue"
  BY <1>2, SqliteElement DEF ElementOK
<1> QED BY <1>1, <1>2

(* Shoulds, Must and the rows of a longer query, against the shorter one.  *)
LEMMA LongerSqlite ==
  ASSUME QueryInv, QueryInv', Grows(elements, elements')
  PROVE  SqliteSearch(elements') \subseteq SqliteSearch(elements)
<1>0. /\ DOMAIN elements \subseteq DOMAIN elements' /\ DOMAIN elements = 1 .. Len(elements)
      /\ \A i \in DOMAIN elements : elements'[i] = elements[i] /\ ElementOK(elements[i])
  BY DEF QueryInv, Grows
<1> SUFFICES ASSUME NEW e \in SqliteSearch(elements') PROVE e \in SqliteSearch(elements)
  OBVIOUS
<1>1. PICK j \in JoinRows(elements', e) : e \in Catalogue /\ SqliteRow(elements', e, j)
  BY DEF SqliteSearch
<1>2. \A i \in DOMAIN elements : SqliteWhere(elements[i], e, j)
  BY <1>0, <1>1 DEF SqliteRow
<1> DEFINE asked(a) == \E i \in DOMAIN elements : Joins(elements[i], a)
           part(a) == IF asked(a) THEN j[a] ELSE 0
           row == [queries |-> part("queries"), answers |-> part("answers")]
<1>3. \A a \in Joined : part(a) \in ArrayRows(elements, e, a)
  <2> TAKE a \in Joined
  <2>1. j[a] \in ArrayRows(elements', e, a)
    BY <1>1 DEF JoinRows, Joined
  <2>2. asked(a) => \E i \in DOMAIN elements' : Joins(elements'[i], a)
    BY <1>0
  <2>3. asked(a) => ArrayRows(elements, e, a) = ArrayRows(elements', e, a)
    BY <2>2 DEF ArrayRows
  <2>4. ~asked(a) => 0 \in ArrayRows(elements, e, a)
    BY DEF ArrayRows
  <2> QED BY <2>1, <2>3, <2>4
<1>4. row \in JoinRows(elements, e)
  BY <1>3 DEF JoinRows, Joined
<1>5. \A a \in Joined : row[a] = part(a)
  BY DEF Joined
<1>6. \A i \in DOMAIN elements : \A a \in Joined : Joins(elements[i], a) => j[a] = row[a]
  BY <1>5
<1> HIDE DEF row
<1>7. \A i \in DOMAIN elements : SqliteWhere(elements[i], e, row)
  BY <1>0, <1>2, <1>6, RowIndependent
<1> QED BY <1>1, <1>4, <1>7 DEF SqliteSearch, SqliteRow

(* Adding elements narrows the Elasticsearch search.                       *)
LEMMA LongerElastic ==
  ASSUME QueryInv, QueryInv', Grows(elements, elements'),
         Cardinality(Shoulds(elements')) <= 1 \/ Shoulds(elements') = Shoulds(elements)
  PROVE  ElasticSearch(elements') \subseteq ElasticSearch(elements)
<1>0. /\ DOMAIN elements \subseteq DOMAIN elements'
      /\ \A i \in DOMAIN elements : elements'[i] = elements[i]
  BY DEF QueryInv, Grows
<1>1. Shoulds(elements) \subseteq Shoulds(elements')
  BY <1>0 DEF Shoulds
<1>2. ASSUME NEW e, Must(elements', e) PROVE Must(elements, e)
  BY <1>0, <1>2, MustHolds
<1>3. Shoulds(elements) = {} \/ Shoulds(elements') = Shoulds(elements)
  <2> SUFFICES ASSUME Cardinality(Shoulds(elements')) <= 1, NEW i \in Shoulds(elements)
               PROVE  Shoulds(elements') \subseteq Shoulds(elements)
    BY <1>1
  <2>1. IsFiniteSet(Shoulds(elements'))
    <3>1. DOMAIN elements' = 1 .. Len(elements') /\ Len(elements') \in Nat
      BY DEF QueryInv
    <3>2. IsFiniteSet(DOMAIN elements')
      BY <3>1, FS_Interval
    <3>3. Shoulds(elements') \subseteq DOMAIN elements'
      BY DEF Shoulds
    <3> QED BY <3>2, <3>3, FS_Subset
  <2>2. ASSUME NEW k \in Shoulds(elements'), k # i PROVE FALSE
    <3>1. IsFiniteSet({i}) /\ Cardinality({i}) = 1 /\ k \notin {i}
      BY <2>2, FS_Singleton
    <3>2. Cardinality({i} \cup {k}) = 2
      BY <3>1, FS_AddElement
    <3>3. {i} \cup {k} \subseteq Shoulds(elements')
      BY <2>2, <1>1
    <3>4. Cardinality({i} \cup {k}) <= Cardinality(Shoulds(elements'))
      BY <2>1, <3>3, FS_Subset
    <3>5. Cardinality(Shoulds(elements')) \in Nat
      BY <2>1, FS_CardinalityType
    <3> QED BY <3>2, <3>4, <3>5
  <2> QED BY <2>2
<1>4. ASSUME NEW e, Should(elements', e) PROVE Should(elements, e)
  <2>1. \A i \in Shoulds(elements) : elements'[i] = elements[i]
    BY <1>0 DEF Shoulds
  <2> QED BY <1>3, <1>4, <2>1 DEF Should
<1> QED BY <1>2, <1>4 DEF ElasticSearch

(* Adding elements narrows the inbox.                                      *)
LEMMA LongerInbox ==
  ASSUME QueryInv, QueryInv', Grows(elements, elements'), status = "parsing"
  PROVE  Inbox(elements') \subseteq Inbox(elements)
<1>0. /\ DOMAIN elements \subseteq DOMAIN elements'
      /\ \A i \in DOMAIN elements : elements'[i] = elements[i]
  BY DEF QueryInv, Grows
<1>1. ASSUME NEW e, \A i \in DOMAIN elements' : TimedWhere(elements'[i], e)
      PROVE  \A i \in DOMAIN elements : TimedWhere(elements[i], e)
  BY <1>0, <1>1
<1> QED BY <1>1 DEF Inbox

(* Typing on narrows every search, for any events and any query.           *)
THEOREM TypingNarrows == QuerySpec => ElementNarrows
<1>1. QueryInv /\ [QueryNext]_reportVars =>
        [/\ SqliteSearch(elements') \subseteq SqliteSearch(elements)
         /\ (Cardinality(Shoulds(elements')) <= 1 \/ Shoulds(elements') = Shoulds(elements))
              => ElasticSearch(elements') \subseteq ElasticSearch(elements)
         /\ status' = "parsing" => Inbox(elements') \subseteq Inbox(elements)]_<<elements, status>>
  BY QueryStep, LongerSqlite, LongerElastic, LongerInbox
<1> QED BY <1>1, QueryTypes, PTL DEF QuerySpec, ElementNarrows

-----------------------------------------------------------------------------
(* Sums of what a report lists. *)

(* The sums of the first elements of a list of numbers.                    *)
Partial(s, f) == f \in [0 .. Len(s) -> Nat] /\ f[0] = 0 /\ \A k \in 1 .. Len(s) : f[k] = f[k - 1] + s[k]

(* SumOf is the last of them.                                              *)
LEMMA SumIs ==
  ASSUME NEW s \in Seq(Nat)
  PROVE  \E f : Partial(s, f) /\ SumOf(s) = f[Len(s)]
<1> DEFINE L == Len(s)
           F == [k \in 1 .. L |-> [x \in Nat |-> x + s[k]]]
           G(g) == g = [n \in 0 .. L |-> IF n = 0 THEN 0 ELSE g[n - 1] + s[n]]
           sum == CHOOSE g : G(g)
<1>1. L \in Nat /\ \A k \in 1 .. L : s[k] \in Nat
  OBVIOUS
<1> HIDE DEF L
<1>2. F \in [1 .. L -> [Nat -> Nat]]
  BY <1>1
<1>3. \A k \in 1 .. L, x \in Nat : F[k][x] = x + s[k]
  OBVIOUS
<1> HIDE DEF F
<1>4. PICK f \in [0 .. L -> Nat] : f[0] = 0 /\ \A k \in 1 .. L : f[k] = F[k][f[k - 1]]
  <2>1. L \in Nat /\ 0 \in Nat
    BY <1>1
  <2>2. PICK f : Computes(f, L, Nat, 0, F)
    BY <1>2, <2>1, Iteration
  <2> QED BY <2>2 DEF Computes
<1>5. ASSUME NEW k \in 1 .. L PROVE f[k] = f[k - 1] + s[k]
  <2>1. f[k - 1] \in Nat
    BY <1>1, <1>4
  <2> QED BY <1>3, <1>4, <2>1
<1>6. G(f)
  <2>1. ASSUME NEW n \in 0 .. L PROVE f[n] = IF n = 0 THEN 0 ELSE f[n - 1] + s[n]
    BY <1>1, <1>4, <1>5
  <2> QED BY <1>4, <2>1
<1>7. G(sum)
  BY <1>6
<1>8. SumOf(s) = sum[L]
  BY DEF SumOf, L
<1> HIDE DEF sum
<1>9. sum[0] = 0 /\ \A k \in 1 .. L : sum[k] = sum[k - 1] + s[k]
  BY <1>1, <1>7
<1>10. \A k \in 0 .. L : f[k] = sum[k]
  <2>1. f[0] = sum[0] /\ \A k \in 1 .. L : f[k - 1] = sum[k - 1] => f[k] = sum[k]
    BY <1>4, <1>5, <1>9
  <2>2. Alike(L, f, sum)
    BY <2>1 DEF Alike
  <2> QED BY <1>1, <2>2, SameIteration
<1>11. SumOf(s) = f[L]
  BY <1>1, <1>8, <1>10
<1> QED BY <1>4, <1>5, <1>11 DEF Partial, L

(* Partial sums only grow.                                                 *)
LEMMA PartialGrows ==
  ASSUME NEW s \in Seq(Nat), NEW f, Partial(s, f), NEW m \in 0 .. Len(s)
  PROVE  f[m] <= f[Len(s)]
<1> DEFINE L == Len(s)
           S == {d \in Nat : d <= L => f[L - d] <= f[L]}
<1>1. L \in Nat /\ f \in [0 .. L -> Nat] /\ \A k \in 1 .. L : f[k] = f[k - 1] + s[k] /\ s[k] \in Nat
  BY DEF Partial
<1> HIDE DEF L
<1>2. 0 \in S
  BY <1>1
<1>3. ASSUME NEW d \in Nat, d \in S PROVE d + 1 \in S
  <2> SUFFICES ASSUME d + 1 <= L PROVE f[L - (d + 1)] <= f[L]
    OBVIOUS
  <2>1. /\ L - d \in 1 .. L /\ (L - d) - 1 = L - (d + 1) /\ d <= L
        /\ {L, L - d, L - (d + 1)} \subseteq 0 .. L
    BY <1>1
  <2>2. f[L - d] = f[L - (d + 1)] + s[L - d] /\ s[L - d] \in Nat /\ f[L - d] <= f[L]
    BY <1>1, <1>3, <2>1
  <2>3. f[L - d] \in Nat /\ f[L - (d + 1)] \in Nat /\ f[L] \in Nat
    BY <1>1, <2>1
  <2> QED BY <2>2, <2>3
<1> HIDE DEF S
<1>4. Nat \subseteq S
  BY <1>2, <1>3, Induction
<1>5. L - m \in S /\ L - m <= L /\ L - (L - m) = m
  BY <1>1, <1>4 DEF L
<1> QED BY <1>5 DEF S, L

(* Differences that a growing quantity covers one by one, it covers in all.*)
LEMMA Telescope ==
  ASSUME NEW s \in Seq(Nat), NEW c, \A n \in 1 .. Len(s) + 1 : c[n] \in Nat,
         \A n \in 1 .. Len(s) : s[n] + c[n] <= c[n + 1]
  PROVE  SumOf(s) + c[1] <= c[Len(s) + 1]
<1> DEFINE L == Len(s)
<1>1. PICK f : Partial(s, f) /\ SumOf(s) = f[L]
  BY SumIs
<1> DEFINE S == {n \in Nat : n <= L => f[n] + c[1] <= c[n + 1]}
<1>2. L \in Nat /\ f \in [0 .. L -> Nat] /\ f[0] = 0
      /\ \A k \in 1 .. L : f[k] = f[k - 1] + s[k] /\ s[k] \in Nat
  BY <1>1 DEF Partial
<1> HIDE DEF L
<1>3. \A n \in 1 .. L + 1 : c[n] \in Nat
  BY DEF L
<1>4. \A n \in 1 .. L : s[n] + c[n] <= c[n + 1]
  BY DEF L
<1>5. 0 \in S
  <2>1. 1 \in 1 .. L + 1
    BY <1>2
  <2> QED BY <1>2, <1>3, <2>1
<1>6. ASSUME NEW n \in Nat, n \in S PROVE n + 1 \in S
  <2> SUFFICES ASSUME n + 1 <= L PROVE f[n + 1] + c[1] <= c[(n + 1) + 1]
    OBVIOUS
  <2>1. n + 1 \in 1 .. L /\ (n + 1) - 1 = n /\ n <= L /\ n \in 0 .. L /\ n + 1 \in 0 .. L
        /\ {1, n + 1, (n + 1) + 1} \subseteq 1 .. L + 1
    BY <1>2
  <2>2. f[n + 1] = f[n] + s[n + 1] /\ s[n + 1] + c[n + 1] <= c[(n + 1) + 1] /\ f[n] + c[1] <= c[n + 1]
    BY <1>2, <1>4, <1>6, <2>1
  <2>3. /\ f[n + 1] \in Nat /\ f[n] \in Nat /\ s[n + 1] \in Nat
        /\ c[1] \in Nat /\ c[n + 1] \in Nat /\ c[(n + 1) + 1] \in Nat
    BY <1>2, <1>3, <2>1
  <2> DEFINE u == f[n + 1]
             v == f[n]
             w == s[n + 1]
             x == c[n + 1]
             y == c[(n + 1) + 1]
             z == c[1]
  <2>4. u \in Nat /\ v \in Nat /\ w \in Nat /\ x \in Nat /\ y \in Nat /\ z \in Nat
        /\ u = v + w /\ w + x <= y /\ v + z <= x
    BY <2>2, <2>3
  <2> HIDE DEF u, v, w, x, y, z
  <2>5. u + z <= y
    BY <2>4
  <2> QED BY <2>5 DEF u, y, z
<1> HIDE DEF S
<1>7. Nat \subseteq S
  BY <1>5, <1>6, Induction
<1>8. L \in S
  BY <1>2, <1>7
<1> QED BY <1>1, <1>8, <1>2 DEF S, L

-----------------------------------------------------------------------------
(* Stats events. *)

Sample == [ts : Nat, host : Sensors, val : Nat]

(* What a report shows between the values a and b of a counter.            *)
Delta(a, b) == IF a <= b THEN b - a ELSE b

SampleTypes ==
  /\ samples \in Seq(Sample) /\ sensorTime \in Nat
  /\ counter \in [Sensors -> Nat] /\ grown \in [Sensors -> Nat]

SamplesInOrder ==
  \A i \in DOMAIN samples :
    /\ samples[i].ts <= sensorTime
    /\ \A j \in DOMAIN samples : i < j => samples[i].ts <= samples[j].ts

(* g tells for every sample what its sensor had counted by then since its  *)
(* first one: no difference that a report can draw exceeds what was        *)
(* counted in between.                                                     *)
Measures(g) ==
  /\ \A i \in DOMAIN samples :
       g[i] \in Nat /\ Delta(samples[i].val, counter[samples[i].host]) + g[i] <= grown[samples[i].host]
  /\ \A i, j \in DOMAIN samples : i < j /\ samples[i].host = samples[j].host =>
       Delta(samples[i].val, samples[j].val) + g[i] <= g[j]

StatsInv == SampleTypes /\ SamplesInOrder /\ \E g : Measures(g)

(* A difference grows at most as fast as the counter, and a restart leaves *)
(* none.                                                                   *)
LEMMA DeltaFacts ==
  ASSUME NEW a \in Nat, NEW b \in Nat, NEW n \in Nat
  PROVE  /\ Delta(a, b) \in Nat /\ Delta(a, b + n) \in Nat
         /\ Delta(a, b + n) <= Delta(a, b) + n
         /\ Delta(a, 0) = 0 /\ Delta(a, a) = 0
BY DEF Delta

(* A sensor reports: the new sample measures what it has counted.          *)
LEMMA ReportKeeps ==
  ASSUME StatsInv, Report
  PROVE  StatsInv'
<1> DEFINE L == Len(samples)
<1>1. PICK h \in Sensors, n \in 0 .. MaxGrowth :
        /\ counter' = [counter EXCEPT ![h] = @ + n]
        /\ samples' = Append(samples, [ts |-> sensorTime, host |-> h, val |-> counter[h] + n])
        /\ grown' = [grown EXCEPT ![h] = IF \E i \in DOMAIN samples : samples[i].host = h THEN @ + n ELSE 0]
  BY DEF Report
<1>2. n \in Nat /\ sensorTime' = sensorTime
  BY QueryAssumption DEF Report
<1> DEFINE s == [ts |-> sensorTime, host |-> h, val |-> counter[h] + n]
           total == grown'[h]
<1>3. counter[h] \in Nat /\ grown[h] \in Nat /\ sensorTime \in Nat
  BY DEF StatsInv, SampleTypes
<1>4. s \in Sample /\ s.ts = sensorTime /\ s.host = h /\ s.val = counter[h] + n
  BY <1>2, <1>3 DEF Sample
<1>5. samples' = Append(samples, s)
  BY <1>1
<1> HIDE DEF s
<1>6. L \in Nat /\ DOMAIN samples = 1 .. L
  BY DEF StatsInv, SampleTypes
<1>7. /\ samples' \in Seq(Sample) /\ DOMAIN samples' = 1 .. L + 1 /\ samples'[L + 1] = s
      /\ \A i \in 1 .. L : samples'[i] = samples[i]
  BY <1>4, <1>5, AppendProperties DEF StatsInv, SampleTypes
<1>8. /\ total \in Nat
      /\ (\E i \in DOMAIN samples : samples[i].host = h) => total = grown[h] + n
      /\ \A k \in Sensors : k # h => grown'[k] = grown[k]
  BY <1>1, <1>2, <1>3 DEF StatsInv, SampleTypes
<1>9. /\ counter'[h] = counter[h] + n
      /\ \A k \in Sensors : k # h => counter'[k] = counter[k]
  BY <1>1 DEF StatsInv, SampleTypes
<1>10. SampleTypes'
  BY <1>1, <1>2, <1>3, <1>7, <1>8 DEF StatsInv, SampleTypes
<1> HIDE DEF L
<1>11. \A i \in 1 .. L : samples[i] \in Sample
  BY <1>6 DEF StatsInv, SampleTypes
<1>12. \A i \in 1 .. L : samples[i].host \in Sensors /\ samples[i].val \in Nat /\ samples[i].ts \in Nat
  BY <1>11 DEF Sample
<1>13. SamplesInOrder'
  <2> SUFFICES ASSUME NEW i \in 1 .. L + 1
               PROVE  /\ samples'[i].ts <= sensorTime
                      /\ \A j \in 1 .. L + 1 : i < j => samples'[i].ts <= samples'[j].ts
    BY <1>2, <1>7 DEF SamplesInOrder
  <2>1. CASE i = L + 1
    BY <1>3, <1>4, <1>6, <1>7, <2>1
  <2>2. CASE i # L + 1
    <3>1. i \in 1 .. L
      BY <1>6, <2>2
    <3>2. samples[i].ts <= sensorTime /\ \A j \in 1 .. L : i < j => samples[i].ts <= samples[j].ts
      BY <1>6, <3>1 DEF StatsInv, SamplesInOrder
    <3> QED BY <1>4, <1>6, <1>7, <3>1, <3>2
  <2> QED BY <2>1, <2>2
<1>14. PICK g : Measures(g)
  BY DEF StatsInv
<1>15. PICK f : f[L + 1] = total /\ \A i \in 1 .. L : f[i] = g[i] /\ g[i] \in Nat
  <2> DEFINE f == [i \in 1 .. L + 1 |-> IF i = L + 1 THEN total ELSE g[i]]
  <2>1. L + 1 \in 1 .. L + 1 /\ \A i \in 1 .. L : i \in 1 .. L + 1 /\ i # L + 1
    BY <1>6
  <2>2. \A i \in 1 .. L : g[i] \in Nat
    BY <1>6, <1>14 DEF Measures
  <2> HIDE DEF total
  <2>3. f[L + 1] = total /\ \A i \in 1 .. L : f[i] = g[i]
    BY <2>1
  <2> QED BY <2>2, <2>3
<1> HIDE DEF total
<1>16. ASSUME NEW i \in 1 .. L, samples[i].host = h
       PROVE  Delta(samples[i].val, counter[h] + n) + f[i] <= total
  <2>1. Delta(samples[i].val, counter[h]) + g[i] <= grown[h] /\ f[i] = g[i] /\ g[i] \in Nat
    BY <1>6, <1>14, <1>15, <1>16 DEF Measures
  <2>2. Delta(samples[i].val, counter[h] + n) <= Delta(samples[i].val, counter[h]) + n
        /\ Delta(samples[i].val, counter[h] + n) \in Nat /\ Delta(samples[i].val, counter[h]) \in Nat
    BY <1>2, <1>3, <1>12, DeltaFacts
  <2>3. total = grown[h] + n
    BY <1>6, <1>8, <1>16
  <2> QED BY <1>2, <1>3, <2>1, <2>2, <2>3
<1>17. ASSUME NEW i \in 1 .. L + 1
       PROVE  f[i] \in Nat /\ Delta(samples'[i].val, counter'[samples'[i].host]) + f[i] <= grown'[samples'[i].host]
  <2>1. CASE i = L + 1
    <3>1. counter[h] + n \in Nat
      BY <1>2, <1>3
    <3>2. Delta(counter[h] + n, counter[h] + n) = 0
      BY <3>1, DeltaFacts
    <3> QED BY <1>4, <1>7, <1>8, <1>9, <1>15, <2>1, <3>2 DEF total
  <2>2. CASE i \in 1 .. L /\ samples[i].host = h
    BY <1>7, <1>9, <1>15, <1>16, <2>2 DEF total
  <2>3. CASE i \in 1 .. L /\ samples[i].host # h
    <3>1. samples'[i] = samples[i] /\ samples[i].host \in Sensors
      BY <1>7, <1>12, <2>3
    <3>2. counter'[samples[i].host] = counter[samples[i].host] /\ grown'[samples[i].host] = grown[samples[i].host]
      BY <1>8, <1>9, <2>3, <3>1
    <3>3. Delta(samples[i].val, counter[samples[i].host]) + g[i] <= grown[samples[i].host]
      BY <1>6, <1>14, <2>3 DEF Measures
    <3> QED BY <1>15, <2>3, <3>1, <3>2, <3>3
  <2> QED BY <1>6, <2>1, <2>2, <2>3
<1>18. ASSUME NEW i \in 1 .. L + 1, NEW j \in 1 .. L + 1, i < j, samples'[i].host = samples'[j].host
       PROVE  Delta(samples'[i].val, samples'[j].val) + f[i] <= f[j]
  <2>1. i \in 1 .. L /\ samples'[i] = samples[i] /\ f[i] = g[i]
    BY <1>6, <1>7, <1>15, <1>18
  <2>2. CASE j = L + 1
    BY <1>4, <1>7, <1>15, <1>16, <1>18, <2>1, <2>2
  <2>3. CASE j \in 1 .. L
    BY <1>6, <1>7, <1>14, <1>15, <1>18, <2>1, <2>3 DEF Measures
  <2> QED BY <1>6, <2>2, <2>3
<1>19. Measures(f)'
  BY <1>7, <1>17, <1>18 DEF Measures
<1> QED BY <1>10, <1>13, <1>19 DEF StatsInv

(* What a sample is made of.                                               *)
LEMMA SampleFields ==
  ASSUME StatsInv
  PROVE  /\ Len(samples) \in Nat /\ DOMAIN samples = 1 .. Len(samples)
         /\ \A i \in DOMAIN samples : samples[i].host \in Sensors /\ samples[i].val \in Nat /\ samples[i].ts \in Nat
<1>1. Len(samples) \in Nat /\ DOMAIN samples = 1 .. Len(samples)
  BY DEF StatsInv, SampleTypes
<1>2. \A i \in DOMAIN samples : samples[i] \in Sample
  BY DEF StatsInv, SampleTypes
<1> QED BY <1>1, <1>2 DEF Sample

(* A restart of Suricata: the counter is zero, and no difference is left.  *)
LEMMA RestartKeeps ==
  ASSUME StatsInv, SensorRestart
  PROVE  StatsInv'
<1>1. PICK h \in Sensors : counter' = [counter EXCEPT ![h] = 0]
  BY DEF SensorRestart
<1>2. samples' = samples /\ sensorTime' = sensorTime /\ grown' = grown
  BY DEF SensorRestart
<1>3. SampleTypes'
  BY <1>1, <1>2 DEF StatsInv, SampleTypes
<1>4. SamplesInOrder'
  BY <1>2 DEF StatsInv, SamplesInOrder
<1>5. PICK g : Measures(g)
  BY DEF StatsInv
<1>6. \A k \in Sensors : counter'[k] = IF k = h THEN 0 ELSE counter[k]
  BY <1>1 DEF StatsInv, SampleTypes
<1>7. ASSUME NEW i \in DOMAIN samples
      PROVE  Delta(samples[i].val, counter'[samples[i].host]) + g[i] <= grown[samples[i].host]
  <2>1. samples[i].host \in Sensors /\ samples[i].val \in Nat
    BY SampleFields
  <2>2. /\ Delta(samples[i].val, counter[samples[i].host]) + g[i] <= grown[samples[i].host]
        /\ g[i] \in Nat
    BY <1>5 DEF Measures
  <2>3. counter[samples[i].host] \in Nat /\ grown[samples[i].host] \in Nat
    BY <2>1 DEF StatsInv, SampleTypes
  <2>4. /\ Delta(samples[i].val, counter[samples[i].host]) \in Nat
        /\ Delta(samples[i].val, 0) = 0
    BY <2>1, <2>3, DeltaFacts
  <2>5. counter'[samples[i].host] \in {0, counter[samples[i].host]}
    BY <1>6, <2>1
  <2> QED BY <2>2, <2>3, <2>4, <2>5
<1>8. Measures(g)'
  BY <1>2, <1>5, <1>7 DEF Measures
<1> QED BY <1>3, <1>4, <1>8 DEF StatsInv

(* Every action keeps the samples in order and measured.                   *)
LEMMA StatsStep == StatsInv /\ [QueryNext]_reportVars => StatsInv'
<1> SUFFICES ASSUME StatsInv, [QueryNext]_reportVars PROVE StatsInv'
  OBVIOUS
<1>1. CASE Report
  BY <1>1, ReportKeeps
<1>2. CASE SensorRestart
  BY <1>2, RestartKeeps
<1>3. CASE TimePasses
  <2>1. sensorTime' = sensorTime + 1 /\ samples' = samples /\ counter' = counter /\ grown' = grown
    BY <1>3 DEF TimePasses
  <2>2. SampleTypes'
    BY <2>1 DEF StatsInv, SampleTypes
  <2>3. SamplesInOrder'
    <3>1. sensorTime \in Nat /\ \A i \in DOMAIN samples : samples[i].ts \in Nat
      BY SampleFields DEF StatsInv, SampleTypes
    <3> QED BY <2>1, <3>1 DEF StatsInv, SamplesInOrder
  <2>4. \A g : Measures(g) => Measures(g)'
    BY <2>1 DEF Measures
  <2> QED BY <2>2, <2>3, <2>4 DEF StatsInv
<1>4. CASE UNCHANGED statsVars
  <2>1. sensorTime' = sensorTime /\ samples' = samples /\ counter' = counter /\ grown' = grown
    BY <1>4 DEF statsVars
  <2>2. SampleTypes' /\ SamplesInOrder'
    BY <2>1 DEF StatsInv, SampleTypes, SamplesInOrder
  <2>3. \A g : Measures(g) => Measures(g)'
    BY <2>1 DEF Measures
  <2> QED BY <2>2, <2>3 DEF StatsInv
<1>5. Report \/ SensorRestart \/ TimePasses \/ UNCHANGED statsVars
  BY DEF QueryNext, reportVars, statsVars, ParseOperator, ParseTime, ParseBadTime, ParseKeyValue,
         ParseKeyOperator, ParseWord, Pushed
<1> QED BY <1>1, <1>2, <1>3, <1>4, <1>5

(* Before the first stats event there is nothing to measure.               *)
LEMMA StatsInit == QueryInit => StatsInv
<1> SUFFICES ASSUME QueryInit PROVE StatsInv
  OBVIOUS
<1>1. /\ samples = <<>> /\ sensorTime = 0
      /\ counter = [h \in Sensors |-> 0] /\ grown = [h \in Sensors |-> 0]
  BY DEF QueryInit
<1>2. SampleTypes
  BY <1>1 DEF SampleTypes
<1>3. DOMAIN samples = {}
  BY <1>1
<1>4. SamplesInOrder /\ Measures(<<>>)
  BY <1>3 DEF SamplesInOrder, Measures
<1> QED BY <1>2, <1>4 DEF StatsInv

-----------------------------------------------------------------------------
(* The buckets of a report. *)

(* A bucket starts at a multiple of the interval, and one bucket is an     *)
(* interval after the other.                                               *)
LEMMA FloorFacts ==
  ASSUME NEW iv \in Nat \ {0}, NEW t \in Nat, NEW u \in Nat
  PROVE  /\ Floor(t, iv) \in Nat /\ Floor(t, iv) <= t /\ t < Floor(t, iv) + iv
         /\ t <= u => Floor(t, iv) <= Floor(u, iv)
         /\ Floor(t, iv) < Floor(u, iv) => Floor(t, iv) + iv <= Floor(u, iv)
<1> DEFINE a == t \div iv
           b == u \div iv
<1>1. a \in Nat /\ a * iv \in Nat /\ a * iv <= t /\ t < a * iv + iv
  OBVIOUS
<1>2. b \in Nat /\ b * iv \in Nat /\ b * iv <= u /\ u < b * iv + iv
  OBVIOUS
<1>3. Floor(t, iv) = a * iv /\ Floor(u, iv) = b * iv
  BY DEF Floor
<1> HIDE DEF a, b
<1>4. (a <= b => a * iv <= b * iv) /\ (b < a => b * iv + iv <= a * iv) /\ (a < b => a * iv + iv <= b * iv)
  <2>1. \A x, y \in Nat : (x <= y => x * iv <= y * iv) /\ (x < y => x * iv + iv <= y * iv)
    BY Multiples
  <2> QED BY <1>1, <1>2, <2>1
<1> QED BY <1>1, <1>2, <1>3, <1>4

(* The buckets behind a bucket.                                            *)
LEMMA FloorGrid ==
  ASSUME NEW iv \in Nat \ {0}, NEW t \in Nat, NEW k \in Nat, NEW u \in Nat
  PROVE  /\ Floor(t, iv) + k * iv \in Nat
         /\ Floor(t, iv) + k * iv < Floor(u, iv) => Floor(t, iv) + (k + 1) * iv <= Floor(u, iv)
         /\ (k + 1) * iv = k * iv + iv /\ 0 * iv = 0
<1> DEFINE a == t \div iv
           b == u \div iv
<1>1. a \in Nat /\ b \in Nat /\ Floor(t, iv) = a * iv /\ Floor(u, iv) = b * iv
  BY DEF Floor
<1> HIDE DEF a, b
<1>2. \A x, y \in Nat : x * iv \in Nat /\ (x + y) * iv = x * iv + y * iv
                        /\ (x <= y => x * iv <= y * iv) /\ (x < y => x * iv + iv <= y * iv)
  BY Multiples
<1>3. a + k \in Nat /\ (a + k) * iv = a * iv + k * iv /\ (k + 1) * iv = k * iv + iv /\ 0 * iv = 0
      /\ a * iv \in Nat /\ b * iv \in Nat /\ k * iv \in Nat
  BY <1>1, <1>2
<1>4. (a + k) * iv < b * iv => (a + k) * iv + iv <= b * iv
  <2>1. CASE a + k < b
    BY <1>1, <1>2, <1>3, <2>1
  <2>2. CASE ~(a + k < b)
    <3>1. b <= a + k
      BY <1>1, <1>3, <2>2
    <3>2. b * iv <= (a + k) * iv
      BY <1>1, <1>2, <1>3, <3>1
    <3> QED BY <1>3, <3>2
  <2> QED BY <2>1, <2>2
<1> QED BY <1>1, <1>3, <1>4

(* The buckets that have a sample among I.                                 *)
Buckets(I, iv) == {Floor(samples[i].ts, iv) : i \in I}

(* They are finitely many times.                                         *)
LEMMA BucketsAre ==
  ASSUME StatsInv, NEW iv \in Nat \ {0}, NEW I \in SUBSET DOMAIN samples
  PROVE  Buckets(I, iv) \in SUBSET Nat /\ IsFiniteSet(Buckets(I, iv))
<1>1. ASSUME NEW i \in I PROVE Floor(samples[i].ts, iv) \in Nat /\ Floor(samples[i].ts, iv) <= sensorTime
  <2>1. samples[i].ts \in Nat /\ samples[i].ts <= sensorTime /\ sensorTime \in Nat
    BY SampleFields DEF StatsInv, SamplesInOrder, SampleTypes
  <2>2. Floor(samples[i].ts, iv) \in Nat /\ Floor(samples[i].ts, iv) <= samples[i].ts
    BY <2>1, FloorFacts
  <2> QED BY <2>1, <2>2
<1>2. Buckets(I, iv) \in SUBSET Nat /\ \A t \in Buckets(I, iv) : t <= sensorTime
  BY <1>1 DEF Buckets
<1>3. sensorTime \in Nat
  BY DEF StatsInv, SampleTypes
<1> QED BY <1>2, <1>3, FS_BoundedSetOfNaturals

(* The peak of a bucket is the value of one of its samples.                *)
LEMMA PeakIs ==
  ASSUME StatsInv, NEW iv \in Nat \ {0}, NEW I \in SUBSET DOMAIN samples, NEW t \in Buckets(I, iv)
  PROVE  \E i \in I : Floor(samples[i].ts, iv) = t /\ samples[i].val = Peak(I, t, iv)
<1> DEFINE J == {i \in I : Floor(samples[i].ts, iv) = t}
           V == {samples[i].val : i \in J}
           f == [i \in J |-> samples[i].val]
<1>1. V \in SUBSET Nat /\ V # {}
  <2>1. \A i \in J : samples[i].val \in Nat
    BY SampleFields
  <2>2. J # {}
    BY DEF Buckets
  <2> HIDE DEF J
  <2> QED BY <2>1, <2>2
<1>2. IsFiniteSet(J)
  <2>1. Len(samples) \in Nat /\ J \in SUBSET (1 .. Len(samples))
    BY SampleFields
  <2>2. IsFiniteSet(1 .. Len(samples))
    BY <2>1, FS_Interval
  <2> HIDE DEF J
  <2> QED BY <2>1, <2>2, FS_Subset
<1>3. IsFiniteSet(V)
  <2> HIDE DEF J
  <2>1. f \in Surjection(J, V)
    BY DEF Surjection
  <2> HIDE DEF f, V
  <2> QED BY <1>2, <2>1, FS_Surjection
<1>4. \E x \in V : \A y \in V : y <= x
  <2> HIDE DEF V
  <2> QED BY <1>1, <1>3, FiniteGreatest
<1>5. \E x \in V : \A y \in V : x >= y
  <2>1. \A x, y \in V : y <= x => x >= y
    <3> HIDE DEF V
    <3> QED BY <1>1
  <2> HIDE DEF V
  <2> QED BY <1>4, <2>1
<1>6. Greatest(V) \in V
  <2> HIDE DEF V
  <2> QED BY <1>5 DEF Greatest
<1>7. Peak(I, t, iv) = Greatest(V)
  BY DEF Peak
<1> QED BY <1>6, <1>7

(* The samples of one sensor: what it counted up to the peak of a bucket   *)
(* covers the differences between the peaks.                               *)
LEMMA PeaksMeasured ==
  ASSUME StatsInv, NEW iv \in Nat \ {0}, NEW h \in Sensors, NEW I \in SUBSET DOMAIN samples,
         \A i \in I : samples[i].host = h
  PROVE  \E q : \A t \in Buckets(I, iv) :
           /\ Peak(I, t, iv) \in Nat /\ q[t] \in Nat /\ q[t] <= grown[h]
           /\ \A u \in Buckets(I, iv) : t < u => Delta(Peak(I, t, iv), Peak(I, u, iv)) + q[t] <= q[u]
<1> DEFINE B == Buckets(I, iv)
           Peaking(t) == CHOOSE i \in I : Floor(samples[i].ts, iv) = t /\ samples[i].val = Peak(I, t, iv)
<1>1. \A t \in B : Peaking(t) \in I /\ Floor(samples[Peaking(t)].ts, iv) = t /\ samples[Peaking(t)].val = Peak(I, t, iv)
  <2> TAKE t \in B
  <2>1. \E i \in I : Floor(samples[i].ts, iv) = t /\ samples[i].val = Peak(I, t, iv)
    BY PeakIs
  <2> QED BY <2>1
<1> HIDE DEF Peaking
<1>2. PICK g : Measures(g)
  BY DEF StatsInv
<1> DEFINE q == [t \in B |-> g[Peaking(t)]]
<1>3. ASSUME NEW t \in B
      PROVE  Peak(I, t, iv) \in Nat /\ q[t] \in Nat /\ q[t] <= grown[h]
  <2> DEFINE i == Peaking(t)
  <2>1. i \in DOMAIN samples /\ samples[i].host = h /\ samples[i].val = Peak(I, t, iv) /\ q[t] = g[i]
    BY <1>1, <1>3
  <2> HIDE DEF i
  <2>2. samples[i].val \in Nat
    BY <2>1, SampleFields
  <2>3. g[i] \in Nat /\ Delta(samples[i].val, counter[h]) + g[i] <= grown[h]
    BY <1>2, <2>1 DEF Measures
  <2>4. counter[h] \in Nat /\ grown[h] \in Nat
    BY DEF StatsInv, SampleTypes
  <2>5. Delta(samples[i].val, counter[h]) \in Nat
    BY <2>2, <2>4, DeltaFacts
  <2>6. g[i] <= grown[h]
    BY <2>3, <2>4, <2>5
  <2> QED BY <2>1, <2>2, <2>3, <2>6
<1>4. ASSUME NEW t \in B, NEW u \in B, t < u
      PROVE  Delta(Peak(I, t, iv), Peak(I, u, iv)) + q[t] <= q[u]
  <2> DEFINE i == Peaking(t)
             j == Peaking(u)
  <2>1. /\ i \in DOMAIN samples /\ samples[i].host = h /\ samples[i].val = Peak(I, t, iv) /\ q[t] = g[i]
        /\ Floor(samples[i].ts, iv) = t
    BY <1>1, <1>4
  <2>2. /\ j \in DOMAIN samples /\ samples[j].host = h /\ samples[j].val = Peak(I, u, iv) /\ q[u] = g[j]
        /\ Floor(samples[j].ts, iv) = u
    BY <1>1, <1>4
  <2> HIDE DEF i, j, q
  <2>3. samples[i].ts \in Nat /\ samples[j].ts \in Nat /\ i \in Nat /\ j \in Nat
    BY <2>1, <2>2, SampleFields
  <2>4. samples[i].ts < samples[j].ts
    <3>1. t \in Nat /\ u \in Nat /\ (samples[j].ts <= samples[i].ts => u <= t)
      BY <2>1, <2>2, <2>3, FloorFacts
    <3> QED BY <1>4, <2>3, <3>1
  <2>5. i < j
    <3>1. j < i => samples[j].ts <= samples[i].ts
      BY <2>1, <2>2 DEF StatsInv, SamplesInOrder
    <3> QED BY <2>3, <2>4, <3>1
  <2> QED BY <1>2, <2>1, <2>2, <2>5 DEF Measures
<1> QED BY <1>3, <1>4

(* The report of SQLite: the differences between successive peaks.         *)
LEMMA SqliteDiffsAre ==
  ASSUME NEW N \in Nat \ {0}, NEW r, Len(r) = N, \A n \in 1 .. N : r[n].val \in Nat
  PROVE  /\ SqliteDiffs(r) \in Seq(Nat) /\ Len(SqliteDiffs(r)) = N - 1
         /\ \A n \in 1 .. N - 1 : SqliteDiffs(r)[n] = Delta(r[n].val, r[n + 1].val)
<1>1. \A n \in 1 .. N - 1 : r[n].val \in Nat /\ r[n + 1].val \in Nat
  <2> TAKE n \in 1 .. N - 1
  <2>1. n \in 1 .. N /\ n + 1 \in 1 .. N
    OBVIOUS
  <2> QED BY <2>1
<1> DEFINE D(n) == Delta(r[n].val, r[n + 1].val)
<1>2. SqliteDiffs(r) = [n \in 1 .. N - 1 |-> D(n)]
  BY DEF SqliteDiffs, Delta
<1>3. \A n \in 1 .. N - 1 : D(n) \in Nat
  BY <1>1, DeltaFacts
<1> HIDE DEF D
<1>4. N - 1 \in Nat
  OBVIOUS
<1>5. [n \in 1 .. N - 1 |-> D(n)] \in Seq(Nat) /\ Len([n \in 1 .. N - 1 |-> D(n)]) = N - 1
  BY <1>3, <1>4
<1>6. \A n \in 1 .. N - 1 : SqliteDiffs(r)[n] = D(n)
  BY <1>2
<1> QED BY <1>2, <1>5, <1>6 DEF D

(* The buckets b that have samples, in order, and the differences d        *)
(* between their peaks v.                                                  *)
Dense(N, b, v, d) ==
  /\ N \in Nat \ {0} /\ b \in [1 .. N -> Nat] /\ v \in [1 .. N -> Nat]
  /\ \A m, n \in 1 .. N : m < n => b[m] < b[n]
  /\ d \in Seq(Nat) /\ Len(d) = N - 1
  /\ \A n \in 1 .. N - 1 : d[n] = Delta(v[n], v[n + 1])

(* The buckets T of Elasticsearch follow one another, and its differences  *)
(* e are those between neighbours that both have samples.                  *)
Sparse(N, b, v, M, T, e) ==
  /\ M \in Nat \ {0} /\ T \in [1 .. M -> Nat] /\ T[1] = b[1]
  /\ e \in Seq(Nat) /\ Len(e) = M /\ e[1] = 0
  /\ \A k \in 1 .. M - 1 :
       /\ T[k] < T[k + 1] /\ \A m \in 1 .. N : T[k] < b[m] => T[k + 1] <= b[m]
       /\ \/ e[k + 1] = 0
          \/ \E m, n \in 1 .. N : /\ T[k] = b[m] /\ T[k + 1] = b[n]
                                  /\ v[m] <= v[n] /\ e[k + 1] = v[n] - v[m]

(* The bucket m is the last one with samples up to T[k], and the first k   *)
(* differences of Elasticsearch add up to no more than those before m.     *)
Reached(N, b, T, p, x, k, m) ==
  /\ m \in 1 .. N /\ b[m] <= T[k] /\ (m < N => T[k] < b[m + 1])
  /\ x[k] <= p[m - 1]

(* The next bucket of Elasticsearch: it is the next one that has samples,  *)
(* or it has none.                                                         *)
LEMMA NextReached ==
  ASSUME NEW N, NEW b, NEW v, NEW d, Dense(N, b, v, d), NEW p, Partial(d, p),
         NEW M, NEW T, NEW e, Sparse(N, b, v, M, T, e), NEW x, Partial(e, x),
         NEW k \in 1 .. M - 1, NEW m, Reached(N, b, T, p, x, k, m)
  PROVE  \E n : Reached(N, b, T, p, x, k + 1, n)
<1>1. /\ N \in Nat \ {0} /\ M \in Nat \ {0} /\ m \in 1 .. N /\ k \in Nat /\ k + 1 \in 1 .. M /\ k \in 1 .. M
      /\ m - 1 \in 0 .. N - 1 /\ k \in 0 .. M /\ k + 1 \in 0 .. M /\ (k + 1) - 1 = k
  BY DEF Dense, Sparse, Reached
<1>2. /\ \A n \in 1 .. N : b[n] \in Nat /\ v[n] \in Nat
      /\ \A i, j \in 1 .. N : i < j => b[i] < b[j]
  BY DEF Dense
<1>3. T[k] \in Nat /\ T[k + 1] \in Nat
  BY <1>1 DEF Sparse
<1>4. T[k] < T[k + 1] /\ \A n \in 1 .. N : T[k] < b[n] => T[k + 1] <= b[n]
  BY DEF Sparse
<1>5. \/ e[k + 1] = 0
      \/ \E i, j \in 1 .. N : T[k] = b[i] /\ T[k + 1] = b[j] /\ v[i] <= v[j] /\ e[k + 1] = v[j] - v[i]
  BY DEF Sparse
<1>6. x[k + 1] = x[k] + e[k + 1] /\ x[k] \in Nat /\ x[k + 1] \in Nat /\ e[k + 1] \in Nat
  <2>1. Len(e) = M /\ \A n \in 1 .. M : e[n] \in Nat
    BY DEF Sparse
  <2>2. x \in [0 .. M -> Nat] /\ \A n \in 1 .. M : x[n] = x[n - 1] + e[n]
    BY <2>1 DEF Partial
  <2> QED BY <1>1, <2>1, <2>2
<1>7. \A n \in 1 .. N - 1 : p[n] = p[n - 1] + d[n] /\ p[n] \in Nat /\ p[n - 1] \in Nat
                            /\ d[n] \in Nat /\ d[n] = Delta(v[n], v[n + 1])
  <2>0. d \in Seq(Nat) /\ Len(d) = N - 1 /\ \A n \in 1 .. N - 1 : d[n] = Delta(v[n], v[n + 1])
    BY DEF Dense
  <2>1. Len(d) = N - 1 /\ \A n \in 1 .. N - 1 : d[n] \in Nat /\ d[n] = Delta(v[n], v[n + 1])
    <3>1. \A n \in 1 .. Len(d) : d[n] \in Nat
      BY <2>0
    <3> QED BY <2>0, <3>1
  <2>2. p \in [0 .. N - 1 -> Nat] /\ \A n \in 1 .. N - 1 : p[n] = p[n - 1] + d[n]
    BY <2>1 DEF Partial
  <2>3. \A n \in 1 .. N - 1 : n \in 0 .. N - 1 /\ n - 1 \in 0 .. N - 1
    BY <1>1
  <2> QED BY <2>1, <2>2, <2>3
<1>8. p[m - 1] \in Nat
  BY <1>1 DEF Partial, Dense
<1>9. b[m] <= T[k] /\ (m < N => T[k] < b[m + 1]) /\ x[k] <= p[m - 1]
  BY DEF Reached
<1>10. ASSUME m < N, b[m + 1] = T[k + 1] PROVE Reached(N, b, T, p, x, k + 1, m + 1)
  <2>1. m + 1 \in 1 .. N /\ m \in 1 .. N - 1 /\ (m + 1) - 1 = m
    BY <1>1, <1>10
  <2>2. m + 1 < N => (m + 1) + 1 \in 1 .. N /\ m + 1 < (m + 1) + 1
    BY <1>1
  <2>3. m + 1 < N => T[k + 1] < b[(m + 1) + 1]
    BY <1>2, <1>10, <2>1, <2>2
  <2>4. p[m] = p[m - 1] + d[m] /\ p[m] \in Nat /\ d[m] \in Nat /\ d[m] = Delta(v[m], v[m + 1])
    BY <1>7, <2>1
  <2>5. e[k + 1] = 0 \/ e[k + 1] = d[m]
    <3> SUFFICES ASSUME e[k + 1] # 0 PROVE e[k + 1] = d[m]
      OBVIOUS
    <3>1. PICK i \in 1 .. N, j \in 1 .. N :
            T[k] = b[i] /\ T[k + 1] = b[j] /\ v[i] <= v[j] /\ e[k + 1] = v[j] - v[i]
      BY <1>5
    <3>2. j = m + 1
      <4>1. b[j] = b[m + 1] /\ b[j] \in Nat /\ j \in Nat /\ m + 1 \in Nat
        BY <1>2, <1>10, <2>1, <3>1
      <4>2. (j < m + 1 => b[j] < b[m + 1]) /\ (m + 1 < j => b[m + 1] < b[j])
        BY <1>2, <2>1
      <4> QED BY <4>1, <4>2
    <3>3. i = m
      <4>1. b[m] <= b[i] /\ b[i] < b[m + 1] /\ b[i] \in Nat /\ b[m] \in Nat /\ b[m + 1] \in Nat /\ i \in Nat /\ m \in Nat
        BY <1>1, <1>2, <1>9, <1>10, <2>1, <3>1
      <4>2. (i < m => b[i] < b[m]) /\ (m + 1 < i => b[m + 1] < b[i])
        BY <1>1, <1>2, <2>1
      <4>3. i # m + 1
        BY <4>1
      <4> QED BY <4>1, <4>2, <4>3
    <3> QED BY <2>4, <3>1, <3>2, <3>3 DEF Delta
  <2>6. x[k + 1] <= p[m]
    BY <1>6, <1>8, <1>9, <2>4, <2>5
  <2>7. b[m + 1] <= T[k + 1]
    BY <1>3, <1>10
  <2> QED BY <2>1, <2>3, <2>6, <2>7 DEF Reached
<1>11. ASSUME m < N => b[m + 1] # T[k + 1] PROVE Reached(N, b, T, p, x, k + 1, m)
  <2>1. m < N => T[k + 1] < b[m + 1]
    <3> SUFFICES ASSUME m < N PROVE T[k + 1] < b[m + 1]
      OBVIOUS
    <3>1. m + 1 \in 1 .. N
      BY <1>1
    <3>2. b[m + 1] \in Nat /\ T[k] < b[m + 1]
      BY <1>2, <1>9, <3>1
    <3>3. T[k + 1] <= b[m + 1] /\ b[m + 1] # T[k + 1]
      BY <1>4, <1>11, <3>1, <3>2
    <3> QED BY <1>3, <3>2, <3>3
  <2>2. ASSUME NEW j \in 1 .. N, T[k + 1] = b[j] PROVE FALSE
    <3>1. b[j] \in Nat /\ b[m] \in Nat /\ b[m] < b[j] /\ j \in Nat /\ m \in Nat
      BY <1>1, <1>2, <1>3, <1>4, <1>9, <2>2
    <3>2. j < m => b[j] < b[m]
      BY <1>1, <1>2
    <3>3. m < j
      BY <3>1, <3>2
    <3>4. m < N /\ m + 1 \in 1 .. N /\ (j = m + 1 \/ m + 1 < j)
      BY <1>1, <3>1, <3>3
    <3>5. T[k + 1] < b[m + 1] /\ b[m + 1] \in Nat /\ (m + 1 < j => b[m + 1] < b[j])
      BY <1>2, <2>1, <3>4
    <3> QED BY <2>2, <3>1, <3>4, <3>5
  <2>3. e[k + 1] = 0
    BY <1>5, <2>2
  <2>4. x[k + 1] <= p[m - 1]
    BY <1>6, <1>9, <2>3
  <2>5. b[m] <= T[k + 1]
    BY <1>1, <1>2, <1>3, <1>4, <1>9
  <2> QED BY <1>1, <2>1, <2>4, <2>5 DEF Reached
<1> QED BY <1>10, <1>11

(* Elasticsearch never shows more than SQLite.                             *)
LEMMA SparseSum ==
  ASSUME NEW N, NEW b, NEW v, NEW d, Dense(N, b, v, d), NEW M, NEW T, NEW e, Sparse(N, b, v, M, T, e)
  PROVE  SumOf(e) <= SumOf(d)
<1>1. /\ N \in Nat \ {0} /\ d \in Seq(Nat) /\ Len(d) = N - 1 /\ b[1] \in Nat
      /\ (1 < N => b[1] < b[1 + 1])
  BY DEF Dense
<1>2. M \in Nat \ {0} /\ e \in Seq(Nat) /\ Len(e) = M /\ T[1] = b[1] /\ e[1] = 0
  BY DEF Sparse
<1>3. PICK p : Partial(d, p) /\ SumOf(d) = p[N - 1]
  BY <1>1, SumIs
<1>4. PICK x : Partial(e, x) /\ SumOf(e) = x[M]
  BY <1>2, SumIs
<1>5. p[0] = 0 /\ \A n \in 0 .. N - 1 : p[n] \in Nat /\ p[n] <= p[N - 1]
  BY <1>1, <1>3, PartialGrows DEF Partial
<1>6. x[0] = 0 /\ x[1] = x[1 - 1] + e[1] /\ x[M] \in Nat
  <2>1. x \in [0 .. M -> Nat] /\ x[0] = 0 /\ \A k \in 1 .. M : x[k] = x[k - 1] + e[k]
    BY <1>2, <1>4 DEF Partial
  <2>2. M \in 0 .. M /\ 1 \in 1 .. M
    BY <1>2
  <2> QED BY <2>1, <2>2
<1> DEFINE S == {n \in Nat : n + 1 <= M => \E m : Reached(N, b, T, p, x, n + 1, m)}
<1>7. 0 \in S
  <2>1. Reached(N, b, T, p, x, 1, 1)
    <3>1. x[1] <= p[1 - 1] /\ 1 \in 1 .. N
      BY <1>1, <1>2, <1>5, <1>6
    <3> QED BY <1>1, <1>2, <3>1 DEF Reached
  <2> QED BY <2>1
<1>8. ASSUME NEW n \in Nat, n \in S PROVE n + 1 \in S
  <2> SUFFICES ASSUME (n + 1) + 1 <= M PROVE \E m : Reached(N, b, T, p, x, (n + 1) + 1, m)
    OBVIOUS
  <2>1. n + 1 \in 1 .. M - 1 /\ n + 1 <= M
    BY <1>2
  <2>2. PICK m : Reached(N, b, T, p, x, n + 1, m)
    BY <1>8, <2>1
  <2> QED BY <1>3, <1>4, <2>1, <2>2, NextReached
<1> HIDE DEF S
<1>9. Nat \subseteq S
  BY <1>7, <1>8, Induction
<1>10. PICK m : Reached(N, b, T, p, x, M, m)
  <2>1. M - 1 \in S /\ (M - 1) + 1 = M /\ M <= M
    BY <1>2, <1>9
  <2> QED BY <2>1 DEF S
<1>11. m - 1 \in 0 .. N - 1 /\ N - 1 \in 0 .. N - 1 /\ x[M] <= p[m - 1]
  BY <1>1, <1>10 DEF Reached
<1>12. p[m - 1] <= p[N - 1] /\ p[m - 1] \in Nat /\ p[N - 1] \in Nat
  BY <1>5, <1>11
<1> QED BY <1>3, <1>4, <1>6, <1>11, <1>12

(* The loop of stats_agg_diff_by_sensor draws the differences that         *)
(* stats_agg_diff draws.                                                   *)
LEMMA LoopIsDiffs ==
  ASSUME StatsInv, NEW iv, NEW h, NEW start, NEW N \in Nat \ {0},
         Len(StatsRows({h}, iv, start)) = N,
         \A n \in 1 .. N : StatsRows({h}, iv, start)[n].val \in Nat
  PROVE  BySensorDiffs(h, iv, start) = SqliteDiffs(StatsRows({h}, iv, start))
<1> DEFINE r == StatsRows({h}, iv, start)
           d == SqliteDiffs(r)
           Next(acc, row) ==
             [prev |-> row.val,
              out |-> IF acc.prev = None THEN acc.out
                      ELSE Append(acc.out, IF acc.prev <= row.val THEN row.val - acc.prev ELSE row.val)]
           Loop(g) == g = [n \in 0 .. Len(r) |-> IF n = 0 THEN [prev |-> None, out |-> <<>>] ELSE Next(g[n - 1], r[n])]
           loop == CHOOSE g : Loop(g)
           First(n) == [i \in 1 .. n |-> d[i]]
           f == [n \in 0 .. N |-> IF n = 0 THEN [prev |-> None, out |-> <<>>]
                                  ELSE [prev |-> r[n].val, out |-> First(n - 1)]]
<1>1. BySensorDiffs(h, iv, start) = loop[Len(r)].out
  BY DEF BySensorDiffs
<1>2. Len(r) = N /\ \A n \in 1 .. N : r[n].val \in Nat
  OBVIOUS
<1> HIDE DEF r
<1>3. d \in Seq(Nat) /\ Len(d) = N - 1 /\ \A n \in 1 .. N - 1 : d[n] = Delta(r[n].val, r[n + 1].val)
  BY <1>2, SqliteDiffsAre
<1> HIDE DEF d
<1>4. \A n \in 0 .. N - 1 : First(n) \in Seq(Nat) /\ Len(First(n)) = n
  <2> TAKE n \in 0 .. N - 1
  <2>1. n \in Nat /\ \A i \in 1 .. n : d[i] \in Nat
    BY <1>3
  <2> QED BY <2>1
<1>5. First(0) = <<>> /\ First(N - 1) = d
  <2>1. First(0) = <<>>
    OBVIOUS
  <2>2. First(N - 1) = d
    BY <1>3
  <2> QED BY <2>1, <2>2
<1>6. ASSUME NEW n \in 1 .. N - 1 PROVE Append(First(n - 1), d[n]) = First(n)
  <2>1. n - 1 \in 0 .. N - 1 /\ n \in 0 .. N - 1 /\ (n - 1) + 1 = n /\ d[n] \in Nat
    BY <1>3
  <2>2. First(n - 1) \in Seq(Nat) /\ Len(First(n - 1)) = n - 1 /\ First(n) \in Seq(Nat) /\ Len(First(n)) = n
    BY <1>4, <2>1
  <2>3. \A i \in 1 .. n - 1 : First(n - 1)[i] = d[i]
    OBVIOUS
  <2>4. \A i \in 1 .. n : First(n)[i] = d[i]
    OBVIOUS
  <2> HIDE DEF First
  <2> DEFINE a == Append(First(n - 1), d[n])
  <2>5. a \in Seq(Nat) /\ Len(a) = n /\ a[n] = d[n] /\ \A i \in 1 .. n - 1 : a[i] = d[i]
    BY <2>1, <2>2, <2>3, AppendProperties
  <2> HIDE DEF a
  <2>6. \A i \in 1 .. n : a[i] = First(n)[i]
    <3>1. \A i \in 1 .. n : i = n \/ i \in 1 .. n - 1
      OBVIOUS
    <3> QED BY <2>4, <2>5, <3>1
  <2>7. a = First(n)
    BY <2>2, <2>5, <2>6, SeqEqual
  <2> QED BY <2>7 DEF a
<1> HIDE DEF First
<1>7. f[0] = [prev |-> None, out |-> <<>>]
      /\ \A n \in 1 .. N : f[n] = [prev |-> r[n].val, out |-> First(n - 1)]
  OBVIOUS
<1>8. ASSUME NEW n \in 1 .. N PROVE f[n] = Next(f[n - 1], r[n])
  <2>1. CASE n = 1
    BY <1>5, <1>7, <2>1
  <2>2. CASE n # 1
    <3>1. n - 1 \in 1 .. N - 1 /\ n - 1 \in 1 .. N /\ (n - 1) + 1 = n
      BY <2>2
    <3>2. f[n - 1].prev = r[n - 1].val /\ f[n - 1].out = First((n - 1) - 1)
      BY <1>7, <3>1
    <3>3. r[n - 1].val # None
      BY <1>2, <3>1, QueryAssumption
    <3>4. Append(First((n - 1) - 1), d[n - 1]) = First(n - 1)
      BY <1>6, <3>1
    <3>5. d[n - 1] = IF r[n - 1].val <= r[n].val THEN r[n].val - r[n - 1].val ELSE r[n].val
      BY <1>3, <3>1 DEF Delta
    <3> HIDE DEF f
    <3> QED BY <1>7, <3>2, <3>3, <3>4, <3>5
  <2> QED BY <2>1, <2>2
<1>9. Loop(f)
  <2>1. f = [n \in 0 .. N |-> f[n]]
    OBVIOUS
  <2> HIDE DEF f, Next
  <2>2. \A n \in 0 .. N : f[n] = IF n = 0 THEN [prev |-> None, out |-> <<>>] ELSE Next(f[n - 1], r[n])
    BY <1>7, <1>8
  <2> QED BY <1>2, <2>1, <2>2
<1> HIDE DEF f
<1>10. Loop(loop)
  BY <1>9
<1> HIDE DEF loop
<1>11. \A n \in 0 .. N : f[n] = loop[n]
  <2> HIDE DEF Next
  <2>1. loop[0] = [prev |-> None, out |-> <<>>] /\ \A n \in 1 .. N : loop[n] = Next(loop[n - 1], r[n])
    BY <1>2, <1>10
  <2>2. f[0] = loop[0] /\ \A n \in 1 .. N : f[n - 1] = loop[n - 1] => f[n] = loop[n]
    BY <1>7, <1>8, <2>1
  <2>3. N \in Nat
    OBVIOUS
  <2>4. Alike(N, f, loop)
    BY <2>2 DEF Alike
  <2> QED BY <2>3, <2>4, SameIteration
<1>12. loop[Len(r)] = f[N] /\ f[N].out = First(N - 1)
  <2>1. N \in 0 .. N /\ N \in 1 .. N
    OBVIOUS
  <2>2. f[N] = [prev |-> r[N].val, out |-> First(N - 1)]
    BY <1>7, <2>1
  <2>3. f[N] = loop[N]
    BY <1>11, <2>1
  <2> QED BY <1>2, <2>2, <2>3
<1> QED BY <1>1, <1>5, <1>12 DEF d, r

(* The samples of one sensor in the range.                                 *)
LEMMA SensorSamples ==
  ASSUME StatsInv, NEW h, NEW start
  PROVE  /\ InRange({h}, start) \in SUBSET DOMAIN samples
         /\ \A i \in InRange({h}, start) : samples[i].host = h
BY DEF InRange

(* The rows r list the peaks of the N buckets b that have samples, in       *)
(* order.                                                                  *)
RowsOf(N, b, I, iv, r) ==
  /\ N \in Nat \ {0} /\ b \in [1 .. N -> Buckets(I, iv)]
  /\ \A t \in Buckets(I, iv) : \E n \in 1 .. N : b[n] = t
  /\ \A m, n \in 1 .. N : b[m] \in Nat /\ (m < n => b[m] < b[n])
  /\ Len(r) = N /\ \A n \in 1 .. N : r[n].val = Peak(I, b[n], iv)

(* The buckets of SQLite are those that have samples.                      *)
LEMMA StatsRowsAre ==
  ASSUME StatsInv, NEW iv \in Nat \ {0}, NEW h \in Sensors, NEW start, InRange({h}, start) # {}
  PROVE  \E N, b : RowsOf(N, b, InRange({h}, start), iv, StatsRows({h}, iv, start))
<1> DEFINE I == InRange({h}, start)
           B == Buckets(I, iv)
           N == Cardinality(B)
           b == Ascending(B)
           r == StatsRows({h}, iv, start)
<1>1. I \in SUBSET DOMAIN samples
  BY SensorSamples
<1>2. B \in SUBSET Nat /\ IsFiniteSet(B)
  BY <1>1, BucketsAre
<1>3. B # {}
  BY DEF Buckets
<1>4. r = [n \in DOMAIN b |-> [time |-> b[n], val |-> Peak(I, b[n], iv)]]
  BY DEF StatsRows, Buckets
<1> HIDE DEF r, I
<1>5. b = Enumerated(B)
  BY DEF Ascending, Enumerated
<1>6. /\ N \in Nat /\ b \in [1 .. N -> B] /\ \A x \in B : \E n \in 1 .. N : b[n] = x
      /\ \A m, n \in 1 .. N : m < n => b[m] < b[n]
  <2> HIDE DEF B
  <2> QED BY <1>2, <1>5, EnumeratedInOrder
<1> HIDE DEF b, N, B
<1>7. N # 0
  <2>1. PICK x \in B : TRUE
    BY <1>3
  <2>2. PICK n \in 1 .. N : b[n] = x
    BY <1>6
  <2> QED BY <1>6, <2>2
<1>8. DOMAIN r = 1 .. N /\ Len(r) = N /\ \A n \in 1 .. N : r[n].val = Peak(I, b[n], iv)
  <2>1. DOMAIN b = 1 .. N
    BY <1>6
  <2> QED BY <1>4, <1>6, <2>1
<1>9. \A m, n \in 1 .. N : b[m] \in Nat /\ (m < n => b[m] < b[n])
  BY <1>2, <1>6
<1>10. N \in Nat \ {0} /\ b \in [1 .. N -> B]
  BY <1>6, <1>7
<1>11. RowsOf(N, b, I, iv, r)
  BY <1>6, <1>8, <1>9, <1>10 DEF RowsOf, B
<1> QED BY <1>11 DEF r, I

(* Those of Elasticsearch follow one another from the first to the last.   *)
LEMMA ElasticRowsAre ==
  ASSUME StatsInv, NEW iv \in Nat \ {0}, NEW h \in Sensors, NEW start, InRange({h}, start) # {},
         NEW lo \in Buckets(InRange({h}, start), iv), \A t \in Buckets(InRange({h}, start), iv) : lo <= t
  PROVE  \E M \in Nat \ {0} :
           /\ Len(ElasticRows({h}, iv, start)) = M
           /\ \A n \in 1 .. M :
                ElasticRows({h}, iv, start)[n].val =
                  IF lo + (n - 1) * iv \in Buckets(InRange({h}, start), iv)
                  THEN Peak(InRange({h}, start), lo + (n - 1) * iv, iv) ELSE None
<1> DEFINE I == InRange({h}, start)
           B == Buckets(I, iv)
           M == (Greatest(B) - Least(B)) \div iv + 1
           er == ElasticRows({h}, iv, start)
           T(n) == Least(B) + (n - 1) * iv
<1>1. I \in SUBSET DOMAIN samples
  BY SensorSamples
<1>2. B \in SUBSET Nat /\ IsFiniteSet(B)
  BY <1>1, BucketsAre
<1>3. er = [n \in 1 .. M |-> [time |-> T(n), val |-> IF T(n) \in B THEN Peak(I, T(n), iv) ELSE None]]
  BY DEF ElasticRows, Buckets
<1>4. lo \in B /\ \A t \in B : lo <= t
  OBVIOUS
<1> HIDE DEF er, I, B
<1>5. Least(B) = lo
  <2>1. Least(B) \in B /\ \A y \in B : Least(B) <= y
    BY <1>4 DEF Least
  <2>2. Least(B) <= lo /\ lo <= Least(B) /\ lo \in Nat /\ Least(B) \in Nat
    BY <1>2, <1>4, <2>1
  <2> QED BY <2>2
<1>6. Greatest(B) \in Nat /\ lo <= Greatest(B)
  <2>1. PICK x \in B : \A y \in B : y <= x
    BY <1>2, <1>4, FiniteGreatest
  <2>2. \A y \in B : x >= y
    BY <1>2, <2>1
  <2>3. Greatest(B) \in B
    BY <2>2 DEF Greatest
  <2> QED BY <1>2, <1>4, <2>3
<1>7. M \in Nat \ {0}
  <2>1. Greatest(B) - lo \in Nat
    BY <1>2, <1>4, <1>6
  <2>2. (Greatest(B) - lo) \div iv \in Nat
    BY <2>1
  <2> QED BY <1>5, <2>2
<1> HIDE DEF M
<1>8. Len(er) = M
  BY <1>3, <1>7
<1>9. \A n \in 1 .. M : er[n].val = IF T(n) \in B THEN Peak(I, T(n), iv) ELSE None
  BY <1>3
<1> QED BY <1>5, <1>7, <1>8, <1>9 DEF er, I, B

(* What Elasticsearch draws from them.                                     *)
LEMMA ElasticDiffsAre ==
  ASSUME NEW M \in Nat \ {0}, NEW er, Len(er) = M, \A n \in 1 .. M : er[n].val \in Nat \cup {None}
  PROVE  /\ ElasticDiffs(er) \in Seq(Nat) /\ Len(ElasticDiffs(er)) = M /\ ElasticDiffs(er)[1] = 0
         /\ \A k \in 1 .. M - 1 :
              \/ ElasticDiffs(er)[k + 1] = 0
              \/ /\ er[k].val \in Nat /\ er[k + 1].val \in Nat /\ er[k].val <= er[k + 1].val
                 /\ ElasticDiffs(er)[k + 1] = er[k + 1].val - er[k].val
<1> DEFINE V(n) == er[n].val
           D(i) == IF i = 1 \/ V(i) = None \/ V(i - 1) = None \/ V(i - 1) > V(i) THEN 0 ELSE V(i) - V(i - 1)
           e == ElasticDiffs(er)
<1>1. e = [i \in 1 .. M |-> D(i)]
  BY DEF ElasticDiffs
<1>2. \A n \in 1 .. M : V(n) \in Nat \cup {None}
  OBVIOUS
<1> HIDE DEF V, e
<1>3. \A i \in 1 .. M : i # 1 => i - 1 \in 1 .. M
  OBVIOUS
<1>4. \A i \in 1 .. M : \/ D(i) = 0
                        \/ V(i - 1) \in Nat /\ V(i) \in Nat /\ V(i - 1) <= V(i) /\ D(i) = V(i) - V(i - 1)
  BY <1>2, <1>3
<1>5. \A i \in 1 .. M : D(i) \in Nat
  BY <1>4
<1>6. D(1) = 0
  OBVIOUS
<1> HIDE DEF D
<1>7. e \in Seq(Nat) /\ Len(e) = M
  BY <1>1, <1>5
<1>8. 1 \in 1 .. M /\ \A k \in 1 .. M - 1 : k + 1 \in 1 .. M /\ (k + 1) - 1 = k
  OBVIOUS
<1>9. e[1] = 0
  BY <1>1, <1>6, <1>8
<1>10. \A k \in 1 .. M - 1 : \/ e[k + 1] = 0
                             \/ V(k) \in Nat /\ V(k + 1) \in Nat /\ V(k) <= V(k + 1) /\ e[k + 1] = V(k + 1) - V(k)
  <2> TAKE k \in 1 .. M - 1
  <2>1. e[k + 1] = D(k + 1)
    BY <1>1, <1>8
  <2>2. \/ D(k + 1) = 0
        \/ V(k) \in Nat /\ V(k + 1) \in Nat /\ V(k) <= V(k + 1) /\ D(k + 1) = V(k + 1) - V(k)
    BY <1>4, <1>8
  <2> QED BY <2>1, <2>2
<1> QED BY <1>7, <1>9, <1>10 DEF V, e

(* One sensor's reports: what SQLite shows is covered by what the sensor   *)
(* counted, what Elasticsearch shows by what SQLite shows.                 *)
LEMMA SensorReports ==
  ASSUME StatsInv, NEW iv \in Nat \ {0}, NEW h \in Sensors, NEW start, InRange({h}, start) # {}
  PROVE  LET lines == StatsRows({h}, iv, start)
         IN  /\ SumOf(SqliteDiffs(lines)) <= grown[h]
             /\ SumOf(ElasticDiffs(ElasticRows({h}, iv, start))) <= SumOf(SqliteDiffs(lines))
             /\ BySensorDiffs(h, iv, start) = SqliteDiffs(lines)
<1> DEFINE I == InRange({h}, start)
           B == Buckets(I, iv)
           P(t) == Peak(I, t, iv)
           r == StatsRows({h}, iv, start)
           er == ElasticRows({h}, iv, start)
           d == SqliteDiffs(r)
           e == ElasticDiffs(er)
<1>1. I \in SUBSET DOMAIN samples /\ \A i \in I : samples[i].host = h
  BY SensorSamples
<1>2. B \in SUBSET Nat
  BY <1>1, BucketsAre
<1>3. PICK q : \A t \in B : /\ P(t) \in Nat /\ q[t] \in Nat /\ q[t] <= grown[h]
                            /\ \A u \in B : t < u => Delta(P(t), P(u)) + q[t] <= q[u]
  <2> HIDE DEF I
  <2> QED BY <1>1, PeaksMeasured
<1>4. PICK N, b : RowsOf(N, b, I, iv, r)
  BY StatsRowsAre
<1>5. /\ N \in Nat \ {0} /\ b \in [1 .. N -> B]
      /\ \A t \in B : \E n \in 1 .. N : b[n] = t
      /\ \A m, n \in 1 .. N : b[m] \in Nat /\ (m < n => b[m] < b[n])
      /\ Len(r) = N /\ \A n \in 1 .. N : r[n].val = P(b[n])
  BY <1>4 DEF RowsOf
<1>6. b[1] \in B /\ \A t \in B : b[1] <= t
  <2>1. 1 \in 1 .. N
    BY <1>5
  <2>2. ASSUME NEW t \in B PROVE b[1] <= t
    <3>1. PICK n \in 1 .. N : b[n] = t
      BY <1>5
    <3>2. n = 1 \/ 1 < n
      BY <1>5
    <3>3. b[1] \in Nat /\ b[n] \in Nat /\ (n = 1 \/ b[1] < b[n])
      BY <1>5, <2>1, <3>2
    <3> QED BY <3>1, <3>3
  <2> HIDE DEF B
  <2> QED BY <1>5, <2>1, <2>2
<1>7. PICK M \in Nat \ {0} : /\ Len(er) = M
                             /\ \A n \in 1 .. M : er[n].val = IF b[1] + (n - 1) * iv \in B
                                                              THEN P(b[1] + (n - 1) * iv) ELSE None
  BY <1>6, ElasticRowsAre
<1>8. \A k \in Nat, u \in B :
        /\ b[1] + k * iv \in Nat /\ (b[1] + k * iv < u => b[1] + (k + 1) * iv <= u)
  <2> TAKE k \in Nat, u \in B
  <2>1. PICK i \in I : b[1] = Floor(samples[i].ts, iv)
    BY <1>6 DEF Buckets
  <2>2. PICK j \in I : u = Floor(samples[j].ts, iv)
    BY DEF Buckets
  <2>3. samples[i].ts \in Nat /\ samples[j].ts \in Nat
    BY <1>1, SampleFields
  <2> HIDE DEF I, B
  <2> QED BY <2>1, <2>2, <2>3, FloorGrid
<1> HIDE DEF I, B, P, r, er
<1>82. \A k \in Nat : k * iv \in Nat /\ (k + 1) * iv = k * iv + iv
  BY Multiples
<1>83. 0 * iv = 0 /\ b[1] \in Nat
  <2>1. 0 * iv = 0
    OBVIOUS
  <2>2. b[1] \in Nat
    BY <1>2, <1>6
  <2> QED BY <2>1, <2>2
<1>9. \A n \in 1 .. N : b[n] \in B /\ P(b[n]) \in Nat /\ r[n].val \in Nat /\ q[b[n]] \in Nat /\ q[b[n]] <= grown[h]
  <2> TAKE n \in 1 .. N
  <2>1. b[n] \in B
    BY <1>5
  <2> QED BY <1>3, <1>5, <2>1
<1>10. d \in Seq(Nat) /\ Len(d) = N - 1 /\ \A n \in 1 .. N - 1 : d[n] = Delta(P(b[n]), P(b[n + 1]))
  <2>0. N \in Nat \ {0} /\ Len(r) = N /\ \A n \in 1 .. N : r[n].val \in Nat
    BY <1>5, <1>9
  <2>1. d \in Seq(Nat) /\ Len(d) = N - 1 /\ \A n \in 1 .. N - 1 : d[n] = Delta(r[n].val, r[n + 1].val)
    BY <2>0, SqliteDiffsAre
  <2>2. \A n \in 1 .. N - 1 : n \in 1 .. N /\ n + 1 \in 1 .. N
    BY <2>0
  <2>3. \A n \in 1 .. N : r[n].val = P(b[n])
    BY <1>5
  <2> HIDE DEF d
  <2> QED BY <2>1, <2>2, <2>3
<1> HIDE DEF d
<1>11. SumOf(d) <= grown[h]
  <2> DEFINE c == [n \in 1 .. N |-> q[b[n]]]
  <2>1. \A n \in 1 .. N : c[n] = q[b[n]] /\ c[n] \in Nat /\ c[n] <= grown[h]
    BY <1>9
  <2> HIDE DEF c
  <2>2. ASSUME NEW n \in 1 .. N - 1 PROVE d[n] + c[n] <= c[n + 1]
    <3>1. n \in 1 .. N /\ n + 1 \in 1 .. N /\ n < n + 1
      BY <1>5
    <3>2. b[n] \in B /\ b[n + 1] \in B /\ b[n] < b[n + 1]
      BY <1>5, <1>9, <3>1
    <3>3. Delta(P(b[n]), P(b[n + 1])) + q[b[n]] <= q[b[n + 1]]
      BY <1>3, <3>2
    <3> QED BY <1>10, <2>1, <3>1, <3>3
  <2>3. Len(d) + 1 = N
    BY <1>5, <1>10
  <2>4. SumOf(d) + c[1] <= c[N]
    <3>1. \A n \in 1 .. Len(d) + 1 : c[n] \in Nat
      BY <2>1, <2>3
    <3>2. \A n \in 1 .. Len(d) : d[n] + c[n] <= c[n + 1]
      BY <1>10, <2>2
    <3> QED BY <1>10, <2>3, <3>1, <3>2, Telescope
  <2>5. SumOf(d) \in Nat
    <3>1. PICK p : Partial(d, p) /\ SumOf(d) = p[Len(d)]
      BY <1>10, SumIs
    <3> QED BY <1>10, <3>1 DEF Partial
  <2>6. 1 \in 1 .. N /\ N \in 1 .. N
    BY <1>5
  <2>7. c[1] \in Nat /\ c[N] \in Nat /\ c[N] <= grown[h] /\ grown[h] \in Nat
    BY <2>1, <2>6 DEF StatsInv, SampleTypes
  <2> QED BY <2>4, <2>5, <2>7
<1>12. /\ e \in Seq(Nat) /\ Len(e) = M /\ e[1] = 0
       /\ \A k \in 1 .. M - 1 :
            \/ e[k + 1] = 0
            \/ /\ er[k].val \in Nat /\ er[k + 1].val \in Nat /\ er[k].val <= er[k + 1].val
               /\ e[k + 1] = er[k + 1].val - er[k].val
  <2>1. \A n \in 1 .. M : er[n].val \in Nat \cup {None}
    BY <1>3, <1>7
  <2>2. Len(er) = M
    BY <1>7
  <2> QED BY <2>1, <2>2, ElasticDiffsAre
<1> HIDE DEF e
<1>13. SumOf(e) <= SumOf(d)
  <2> DEFINE v == [n \in 1 .. N |-> P(b[n])]
             T == [n \in 1 .. M |-> b[1] + (n - 1) * iv]
  <2>1. \A n \in 1 .. N : v[n] = P(b[n]) /\ v[n] \in Nat
    BY <1>9
  <2>2. v \in [1 .. N -> Nat]
    BY <1>9
  <2>3. ASSUME NEW n \in 1 .. M PROVE T[n] = b[1] + (n - 1) * iv /\ T[n] \in Nat
    <3>1. n - 1 \in Nat
      OBVIOUS
    <3> QED BY <1>6, <1>8, <3>1
  <2>4. T \in [1 .. M -> Nat]
    BY <2>3
  <2>5. T[1] = b[1]
    <3>1. 1 \in 1 .. M /\ 1 - 1 = 0
      OBVIOUS
    <3>2. T[1] = b[1] + (1 - 1) * iv
      BY <2>3, <3>1
    <3> QED BY <1>83, <3>1, <3>2
  <2> HIDE DEF v, T
  <2>6. Dense(N, b, v, d)
    <3>1. \A n \in 1 .. N - 1 : d[n] = Delta(v[n], v[n + 1])
      <4>1. \A n \in 1 .. N - 1 : n \in 1 .. N /\ n + 1 \in 1 .. N
        BY <1>5
      <4> QED BY <1>10, <2>1, <4>1
    <3>2. b \in [1 .. N -> Nat] /\ \A m, n \in 1 .. N : m < n => b[m] < b[n]
      BY <1>5
    <3> QED BY <1>5, <1>10, <2>2, <3>1, <3>2 DEF Dense
  <2>7. ASSUME NEW k \in 1 .. M - 1
        PROVE  /\ T[k] < T[k + 1] /\ \A m \in 1 .. N : T[k] < b[m] => T[k + 1] <= b[m]
               /\ \/ e[k + 1] = 0
                  \/ \E m, n \in 1 .. N : /\ T[k] = b[m] /\ T[k + 1] = b[n]
                                          /\ v[m] <= v[n] /\ e[k + 1] = v[n] - v[m]
    <3>1. k \in 1 .. M /\ k + 1 \in 1 .. M /\ k - 1 \in Nat /\ (k - 1) + 1 = k /\ (k + 1) - 1 = k
      OBVIOUS
    <3>2. T[k] = b[1] + (k - 1) * iv /\ T[k + 1] = b[1] + k * iv /\ T[k] \in Nat /\ T[k + 1] \in Nat
      BY <2>3, <3>1
    <3>3. \A u \in B : (b[1] + (k - 1) * iv < u => b[1] + k * iv <= u)
      BY <1>8, <3>1
    <3>4. T[k] < T[k + 1]
      <4>1. b[1] \in Nat /\ (k - 1) * iv \in Int /\ k * iv = (k - 1) * iv + iv
        <5> DEFINE j == k - 1
        <5>1. j \in Nat /\ j + 1 = k
          BY <3>1
        <5> HIDE DEF j
        <5>2. j * iv \in Nat /\ k * iv = j * iv + iv
          BY <1>82, <5>1
        <5> QED BY <1>83, <5>2 DEF j
      <4> DEFINE x == (k - 1) * iv
                 y == k * iv
      <4>2. T[k] = b[1] + x /\ T[k + 1] = b[1] + y /\ y = x + iv /\ x \in Int
        BY <3>2, <4>1
      <4> HIDE DEF x, y
      <4> QED BY <4>1, <4>2
    <3>5. \A m \in 1 .. N : T[k] < b[m] => T[k + 1] <= b[m]
      BY <1>9, <3>2, <3>3
    <3>6. ASSUME e[k + 1] # 0
          PROVE  \E m, n \in 1 .. N : /\ T[k] = b[m] /\ T[k + 1] = b[n]
                                      /\ v[m] <= v[n] /\ e[k + 1] = v[n] - v[m]
      <4>1. /\ er[k].val \in Nat /\ er[k + 1].val \in Nat /\ er[k].val <= er[k + 1].val
            /\ e[k + 1] = er[k + 1].val - er[k].val
        BY <1>12, <3>6
      <4>2. /\ er[k].val = IF T[k] \in B THEN P(T[k]) ELSE None
            /\ er[k + 1].val = IF T[k + 1] \in B THEN P(T[k + 1]) ELSE None
        BY <1>7, <3>1, <3>2
      <4>3. None \notin Nat
        BY QueryAssumption
      <4>4. T[k] \in B /\ T[k + 1] \in B /\ er[k].val = P(T[k]) /\ er[k + 1].val = P(T[k + 1])
        BY <4>1, <4>2, <4>3
      <4>5. PICK m \in 1 .. N, n \in 1 .. N : b[m] = T[k] /\ b[n] = T[k + 1]
        BY <1>5, <4>4
      <4>6. v[m] = er[k].val /\ v[n] = er[k + 1].val
        BY <2>1, <4>4, <4>5
      <4> QED BY <4>1, <4>5, <4>6
    <3> QED BY <3>4, <3>5, <3>6
  <2>8. Sparse(N, b, v, M, T, e)
    BY <1>7, <1>12, <2>4, <2>5, <2>7 DEF Sparse
  <2> QED BY <2>6, <2>8, SparseSum
<1>14. BySensorDiffs(h, iv, start) = d
  <2>1. Len(r) = N /\ \A n \in 1 .. N : r[n].val \in Nat
    BY <1>5, <1>9
  <2> QED BY <1>5, <2>1, LoopIsDiffs DEF d, r
<1> QED BY <1>11, <1>13, <1>14 DEF d, e, er, r

(* The reports of every sensor in the range.                               *)
LEMMA StatsInvGrowth == StatsInv => DiffWithinGrowth
<1> SUFFICES ASSUME StatsInv, NEW iv \in 1 .. 3, NEW start \in 0 .. 1, NEW h \in DOMAIN BySensorRows(iv, start)
             PROVE  LET lines == BySensorRows(iv, start)[h]
                    IN  /\ SumOf(SqliteDiffs(lines)) <= grown[h]
                        /\ SumOf(ElasticBySensorDiffs(iv, start)[h]) <= SumOf(SqliteDiffs(lines))
                        /\ ElasticBySensorDiffs(iv, start)[h] = ElasticDiffs(ElasticRows({h}, iv, start))
                        /\ BySensorDiffs(h, iv, start) = SqliteDiffs(lines)
  BY DEF DiffWithinGrowth
<1> DEFINE H == {samples[i].host : i \in InRange(Sensors, start)}
<1>1. h \in H
  BY DEF BySensorRows
<1>2. PICK i \in InRange(Sensors, start) : samples[i].host = h
  BY <1>1
<1>3. h \in Sensors /\ i \in InRange({h}, start)
  BY <1>2 DEF InRange
<1>4. BySensorRows(iv, start)[h] = StatsRows({h}, iv, start)
  BY <1>1 DEF BySensorRows
<1>5. ElasticBySensor(iv, start) = [k \in H |-> ElasticRows({k}, iv, start)]
  BY DEF ElasticBySensor
<1>6. ElasticBySensorDiffs(iv, start)[h] = ElasticDiffs(ElasticRows({h}, iv, start))
  <2>1. DOMAIN ElasticBySensor(iv, start) = H /\ ElasticBySensor(iv, start)[h] = ElasticRows({h}, iv, start)
    BY <1>1, <1>5
  <2> QED BY <1>1, <2>1 DEF ElasticBySensorDiffs
<1>7. iv \in Nat \ {0}
  OBVIOUS
<1> QED BY <1>3, <1>4, <1>6, <1>7, SensorReports

(* What the report of a sensor's traffic adds up to never exceeds what the *)
(* sensor counted, however often Suricata restarted and wherever the       *)
(* buckets fall; Elasticsearch never shows more than SQLite; and a sensor  *)
(* reads the same on its own and among all (stats_agg_diff and             *)
(* stats_agg_diff_by_sensor of both datastores).                           *)
THEOREM DifferencesAreReal == QuerySpec => []DiffWithinGrowth
<1>1. StatsInv => DiffWithinGrowth
  BY StatsInvGrowth
<1> QED BY <1>1, StatsInit, StatsStep, PTL DEF QuerySpec

-----------------------------------------------------------------------------
(* Histograms.  CellOf(R, n, iv) is the bucket of the events R whose time  *)
(* is in the n-th interval; a grid lists K of them from the a-th on.       *)
Counted(R, t, iv) == Cardinality({e \in R : Floor(e.ts, iv) = t})
CellOf(R, n, iv) == [time |-> n * iv, count |-> Counted(R, n * iv, iv)]
Grid(R, a, K, iv) == [n \in 1 .. K |-> CellOf(R, a + n - 1, iv)]

Bucket == [time : Nat, count : Nat]

(* The interval that a time is in.                                         *)
LEMMA CellFacts ==
  ASSUME NEW iv \in Nat \ {0}, NEW t \in Nat, NEW u \in Nat
  PROVE  /\ t \div iv \in Nat /\ Floor(t, iv) = (t \div iv) * iv
         /\ \A n \in Nat : Floor(t, iv) = n * iv <=> t \div iv = n
         /\ t <= u => t \div iv <= u \div iv
<1> DEFINE a == t \div iv
           b == u \div iv
<1>1. /\ a \in Nat /\ a * iv \in Nat /\ a * iv <= t /\ t < a * iv + iv
      /\ b \in Nat /\ b * iv \in Nat /\ b * iv <= u /\ u < b * iv + iv
  OBVIOUS
<1>2. Floor(t, iv) = a * iv
  BY DEF Floor
<1> HIDE DEF a, b
<1>3. \A n \in Nat : a * iv = n * iv <=> a = n
  BY <1>1, Multiples
<1>4. b < a => b * iv + iv <= a * iv
  BY <1>1, Multiples
<1>5. t <= u => a <= b
  BY <1>1, <1>4
<1> QED BY <1>1, <1>2, <1>3, <1>5 DEF a, b

(* Events can be counted, and their times are numbers.                     *)
LEMMA EventsAre ==
  ASSUME NEW R \in SUBSET Catalogue
  PROVE  /\ IsFiniteSet(R) /\ Cardinality(R) \in Nat
         /\ \A e \in R : e.ts \in Nat
         /\ \A t, iv : Counted(R, t, iv) \in Nat
<1>1. IsFiniteSet(R)
  BY QueryAssumption, FS_Subset
<1>2. \A e \in R : e.ts \in Nat
  BY QueryAssumption DEF IsEvent
<1>3. \A T \in SUBSET R : Cardinality(T) \in Nat
  BY <1>1, FS_Subset, FS_CardinalityType
<1>4. \A t, iv : Counted(R, t, iv) \in Nat
  BY <1>3 DEF Counted
<1> QED BY <1>1, <1>2, <1>3, <1>4

(* A bucket has a time and a count.                                        *)
LEMMA CellIs ==
  ASSUME NEW R \in SUBSET Catalogue, NEW n \in Nat, NEW iv \in Nat \ {0}
  PROVE  CellOf(R, n, iv) \in Bucket
<1>1. n * iv \in Nat
  BY Multiples
<1> QED BY <1>1, EventsAre DEF CellOf, Bucket

IsGrid(g, R, a, K, iv) ==
  /\ g \in Seq(Bucket) /\ Len(g) = K /\ DOMAIN g = 1 .. K
  /\ \A n \in 1 .. K : g[n] = CellOf(R, a + n - 1, iv)

(* A grid is a sequence of buckets.                                        *)
LEMMA GridIs ==
  ASSUME NEW R \in SUBSET Catalogue, NEW a \in Nat, NEW K \in Nat, NEW iv \in Nat \ {0}
  PROVE  IsGrid(Grid(R, a, K, iv), R, a, K, iv)
<1> DEFINE C(n) == CellOf(R, a + n - 1, iv)
<1>3. \A n \in 1 .. K : a + n - 1 \in Nat
  OBVIOUS
<1>4. \A n \in 1 .. K : C(n) \in Bucket
  BY <1>3, CellIs
<1>5. Grid(R, a, K, iv) = [n \in 1 .. K |-> C(n)]
  BY DEF Grid
<1> HIDE DEF C
<1>6. Grid(R, a, K, iv) \in Seq(Bucket) /\ Len(Grid(R, a, K, iv)) = K
      /\ DOMAIN Grid(R, a, K, iv) = 1 .. K /\ \A n \in 1 .. K : Grid(R, a, K, iv)[n] = C(n)
  BY <1>4, <1>5
<1> QED BY <1>6 DEF C, IsGrid

Continues(s, R, a, K, iv) == \A j \in 1 .. Len(s) : s[j] = CellOf(R, a + K + j - 1, iv)

(* Putting the next buckets behind a grid.                                 *)
LEMMA GridExtends ==
  ASSUME NEW R \in SUBSET Catalogue, NEW a \in Nat, NEW K \in Nat, NEW iv \in Nat \ {0},
         NEW s \in Seq(Bucket), Continues(s, R, a, K, iv)
  PROVE  Grid(R, a, K, iv) \o s = Grid(R, a, K + Len(s), iv)
<1> DEFINE g == Grid(R, a, K, iv)
           h == Grid(R, a, K + Len(s), iv)
           x == g \o s
           d == Len(s)
<1>1. d \in Nat
  OBVIOUS
<1>2. IsGrid(g, R, a, K, iv)
  BY GridIs
<1>3. IsGrid(h, R, a, K + d, iv)
  <2>1. K + d \in Nat
    BY <1>1
  <2> QED BY <2>1, GridIs
<1> HIDE DEF g, h
<1>4. x \in Seq(Bucket) /\ Len(x) = K + d
      /\ \A i \in 1 .. K + d : x[i] = IF i <= K THEN g[i] ELSE s[i - K]
  BY <1>2, ConcatProperties DEF IsGrid
<1> HIDE DEF x
<1>5. ASSUME NEW i \in 1 .. K + d PROVE x[i] = h[i]
  <2>1. CASE i <= K
    BY <1>2, <1>3, <1>4, <2>1 DEF IsGrid
  <2>2. CASE ~(i <= K)
    <3>1. i - K \in 1 .. d /\ a + K + (i - K) - 1 = a + i - 1
      BY <1>1, <2>2
    <3>2. s[i - K] = CellOf(R, a + K + (i - K) - 1, iv)
      BY <3>1 DEF d, Continues
    <3> QED BY <1>3, <1>4, <2>2, <3>1, <3>2 DEF IsGrid
  <2> QED BY <2>1, <2>2
<1>6. x = h
  BY <1>3, <1>4, <1>5, SeqEqual DEF IsGrid
<1> QED BY <1>6 DEF x, g, h

(* The time of every event is in one of the K intervals from the a-th on.  *)
Covers(R, a, K, iv) == \A e \in R : a <= e.ts \div iv /\ e.ts \div iv < a + K

(* The counts of a grid that covers the events add up to their number.     *)
LEMMA GridTotal ==
  ASSUME NEW R \in SUBSET Catalogue, NEW a \in Nat, NEW K \in Nat, NEW iv \in Nat \ {0},
         Covers(R, a, K, iv)
  PROVE  Total(Grid(R, a, K, iv)) = Cardinality(R)
<1> DEFINE g == Grid(R, a, K, iv)
<1>1. IsGrid(g, R, a, K, iv)
  BY GridIs
<1> HIDE DEF g
<1> DEFINE s == [i \in DOMAIN g |-> g[i].count]
           U(n) == {e \in R : e.ts \div iv < a + n}
<1>2. s \in Seq(Nat) /\ Len(s) = K /\ \A n \in 1 .. K : s[n] = Counted(R, (a + n - 1) * iv, iv)
  <2>1. \A n \in 1 .. K : g[n].count \in Nat /\ g[n].count = Counted(R, (a + n - 1) * iv, iv)
    <3>1. \A t : Counted(R, t, iv) \in Nat
      BY EventsAre
    <3>2. \A n : CellOf(R, n, iv).count = Counted(R, n * iv, iv)
      BY DEF CellOf
    <3> QED BY <1>1, <3>1, <3>2 DEF IsGrid
  <2>2. DOMAIN g = 1 .. K
    BY <1>1 DEF IsGrid
  <2> DEFINE c(n) == g[n].count
  <2>3. s = [n \in 1 .. K |-> c(n)]
    BY <2>2
  <2>4. \A n \in 1 .. K : c(n) \in Nat /\ c(n) = Counted(R, (a + n - 1) * iv, iv)
    BY <2>1
  <2> HIDE DEF s, c
  <2> QED BY <2>3, <2>4
<1>3. Total(g) = SumOf(s)
  BY DEF Total
<1> HIDE DEF s
<1>4. PICK f : Partial(s, f) /\ SumOf(s) = f[K]
  BY <1>2, SumIs
<1>5. f \in [0 .. K -> Nat] /\ f[0] = 0 /\ \A k \in 1 .. K : f[k] = f[k - 1] + s[k]
  BY <1>2, <1>4 DEF Partial
<1> DEFINE S == {n \in Nat : n <= K => f[n] = Cardinality(U(n))}
<1>6. 0 \in S
  <2>1. ASSUME NEW e \in R PROVE ~(e.ts \div iv < a + 0)
    <3>1. e.ts \div iv \in Nat /\ a <= e.ts \div iv
      BY EventsAre, CellFacts DEF Covers
    <3> QED BY <3>1
  <2>2. U(0) = {}
    BY <2>1
  <2>3. Cardinality(U(0)) = 0
    BY <2>2, FS_EmptySet
  <2> HIDE DEF U
  <2> QED BY <1>5, <2>3
<1>7. ASSUME NEW n \in Nat, n \in S PROVE n + 1 \in S
  <2> SUFFICES ASSUME n + 1 <= K PROVE f[n + 1] = Cardinality(U(n + 1))
    OBVIOUS
  <2> DEFINE V == {e \in R : Floor(e.ts, iv) = (a + n) * iv}
  <2>1. \A e \in R : Floor(e.ts, iv) = (a + n) * iv <=> e.ts \div iv = a + n
    <3>1. \A e \in R : e.ts \in Nat
      BY EventsAre
    <3>2. \A t \in Nat, m \in Nat : Floor(t, iv) = m * iv <=> t \div iv = m
      BY CellFacts
    <3>3. a + n \in Nat
      OBVIOUS
    <3> QED BY <3>1, <3>2, <3>3
  <2>2. \A e \in R : e.ts \div iv \in Nat
    BY EventsAre, CellFacts
  <2>3. U(n + 1) = U(n) \cup V /\ U(n) \cap V = {}
    <3>1. \A e \in R : e.ts \div iv < a + (n + 1) <=> e.ts \div iv < a + n \/ e.ts \div iv = a + n
      BY <2>2
    <3>2. \A e \in R : ~(e.ts \div iv < a + n /\ e.ts \div iv = a + n)
      BY <2>2
    <3> QED BY <2>1, <3>1, <3>2
  <2>4. IsFiniteSet(U(n)) /\ IsFiniteSet(V)
    BY EventsAre, FS_Subset
  <2>5. V \in SUBSET R /\ U(n) \in SUBSET R
    OBVIOUS
  <2> HIDE DEF U
  <2>6. Cardinality(V) = s[n + 1]
    <3>1. n + 1 \in 1 .. K /\ a + (n + 1) - 1 = a + n
      OBVIOUS
    <3> QED BY <1>2, <3>1 DEF Counted
  <2> HIDE DEF V
  <2>7. Cardinality(U(n + 1)) = Cardinality(U(n)) + Cardinality(V)
    <3>1. Cardinality({}) = 0
      BY FS_EmptySet
    <3>2. Cardinality(U(n) \cup V) = Cardinality(U(n)) + Cardinality(V) - Cardinality(U(n) \cap V)
      BY <2>4, FS_Union
    <3>3. Cardinality(U(n)) \in Nat /\ Cardinality(V) \in Nat
      BY <2>4, FS_CardinalityType
    <3>4. Cardinality(U(n + 1)) = Cardinality(U(n)) + Cardinality(V) - 0
      BY <2>3, <3>1, <3>2
    <3> QED BY <3>3, <3>4
  <2>8. f[n + 1] = f[n] + s[n + 1] /\ f[n] = Cardinality(U(n))
    <3>1. n + 1 \in 1 .. K /\ (n + 1) - 1 = n /\ n <= K
      OBVIOUS
    <3> QED BY <1>5, <1>7, <3>1
  <2> QED BY <2>6, <2>7, <2>8
<1> HIDE DEF S
<1>8. Nat \subseteq S
  BY <1>6, <1>7, Induction
<1>9. f[K] = Cardinality(U(K))
  <2> HIDE DEF U
  <2>1. K \in S /\ K <= K
    BY <1>8
  <2> QED BY <2>1 DEF S
<1>10. U(K) = R
  BY DEF Covers
<1> HIDE DEF U
<1> QED BY <1>3, <1>4, <1>9, <1>10 DEF g

(* Its buckets follow one another.                                         *)
LEMMA GridTiles ==
  ASSUME NEW R \in SUBSET Catalogue, NEW a \in Nat, NEW K \in Nat, NEW iv \in Nat \ {0}
  PROVE  Tiles(Grid(R, a, K, iv), iv)
<1> DEFINE g == Grid(R, a, K, iv)
<1>1. IsGrid(g, R, a, K, iv)
  BY GridIs
<1> HIDE DEF g
<1>2. ASSUME NEW i \in 1 .. K - 1 PROVE g[i + 1].time = g[i].time + iv
  <2> DEFINE n == a + i - 1
  <2>1. i \in 1 .. K /\ i + 1 \in 1 .. K /\ n \in Nat /\ a + (i + 1) - 1 = n + 1
    OBVIOUS
  <2>2. g[i].time = n * iv /\ g[i + 1].time = (n + 1) * iv
    BY <1>1, <2>1 DEF CellOf, IsGrid
  <2> HIDE DEF n
  <2>3. (n + 1) * iv = n * iv + iv
    BY <2>1, Multiples
  <2> QED BY <2>2, <2>3
<1> QED BY <1>1, <1>2 DEF Tiles, g, IsGrid

-----------------------------------------------------------------------------
(* The histogram of SQLite. *)

(* Dividing a multiple and a remainder.                                    *)
LEMMA Quotient ==
  ASSUME NEW iv \in Nat \ {0}, NEW d \in Nat, NEW r \in 0 .. iv - 1
  PROVE  (d * iv + r) \div iv = d
<1> DEFINE t == d * iv + r
           q == t \div iv
<1>1. t \in Nat /\ d * iv \in Nat
  OBVIOUS
<1>2. d * iv <= t /\ t < d * iv + iv
  BY <1>1
<1> HIDE DEF t
<1>3. q \in Nat /\ q * iv \in Nat /\ q * iv <= t /\ t < q * iv + iv
  BY <1>1
<1> HIDE DEF q
<1>4. (q < d => q * iv + iv <= d * iv) /\ (d < q => d * iv + iv <= q * iv)
  BY <1>3, Multiples
<1>5. ~(q < d) /\ ~(d < q)
  <2> DEFINE x == d * iv
             y == q * iv
  <2>1. x \in Nat /\ y \in Nat /\ x <= t /\ t < x + iv /\ y <= t /\ t < y + iv
        /\ (q < d => y + iv <= x) /\ (d < q => x + iv <= y)
    BY <1>1, <1>2, <1>3, <1>4
  <2> HIDE DEF x, y
  <2> QED BY <1>1, <2>1
<1>6. q = d
  BY <1>3, <1>5
<1> QED BY <1>6 DEF q, t

(* Empty buckets, one interval after the other.                            *)
IsGap(z, x, d, iv) ==
  /\ z \in Seq(Bucket) /\ Len(z) = d
  /\ \A n \in 1 .. d : z[n] = [time |-> (x + n - 1) * iv, count |-> 0]

(* The loop that fills with zeros adds those up to the end, which may be   *)
(* anywhere in the interval after the last.                                *)
LEMMA ZerosAre ==
  ASSUME NEW iv \in Nat \ {0}, NEW x \in Nat, NEW d \in Nat \ {0}, NEW r \in 1 .. iv
  PROVE  IsGap(Zeros(x * iv, (x + d - 1) * iv + r, iv), x, d, iv)
<1> DEFINE from == x * iv
           to == (x + d - 1) * iv + r
           L == (to - from + iv - 1) \div iv
           Z(n) == [time |-> from + (n - 1) * iv, count |-> 0]
<1>1. from \in Nat /\ to \in Nat /\ to = from + (d - 1) * iv + r /\ (d - 1) * iv \in Nat
  <2> DEFINE k == d - 1
  <2>1. k \in Nat /\ x + d - 1 = x + k
    OBVIOUS
  <2> HIDE DEF k
  <2>2. (x + k) * iv = x * iv + k * iv /\ x * iv \in Nat /\ k * iv \in Nat
    BY <2>1, Multiples
  <2>3. (x + d - 1) * iv = (x + k) * iv
    BY <2>1
  <2> QED BY <2>2, <2>3 DEF k
<1>2. d * iv = (d - 1) * iv + iv /\ d * iv \in Nat
  <2> DEFINE k == d - 1
  <2>1. k \in Nat /\ d = k + 1
    OBVIOUS
  <2> HIDE DEF k
  <2>2. (k + 1) * iv = k * iv + 1 * iv /\ 1 * iv = iv /\ d * iv \in Nat
    BY <2>1, Multiples
  <2> QED BY <2>1, <2>2 DEF k
<1>3. L = d
  <2>1. to - from + iv - 1 = d * iv + (r - 1) /\ r - 1 \in 0 .. iv - 1
    <3> DEFINE u == (d - 1) * iv
               v == d * iv
    <3>1. u \in Nat /\ v \in Nat /\ v = u + iv /\ to = from + u + r
      BY <1>1, <1>2
    <3> HIDE DEF u, v, to, from
    <3>2. to - from + iv - 1 = v + (r - 1)
      BY <1>1, <3>1
    <3> QED BY <3>2 DEF v
  <2>2. (d * iv + (r - 1)) \div iv = d
    BY <2>1, Quotient
  <2> HIDE DEF to, from
  <2> QED BY <2>1, <2>2
<1>4. ~(to <= from)
  <2> DEFINE u == (d - 1) * iv
  <2>1. u \in Nat /\ to = from + u + r
    BY <1>1
  <2> HIDE DEF u, to, from
  <2> QED BY <1>1, <2>1
<1>5. Zeros(from, to, iv) = [n \in 1 .. L |-> Z(n)]
  <2> HIDE DEF from, to
  <2> QED BY <1>4 DEF Zeros
<1>6. \A n \in 1 .. d : Z(n) = [time |-> (x + n - 1) * iv, count |-> 0] /\ Z(n) \in Bucket
  <2> TAKE n \in 1 .. d
  <2> DEFINE k == n - 1
  <2>1. k \in Nat /\ x + n - 1 = x + k
    OBVIOUS
  <2> HIDE DEF k
  <2>2. (x + k) * iv = x * iv + k * iv /\ (x + k) * iv \in Nat
    BY <2>1, Multiples
  <2>3. (x + n - 1) * iv = from + (n - 1) * iv /\ (x + n - 1) * iv \in Nat
    BY <2>1, <2>2 DEF k
  <2> HIDE DEF from
  <2> QED BY <2>3 DEF Bucket
<1> HIDE DEF Z
<1>7. Zeros(from, to, iv) = [n \in 1 .. d |-> Z(n)]
  BY <1>3, <1>5
<1> HIDE DEF from, to, L
<1>8. Zeros(from, to, iv) \in Seq(Bucket) /\ Len(Zeros(from, to, iv)) = d
  BY <1>6, <1>7
<1>9. IsGap(Zeros(from, to, iv), x, d, iv)
  BY <1>6, <1>7, <1>8 DEF IsGap
<1> QED BY <1>9 DEF from, to

(* No event is in the intervals from x on, up to and without y.            *)
Quiet(R, x, y, iv) == \A e \in R : ~(x <= e.ts \div iv /\ e.ts \div iv < y)

Fits(z, R, a, K, d, iv) ==
  /\ R \in SUBSET Catalogue /\ {a, K, d} \subseteq Nat /\ iv \in Nat \ {0}
  /\ IsGap(z, a + K, d, iv) /\ Quiet(R, a + K, a + K + d, iv)

(* Zeros behind a grid are the next buckets where no event is.             *)
LEMMA GapFits ==
  ASSUME NEW z, NEW R, NEW a, NEW K, NEW d, NEW iv, Fits(z, R, a, K, d, iv)
  PROVE  Grid(R, a, K, iv) \o z = Grid(R, a, K + d, iv)
<1>0. /\ R \in SUBSET Catalogue /\ a \in Nat /\ K \in Nat /\ d \in Nat /\ iv \in Nat \ {0}
      /\ IsGap(z, a + K, d, iv) /\ Quiet(R, a + K, a + K + d, iv)
  BY DEF Fits
<1> USE <1>0
<1>1. z \in Seq(Bucket) /\ Len(z) = d
  BY <1>0 DEF IsGap
<1>2. ASSUME NEW j \in 1 .. d PROVE z[j] = CellOf(R, a + K + j - 1, iv)
  <2> DEFINE n == a + K + j - 1
             V == {e \in R : Floor(e.ts, iv) = n * iv}
  <2>1. n \in Nat /\ a + K <= n /\ n < a + K + d
    OBVIOUS
  <2>2. z[j] = [time |-> n * iv, count |-> 0]
    BY <1>0 DEF IsGap
  <2> HIDE DEF n
  <2>3. \A e \in R : e.ts \in Nat
    BY EventsAre
  <2>4. \A t \in Nat, m \in Nat : Floor(t, iv) = m * iv <=> t \div iv = m
    BY CellFacts
  <2>5. \A e \in R : e.ts \div iv # n
    BY <1>0, <2>1 DEF Quiet
  <2>6. V = {}
    BY <2>1, <2>3, <2>4, <2>5
  <2>7. Counted(R, n * iv, iv) = 0
    BY <2>6, FS_EmptySet DEF Counted
  <2>8. CellOf(R, n, iv) = [time |-> n * iv, count |-> 0]
    BY <2>7 DEF CellOf
  <2> QED BY <2>2, <2>8 DEF n
<1>3. Continues(z, R, a, K, iv)
  BY <1>1, <1>2 DEF Continues
<1>4. Grid(R, a, K, iv) \o z = Grid(R, a, K + Len(z), iv)
  <2>1. \A s \in Seq(Bucket) : Continues(s, R, a, K, iv) => Grid(R, a, K, iv) \o s = Grid(R, a, K + Len(s), iv)
    BY GridExtends
  <2> QED BY <1>1, <1>3, <2>1
<1> QED BY <1>1, <1>4

RowFits(R, a, K, c, iv) ==
  /\ R \in SUBSET Catalogue /\ {a, K, c} \subseteq Nat /\ iv \in Nat \ {0}
  /\ a + K <= c /\ Quiet(R, a + K, c, iv)

(* One row of the GROUP BY: the grid now ends with the row's bucket.       *)
LEMMA RowFills ==
  ASSUME NEW R, NEW a, NEW K, NEW c, NEW iv, RowFits(R, a, K, c, iv)
  PROVE  Fill([out |-> Grid(R, a, K, iv), next |-> (a + K) * iv], CellOf(R, c, iv), iv)
           = [out |-> Grid(R, a, c - a + 1, iv), next |-> (c + 1) * iv]
<1> DEFINE d == c - (a + K)
           g == Grid(R, a, K, iv)
           acc == [out |-> g, next |-> (a + K) * iv]
           row == CellOf(R, c, iv)
           gap == Zeros(acc.next, row.time, iv)
<1>0. /\ R \in SUBSET Catalogue /\ a \in Nat /\ K \in Nat /\ c \in Nat /\ iv \in Nat \ {0}
      /\ a + K <= c /\ Quiet(R, a + K, c, iv)
  BY DEF RowFits
<1> USE <1>0
<1>1. d \in Nat /\ c = a + K + d /\ K + d \in Nat /\ (K + d) + 1 = c - a + 1
  OBVIOUS
<1>2. row.time = c * iv /\ row \in Bucket
  BY CellIs DEF CellOf
<1>3. gap = Zeros((a + K) * iv, c * iv, iv)
  BY <1>2
<1>4. IsGap(gap, a + K, d, iv)
  <2>1. CASE d = 0
    <3>1. c = a + K
      BY <1>1, <2>1
    <3>2. c * iv \in Nat
      BY Multiples
    <3>3. Zeros((a + K) * iv, c * iv, iv) = <<>>
      BY <3>1, <3>2 DEF Zeros
    <3>4. <<>> \in Seq(Bucket) /\ Len(<<>>) = 0
      OBVIOUS
    <3>5. gap = <<>>
      BY <1>3, <3>3
    <3> HIDE DEF d, gap
    <3> QED BY <2>1, <3>4, <3>5 DEF IsGap
  <2>2. CASE d # 0
    <3>1. iv \in 1 .. iv /\ d \in Nat \ {0} /\ a + K \in Nat
      BY <1>1, <2>2
    <3> DEFINE k == (a + K) + d - 1
    <3>2. k \in Nat /\ c = k + 1
      BY <1>1, <2>2
    <3>3. IsGap(Zeros((a + K) * iv, k * iv + iv, iv), a + K, d, iv)
      <4> HIDE DEF d
      <4> QED BY <3>1, ZerosAre
    <3> HIDE DEF k
    <3>4. (k + 1) * iv = k * iv + 1 * iv /\ 1 * iv = iv
      BY <3>2, Multiples
    <3>5. c * iv = k * iv + iv
      BY <3>2, <3>4
    <3> QED BY <1>3, <3>3, <3>5
  <2> QED BY <2>1, <2>2
<1> HIDE DEF d, gap
<1>5. g \o gap = Grid(R, a, K + d, iv)
  <2>1. Quiet(R, a + K, a + K + d, iv)
    BY <1>1
  <2> HIDE DEF d, gap
  <2>2. Grid(R, a, K, iv) \o gap = Grid(R, a, K + d, iv)
    <3>1. Fits(gap, R, a, K, d, iv)
      BY <1>1, <1>4, <2>1 DEF Fits
    <3> QED BY <3>1, GapFits
  <2> QED BY <2>2
<1>6. Grid(R, a, K + d, iv) \o <<row>> = Grid(R, a, c - a + 1, iv)
  <2> HIDE DEF row
  <2> DEFINE s == <<row>>
  <2>1. s \in Seq(Bucket) /\ Len(s) = 1 /\ s[1] = row
    BY <1>2
  <2> HIDE DEF s
  <2>2. Continues(s, R, a, K + d, iv)
    <3>1. a + (K + d) + 1 - 1 = c
      BY <1>1
    <3> QED BY <2>1, <3>1 DEF row, Continues
  <2>3. Grid(R, a, K + d, iv) \o s = Grid(R, a, (K + d) + Len(s), iv)
    <3>1. \A k \in Nat : \A t \in Seq(Bucket) :
            Continues(t, R, a, k, iv) => Grid(R, a, k, iv) \o t = Grid(R, a, k + Len(t), iv)
      BY GridExtends
    <3> QED BY <1>1, <2>1, <2>2, <3>1
  <2> QED BY <1>1, <2>1, <2>3 DEF s
<1>7. acc.next + Len(gap) * iv + iv = (c + 1) * iv
  <2>1. Len(gap) = d /\ a + K \in Nat
    BY <1>4 DEF IsGap
  <2> DEFINE b == a + K
  <2>2. b \in Nat /\ c = b + d /\ acc.next = b * iv
    BY <1>1
  <2> HIDE DEF b, acc
  <2>3. (b + d) * iv = b * iv + d * iv /\ (c + 1) * iv = c * iv + 1 * iv /\ 1 * iv = iv
        /\ b * iv \in Nat /\ d * iv \in Nat
    BY <1>1, <2>2, Multiples
  <2> QED BY <2>1, <2>2, <2>3
<1>8. Fill(acc, row, iv) = [out |-> g \o gap \o <<row>>, next |-> acc.next + Len(gap) * iv + iv]
  BY DEF Fill, gap
<1>9. acc.out = g
  OBVIOUS
<1> HIDE DEF acc, row
<1>10. Fill(acc, row, iv) = [out |-> Grid(R, a, c - a + 1, iv), next |-> (c + 1) * iv]
  BY <1>5, <1>6, <1>7, <1>8
<1> QED BY <1>10 DEF acc, row, g

(* The rows of the GROUP BY are the buckets that have events, in order.    *)
GroupsOf(N, c, R, iv) ==
  /\ N \in Nat /\ c \in [1 .. N -> Nat]
  /\ Len(Grouped(R, iv)) = N /\ \A n \in 1 .. N : Grouped(R, iv)[n] = CellOf(R, c[n], iv)
  /\ \A n \in 1 .. N : \E e \in R : e.ts \div iv = c[n]
  /\ \A e \in R : \E n \in 1 .. N : c[n] = e.ts \div iv
  /\ \A m, n \in 1 .. N : m < n => c[m] < c[n]

(* Grouped has such rows, whatever the events.                             *)
LEMMA GroupsAre ==
  ASSUME NEW R \in SUBSET Catalogue, NEW iv \in Nat \ {0}
  PROVE  \E N, c : GroupsOf(N, c, R, iv)
<1> DEFINE B == {Floor(e.ts, iv) : e \in R}
           N == Cardinality(B)
           t == Enumerated(B)
           c == [n \in 1 .. N |-> t[n] \div iv]
           g == Grouped(R, iv)
<1>1. \A e \in R : e.ts \in Nat
  BY EventsAre
<1>2. \A x \in Nat : x \div iv \in Nat /\ Floor(x, iv) = (x \div iv) * iv
  BY CellFacts
<1>3. \A n \in Nat : n * iv \in Nat /\ (n * iv) \div iv = n
  <2> TAKE n \in Nat
  <2>1. n * iv \in Nat
    BY Multiples
  <2>2. 0 \in 0 .. iv - 1 /\ (n * iv + 0) \div iv = n
    <3>1. 0 \in 0 .. iv - 1
      OBVIOUS
    <3> QED BY <3>1, Quotient
  <2>3. n * iv + 0 = n * iv
    BY <2>1
  <2> QED BY <2>1, <2>2, <2>3
<1>4. B \in SUBSET Nat /\ IsFiniteSet(B)
  <2>1. IsFiniteSet(R)
    BY EventsAre
  <2>2. IsFiniteSet(B)
    <3> DEFINE f == [e \in R |-> Floor(e.ts, iv)]
    <3>1. B = {f[e] : e \in R}
      OBVIOUS
    <3> HIDE DEF f, B
    <3> QED BY <2>1, <3>1, FiniteImage
  <2>3. B \in SUBSET Nat
    BY <1>1, <1>2, <1>3
  <2> QED BY <2>2, <2>3
<1>5. g = [i \in 1 .. N |-> [time |-> t[i], count |-> Counted(R, t[i], iv)]]
  <2>1. t = Ascending(B) /\ DOMAIN t = 1 .. N
    BY DEF Ascending, Enumerated
  <2> HIDE DEF N, t
  <2>2. g = [i \in DOMAIN t |-> [time |-> t[i], count |-> Counted(R, t[i], iv)]]
    BY <2>1 DEF Grouped, Counted
  <2> QED BY <2>1, <2>2
<1> HIDE DEF g
<1>6. \A x \in B : \E e \in R : x = (e.ts \div iv) * iv
  BY <1>1, <1>2
<1>7. \A e \in R : (e.ts \div iv) * iv \in B
  BY <1>1, <1>2
<1> HIDE DEF B
<1>8. /\ N \in Nat /\ t \in [1 .. N -> B] /\ \A x \in B : \E n \in 1 .. N : t[n] = x
      /\ \A m, n \in 1 .. N : m < n => t[m] < t[n]
  BY <1>4, EnumeratedInOrder
<1> HIDE DEF N, t
<1>9. \A n \in 1 .. N : c[n] \in Nat /\ t[n] = c[n] * iv /\ \E e \in R : e.ts \div iv = c[n]
  <2> TAKE n \in 1 .. N
  <2>1. t[n] \in B /\ c[n] = t[n] \div iv
    BY <1>8
  <2>2. PICK e \in R : t[n] = (e.ts \div iv) * iv
    BY <1>6, <2>1
  <2>3. e.ts \div iv \in Nat
    BY <1>1, <1>2
  <2>4. c[n] = e.ts \div iv
    BY <1>3, <2>1, <2>2, <2>3
  <2> QED BY <2>2, <2>3, <2>4
<1>10. c \in [1 .. N -> Nat]
  BY <1>9
<1> HIDE DEF c
<1>11. \A m, n \in 1 .. N : m < n => c[m] < c[n]
  <2> TAKE m, n \in 1 .. N
  <2> HAVE m < n
  <2>1. t[m] < t[n]
    BY <1>8
  <2>2. c[n] <= c[m] => c[n] * iv <= c[m] * iv
    BY <1>9, Multiples
  <2> DEFINE x == c[m] * iv
             y == c[n] * iv
  <2>3. x \in Nat /\ y \in Nat /\ x < y /\ (c[n] <= c[m] => y <= x)
    BY <1>3, <1>9, <2>1, <2>2
  <2> HIDE DEF x, y
  <2>4. c[m] \in Nat /\ c[n] \in Nat
    BY <1>9
  <2> QED BY <2>3, <2>4
<1>12. ASSUME NEW e \in R PROVE \E n \in 1 .. N : c[n] = e.ts \div iv
  <2>1. PICK n \in 1 .. N : t[n] = (e.ts \div iv) * iv
    BY <1>7, <1>8
  <2>2. e.ts \div iv \in Nat
    BY <1>1, <1>2
  <2>3. (c[n] * iv) \div iv = c[n] /\ ((e.ts \div iv) * iv) \div iv = e.ts \div iv
    BY <1>3, <1>9, <2>2
  <2>4. c[n] * iv = (e.ts \div iv) * iv
    BY <1>9, <2>1
  <2>5. c[n] = e.ts \div iv
    <3> DEFINE x == e.ts \div iv
    <3>1. c[n] * iv = x * iv /\ (c[n] * iv) \div iv = c[n] /\ (x * iv) \div iv = x
      BY <2>3, <2>4
    <3> HIDE DEF x
    <3>2. c[n] = x
      BY <3>1
    <3> QED BY <3>2 DEF x
  <2> QED BY <2>5
<1>13. Len(g) = N /\ \A n \in 1 .. N : g[n] = CellOf(R, c[n], iv)
  <2>1. Len(g) = N
    BY <1>5, <1>8
  <2>2. ASSUME NEW n \in 1 .. N PROVE g[n] = CellOf(R, c[n], iv)
    <3>1. g[n] = [time |-> t[n], count |-> Counted(R, t[n], iv)]
      BY <1>5
    <3>2. t[n] = c[n] * iv
      BY <1>9
    <3> QED BY <3>1, <3>2 DEF CellOf
  <2> QED BY <2>1, <2>2
<1>14. GroupsOf(N, c, R, iv)
  BY <1>8, <1>9, <1>10, <1>11, <1>12, <1>13 DEF GroupsOf, g
<1> QED BY <1>14

(* None of them is before the a-th interval.                               *)
GroupsFrom(N, c, R, a, iv) ==
  /\ R \in SUBSET Catalogue /\ a \in Nat /\ iv \in Nat \ {0}
  /\ GroupsOf(N, c, R, iv) /\ \A n \in 1 .. N : a <= c[n]

(* After the n-th row the grid ends with the row's bucket.                 *)
Reach(n, a, c) == IF n = 0 THEN 0 ELSE c[n] - a + 1
Filled(n, R, a, c, iv) == [out |-> Grid(R, a, Reach(n, a, c), iv), next |-> (a + Reach(n, a, c)) * iv]

(* Each step of the loop is Fill applied to the next row.                  *)
LEMMA RowsFill ==
  ASSUME NEW N, NEW c, NEW R, NEW a, NEW iv, GroupsFrom(N, c, R, a, iv)
  PROVE  /\ \A n \in 0 .. N : Reach(n, a, c) \in Nat
         /\ Filled(0, R, a, c, iv) = [out |-> <<>>, next |-> a * iv]
         /\ \A n \in 1 .. N : Filled(n, R, a, c, iv) = Fill(Filled(n - 1, R, a, c, iv), Grouped(R, iv)[n], iv)
<1>0. R \in SUBSET Catalogue /\ a \in Nat /\ iv \in Nat \ {0} /\ \A n \in 1 .. N : a <= c[n]
  BY DEF GroupsFrom
<1> USE <1>0
<1>1. /\ N \in Nat /\ c \in [1 .. N -> Nat]
      /\ \A n \in 1 .. N : Grouped(R, iv)[n] = CellOf(R, c[n], iv)
      /\ \A e \in R : \E n \in 1 .. N : c[n] = e.ts \div iv
      /\ \A m, n \in 1 .. N : m < n => c[m] < c[n]
  BY DEF GroupsOf, GroupsFrom
<1>2. \A n \in 1 .. N : c[n] \in Nat /\ Reach(n, a, c) = c[n] - a + 1 /\ Reach(n, a, c) \in Nat
  BY <1>1 DEF Reach
<1>3. Reach(0, a, c) = 0
  BY DEF Reach
<1>4. \A n \in 0 .. N : Reach(n, a, c) \in Nat
  BY <1>2, <1>3
<1>5. Filled(0, R, a, c, iv) = [out |-> <<>>, next |-> a * iv]
  <2>1. IsGrid(Grid(R, a, 0, iv), R, a, 0, iv)
    BY GridIs
  <2>2. Grid(R, a, 0, iv) = <<>>
    BY <2>1 DEF IsGrid
  <2>3. a + 0 = a
    OBVIOUS
  <2> QED BY <1>3, <2>2, <2>3 DEF Filled
<1>6. ASSUME NEW n \in 1 .. N
      PROVE  Filled(n, R, a, c, iv) = Fill(Filled(n - 1, R, a, c, iv), Grouped(R, iv)[n], iv)
  <2> DEFINE K == Reach(n - 1, a, c)
  <2>1. n - 1 \in 0 .. N /\ K \in Nat
    BY <1>1, <1>4
  <2>2. \/ n = 1 /\ K = 0
        \/ n - 1 \in 1 .. N /\ a + K = c[n - 1] + 1
    <3>1. CASE n = 1
      BY <1>3, <3>1
    <3>2. CASE n # 1
      <4>1. n - 1 \in 1 .. N
        BY <1>1, <3>2
      <4>2. K = c[n - 1] - a + 1 /\ c[n - 1] \in Nat
        BY <1>2, <4>1
      <4> HIDE DEF K
      <4> QED BY <4>1, <4>2
    <3> QED BY <3>1, <3>2
  <2> HIDE DEF K
  <2>3. a + K <= c[n] /\ c[n] \in Nat
    <3>1. CASE n = 1 /\ K = 0
      BY <1>2, <3>1
    <3>2. CASE n - 1 \in 1 .. N /\ a + K = c[n - 1] + 1
      <4>1. c[n - 1] < c[n] /\ c[n - 1] \in Nat /\ c[n] \in Nat
        BY <1>1, <1>2, <3>2
      <4> QED BY <3>2, <4>1
    <3> QED BY <2>2, <3>1, <3>2
  <2>4. Quiet(R, a + K, c[n], iv)
    <3> SUFFICES ASSUME NEW e \in R, a + K <= e.ts \div iv, e.ts \div iv < c[n] PROVE FALSE
      BY DEF Quiet
    <3>1. PICK m \in 1 .. N : c[m] = e.ts \div iv
      BY <1>1
    <3>2. c[m] \in Nat /\ c[n] \in Nat /\ a + K <= c[m] /\ c[m] < c[n]
      BY <1>2, <3>1
    <3>3. m < n
      <4>1. m = n \/ n < m \/ m < n
        BY <1>1
      <4>2. ~(m = n) /\ ~(n < m)
        BY <1>1, <3>2
      <4> QED BY <4>1, <4>2
    <3>4. n - 1 \in 1 .. N /\ a + K = c[n - 1] + 1
      BY <2>2, <3>3
    <3>5. m = n - 1 \/ m < n - 1
      BY <1>1, <3>3, <3>4
    <3>6. c[m] <= c[n - 1] /\ c[n - 1] \in Nat
      <4>1. c[n - 1] \in Nat
        BY <1>2, <3>4
      <4>2. m < n - 1 => c[m] < c[n - 1]
        BY <1>1, <3>4
      <4> QED BY <3>2, <3>5, <4>1, <4>2
    <3> QED BY <3>2, <3>4, <3>6
  <2>5. RowFits(R, a, K, c[n], iv)
    BY <2>1, <2>3, <2>4 DEF RowFits
  <2>6. Fill([out |-> Grid(R, a, K, iv), next |-> (a + K) * iv], CellOf(R, c[n], iv), iv)
          = [out |-> Grid(R, a, c[n] - a + 1, iv), next |-> (c[n] + 1) * iv]
    BY <2>5, RowFills
  <2>7. Reach(n, a, c) = c[n] - a + 1 /\ a + Reach(n, a, c) = c[n] + 1
    BY <1>2
  <2> QED BY <1>1, <2>6, <2>7 DEF Filled, K
<1> QED BY <1>4, <1>5, <1>6

(* A range begins at a time, and what a search of it finds is no older.    *)
LEMMA EarliestIs ==
  ASSUME QueryInv, ~NoRange(elements)
  PROVE  /\ Earliest(elements) \in Nat
         /\ \A e \in Catalogue :
              (\A i \in DOMAIN elements : elements[i].kind = "From" => InTime(elements[i], e))
                => Earliest(elements) <= e.ts
<1> DEFINE froms == {i \in DOMAIN elements : elements[i].kind = "From"}
           T == {e.ts : e \in Catalogue}
<1>1. \A e \in Catalogue : e.ts \in Nat
  BY EventsAre
<1>2. \A i \in DOMAIN elements : ElementOK(elements[i]) /\ i \in Nat
  BY DEF QueryInv
<1>3. CASE froms # {}
  <2>1. froms \in SUBSET Nat
    BY <1>2
  <2>2. PICK i \in froms : \A j \in froms : i <= j
    BY <1>3, <2>1, LeastExists
  <2>3. Least(froms) \in froms
    <3> HIDE DEF froms
    <3> QED BY <2>2 DEF Least
  <2>4. Earliest(elements) = elements[Least(froms)].val
    BY <1>3 DEF Earliest
  <2> DEFINE el == elements[Least(froms)]
  <2>5. Least(froms) \in DOMAIN elements /\ el.kind = "From"
    BY <2>3
  <2>6. ElementOK(el)
    BY <1>2, <2>5
  <2> HIDE DEF froms
  <2>7. el.val \in Times
    BY <2>5, <2>6 DEF ElementOK, TimeKinds, FlagKinds
  <2>8. \A e : InTime(el, e) => e.ts >= el.val
    BY <2>5 DEF InTime
  <2>9. Earliest(elements) \in Nat
    BY <2>4, <2>7, QueryAssumption
  <2>10. ASSUME NEW e \in Catalogue,
                \A n \in DOMAIN elements : elements[n].kind = "From" => InTime(elements[n], e)
         PROVE  Earliest(elements) <= e.ts
    <3>1. InTime(el, e)
      BY <2>5, <2>10
    <3> HIDE DEF el
    <3> QED BY <1>1, <2>4, <2>8, <2>9, <3>1 DEF el
  <2> QED BY <2>9, <2>10
<1>4. CASE froms = {}
  <2>1. T \in SUBSET Nat /\ T # {}
    BY <1>1, <1>4 DEF NoRange
  <2>2. PICK t \in T : \A u \in T : t <= u
    BY <2>1, LeastExists
  <2>3. Least(T) \in T /\ \A u \in T : Least(T) <= u
    <3> HIDE DEF T
    <3> QED BY <2>2 DEF Least
  <2>4. Earliest(elements) = Least(T)
    BY <1>4 DEF Earliest
  <2>5. \A e \in Catalogue : e.ts \in T
    OBVIOUS
  <2> HIDE DEF T
  <2> QED BY <2>1, <2>3, <2>4, <2>5
<1> QED BY <1>3, <1>4

(* An interval is never zero.                                              *)
LEMMA IntervalIs ==
  ASSUME QueryInv, ~NoRange(elements), NEW asked \in Intervals
  PROVE  IntervalOf(elements, asked) \in Nat \ {0}
<1>1. CASE asked # None
  BY <1>1, QueryAssumption DEF IntervalOf
<1>2. CASE asked = None
  <2> DEFINE r == Now - Earliest(elements)
  <2>1. r \in Int
    BY EarliestIs, QueryAssumption
  <2>2. IntervalOf(elements, asked) = HistogramInterval(r)
    BY <1>2 DEF IntervalOf
  <2> HIDE DEF r
  <2>3. HistogramInterval(r) \in Nat \ {0}
    BY <2>1 DEF HistogramInterval
  <2> QED BY <2>2, <2>3
<1> QED BY <1>1, <1>2

(* What the reports read is in the range.                                  *)
LEMMA InRangeOnly ==
  ASSUME QueryInv, ~NoRange(elements)
  PROVE  /\ SqliteRows(elements) \in SUBSET Catalogue /\ ElasticDocs(elements) \in SUBSET Catalogue
         /\ \A e \in SqliteRows(elements) \union ElasticDocs(elements) : Earliest(elements) <= e.ts
<1>1. \A i \in DOMAIN elements : ElementOK(elements[i])
  BY DEF QueryInv
<1>2. ASSUME NEW e \in SqliteRows(elements), NEW i \in DOMAIN elements, elements[i].kind = "From"
      PROVE  InTime(elements[i], e)
  <2>1. SqliteWhere(elements[i], e, NoJoin)
    BY <1>2 DEF SqliteRows, SqliteRow
  <2>2. ElementOK(elements[i])
    BY <1>1, <1>2
  <2> QED BY <1>2, <2>1, <2>2, SqliteElement DEF TimeKinds
<1>3. ASSUME NEW e \in ElasticDocs(elements), NEW i \in DOMAIN elements, elements[i].kind = "From"
      PROVE  InTime(elements[i], e)
  <2>1. Holds(elements[i], e)
    BY <1>3, MustHolds DEF ElasticDocs
  <2>2. ElementOK(elements[i])
    BY <1>1, <1>3
  <2>3. ~elements[i].neg
    BY <1>3, <2>2 DEF ElementOK, TimeKinds, FlagKinds
  <2>4. Clause(elements[i]) = "filter"
    BY <1>3, <2>2, <2>3, ClauseOf
  <2> QED BY <1>3, <2>1, <2>2, <2>4, ElasticElement DEF Holds, TimeKinds
<1>4. SqliteRows(elements) \in SUBSET Catalogue /\ ElasticDocs(elements) \in SUBSET Catalogue
  BY DEF SqliteRows, ElasticDocs
<1> QED BY <1>2, <1>3, <1>4, EarliestIs

(* How many buckets a histogram has: up to the last event and up to now.   *)
Spans(K, R, a, w, iv) ==
  /\ K \in Nat /\ w < a + K
  /\ \A e \in R : a <= e.ts \div iv /\ e.ts \div iv < a + K
  /\ a <= w => a + K = w + 1 \/ \E e \in R : a + K = e.ts \div iv + 1

(* The loop of histogram_time computes Filled.                             *)
LEMMA LoopIsFilled ==
  ASSUME QueryInv, ~NoRange(elements), NEW asked \in Intervals, NEW iv, iv = IntervalOf(elements, asked),
         NEW R, R = SqliteRows(elements), NEW a, a = Earliest(elements) \div iv,
         NEW N, NEW c, GroupsFrom(N, c, R, a, iv)
  PROVE  SqliteHistogram(elements, asked) =
           Filled(N, R, a, c, iv).out \o Zeros(Filled(N, R, a, c, iv).next, Floor(Now, iv) + 1, iv)
<1> DEFINE G == Grouped(R, iv)
           start == [out |-> <<>>, next |-> Floor(Earliest(elements), iv)]
           Loop(g) == g = [n \in 0 .. Len(G) |-> IF n = 0 THEN start ELSE Fill(g[n - 1], G[n], iv)]
           loop == CHOOSE g : Loop(g)
           f == [n \in 0 .. N |-> Filled(n, R, a, c, iv)]
<1>1. iv \in Nat \ {0} /\ Earliest(elements) \in Nat
  BY IntervalIs, EarliestIs
<1>3. N \in Nat /\ Len(G) = N
  BY DEF GroupsFrom, GroupsOf
<1>4. a \in Nat /\ Floor(Earliest(elements), iv) = a * iv
  BY <1>1, CellFacts
<1>5. /\ Filled(0, R, a, c, iv) = [out |-> <<>>, next |-> a * iv]
      /\ \A n \in 1 .. N : Filled(n, R, a, c, iv) = Fill(Filled(n - 1, R, a, c, iv), G[n], iv)
  BY RowsFill
<1>6. SqliteHistogram(elements, asked) =
        loop[Len(G)].out \o Zeros(loop[Len(G)].next, Floor(Now, iv) + 1, iv)
  BY DEF SqliteHistogram
<1> HIDE DEF G
<1>7. f[0] = start /\ \A n \in 1 .. N : f[n] = Fill(f[n - 1], G[n], iv)
  <2>1. 0 \in 0 .. N /\ \A n \in 1 .. N : n \in 0 .. N /\ n - 1 \in 0 .. N
    BY <1>3
  <2>2. \A n \in 0 .. N : f[n] = Filled(n, R, a, c, iv)
    OBVIOUS
  <2> HIDE DEF f
  <2>3. f[0] = start
    BY <1>4, <1>5, <2>1, <2>2
  <2> QED BY <1>5, <2>1, <2>2, <2>3
<1>8. Loop(f)
  <2>1. f = [n \in 0 .. N |-> f[n]]
    OBVIOUS
  <2> HIDE DEF f, start
  <2>2. \A n \in 0 .. N : f[n] = IF n = 0 THEN start ELSE Fill(f[n - 1], G[n], iv)
    BY <1>7
  <2> QED BY <1>3, <2>1, <2>2
<1>9. f[N] = Filled(N, R, a, c, iv)
  BY <1>3
<1> HIDE DEF f
<1>10. Loop(loop)
  BY <1>8
<1> HIDE DEF loop, start
<1>11. \A n \in 0 .. N : f[n] = loop[n]
  <2>1. loop[0] = start /\ \A n \in 1 .. N : loop[n] = Fill(loop[n - 1], G[n], iv)
    BY <1>3, <1>10
  <2>2. f[0] = loop[0] /\ \A n \in 1 .. N : f[n - 1] = loop[n - 1] => f[n] = loop[n]
    BY <1>7, <2>1
  <2>3. Alike(N, f, loop)
    BY <2>2 DEF Alike
  <2> QED BY <1>3, <2>3, SameIteration
<1>12. loop[Len(G)] = Filled(N, R, a, c, iv)
  BY <1>3, <1>9, <1>11
<1> QED BY <1>6, <1>12

(* The histogram of SQLite is a grid that begins at the range's first      *)
(* interval and reaches to the last event and to now.                      *)
LEMMA SqliteIsGrid ==
  ASSUME QueryInv, ~NoRange(elements), NEW asked \in Intervals, NEW iv, iv = IntervalOf(elements, asked),
         NEW R, R = SqliteRows(elements), NEW a, a = Earliest(elements) \div iv
  PROVE  \E K : /\ Spans(K, R, a, Now \div iv, iv)
                /\ SqliteHistogram(elements, asked) = Grid(R, a, K, iv)
<1> DEFINE w == Now \div iv
<1>1. iv \in Nat \ {0} /\ Earliest(elements) \in Nat /\ Now \in Nat
  BY IntervalIs, EarliestIs, QueryAssumption
<1>2. R \in SUBSET Catalogue /\ \A e \in R : e.ts \in Nat /\ Earliest(elements) <= e.ts
  BY InRangeOnly, EventsAre
<1>3. a \in Nat /\ w \in Nat /\ Floor(Now, iv) = w * iv
  BY <1>1, CellFacts
<1>4. \A e \in R : e.ts \div iv \in Nat /\ a <= e.ts \div iv
  BY <1>1, <1>2, CellFacts
<1> HIDE DEF w
<1>5. PICK N, c : GroupsOf(N, c, R, iv)
  BY <1>1, <1>2, GroupsAre
<1>6. /\ N \in Nat /\ \A n \in 1 .. N : c[n] \in Nat /\ \E e \in R : e.ts \div iv = c[n]
      /\ \A e \in R : \E n \in 1 .. N : c[n] = e.ts \div iv
      /\ \A m, n \in 1 .. N : m < n => c[m] < c[n]
  BY <1>5 DEF GroupsOf
<1>7. \A n \in 1 .. N : a <= c[n]
  BY <1>4, <1>6
<1>8. GroupsFrom(N, c, R, a, iv)
  BY <1>1, <1>2, <1>3, <1>5, <1>7 DEF GroupsFrom
<1> DEFINE K == Reach(N, a, c)
<1>9. K \in Nat
  <2>1. \A n \in 0 .. N : Reach(n, a, c) \in Nat
    BY <1>8, RowsFill
  <2> QED BY <1>6, <2>1
<1>10. SqliteHistogram(elements, asked) = Grid(R, a, K, iv) \o Zeros((a + K) * iv, w * iv + 1, iv)
  <2>1. SqliteHistogram(elements, asked) =
           Filled(N, R, a, c, iv).out \o Zeros(Filled(N, R, a, c, iv).next, Floor(Now, iv) + 1, iv)
    BY <1>8, LoopIsFilled
  <2>2. Filled(N, R, a, c, iv).out = Grid(R, a, K, iv) /\ Filled(N, R, a, c, iv).next = (a + K) * iv
    BY DEF Filled
  <2> HIDE DEF K
  <2> QED BY <1>3, <2>1, <2>2
<1>11. \A e \in R : e.ts \div iv < a + K
  <2> TAKE e \in R
  <2>1. PICK n \in 1 .. N : c[n] = e.ts \div iv
    BY <1>6
  <2>2. N \in 1 .. N /\ K = c[N] - a + 1
    BY <1>6, <2>1 DEF Reach
  <2>3. c[n] \in Nat /\ c[N] \in Nat /\ (n = N \/ n < N) /\ (n < N => c[n] < c[N])
    BY <1>6, <2>2
  <2>4. c[n] <= c[N]
    BY <2>3
  <2> HIDE DEF K
  <2>5. c[n] < a + K
    BY <1>3, <2>2, <2>3, <2>4
  <2> QED BY <2>1, <2>5
<1>12. K = 0 \/ \E e \in R : a + K = e.ts \div iv + 1
  <2>1. CASE N = 0
    BY <2>1 DEF Reach
  <2>2. CASE N # 0
    <3>1. N \in 1 .. N /\ K = c[N] - a + 1
      BY <1>6, <2>2 DEF Reach
    <3>2. PICK e \in R : e.ts \div iv = c[N]
      BY <1>6, <3>1
    <3>3. c[N] \in Nat
      BY <1>6, <3>1
    <3> HIDE DEF K
    <3>4. a + K = c[N] + 1
      BY <1>3, <3>1, <3>3
    <3> QED BY <3>2, <3>4
  <2> QED BY <2>1, <2>2
<1> HIDE DEF K
<1>13. CASE w < a + K
  <2>1. Zeros((a + K) * iv, w * iv + 1, iv) = <<>>
    <3>1. (w * iv) + iv <= (a + K) * iv /\ w * iv \in Nat /\ (a + K) * iv \in Nat
      <4> DEFINE b == a + K
      <4>1. b \in Nat /\ w < b
        BY <1>3, <1>9, <1>13
      <4> HIDE DEF b
      <4>2. w * iv + iv <= b * iv /\ w * iv \in Nat /\ b * iv \in Nat
        BY <1>1, <1>3, <4>1, Multiples
      <4> QED BY <4>2 DEF b
    <3> DEFINE x == w * iv
               y == (a + K) * iv
    <3>2. x \in Nat /\ y \in Nat /\ x + iv <= y
      BY <3>1
    <3> HIDE DEF x, y
    <3>3. y >= x + 1
      BY <1>1, <3>2
    <3>4. x + 1 <= y
      BY <3>2, <3>3
    <3>5. Zeros(y, x + 1, iv) = <<>>
      BY <3>4 DEF Zeros
    <3> QED BY <3>5 DEF x, y
  <2> DEFINE g == Grid(R, a, K, iv)
  <2>2. g \in Seq(Bucket)
    <3>1. IsGrid(g, R, a, K, iv)
      BY <1>1, <1>2, <1>3, <1>9, GridIs
    <3> QED BY <3>1 DEF IsGrid
  <2> HIDE DEF g
  <2>3. g \o <<>> = g
    BY <2>2, ConcatEmptySeq
  <2>4. SqliteHistogram(elements, asked) = Grid(R, a, K, iv)
    BY <1>10, <2>1, <2>3 DEF g
  <2>5. a <= w => K # 0
    BY <1>3, <1>9, <1>13
  <2>6. Spans(K, R, a, w, iv)
    BY <1>4, <1>9, <1>11, <1>12, <1>13, <2>5 DEF Spans
  <2> QED BY <2>4, <2>6 DEF w
<1>14. CASE ~(w < a + K)
  <2> DEFINE d == w - (a + K) + 1
             z == Zeros((a + K) * iv, w * iv + 1, iv)
  <2>1. d \in Nat \ {0} /\ a + K \in Nat /\ (a + K) + d - 1 = w /\ 1 \in 1 .. iv /\ a + (K + d) = w + 1 /\ K + d \in Nat
    BY <1>1, <1>3, <1>9, <1>14
  <2>2. IsGap(z, a + K, d, iv)
    <3> DEFINE b == a + K
    <3>1. b \in Nat /\ b + d - 1 = w
      BY <2>1
    <3> HIDE DEF b, d
    <3>2. IsGap(Zeros(b * iv, (b + d - 1) * iv + 1, iv), b, d, iv)
      BY <1>1, <2>1, <3>1, ZerosAre
    <3>3. IsGap(Zeros(b * iv, w * iv + 1, iv), b, d, iv)
      BY <3>1, <3>2
    <3> QED BY <3>3 DEF b
  <2> HIDE DEF d, z
  <2>3. Quiet(R, a + K, a + K + d, iv)
    <3>1. \A e \in R : ~(a + K <= e.ts \div iv)
      BY <1>3, <1>4, <1>9, <1>11
    <3> QED BY <3>1 DEF Quiet
  <2>4. Fits(z, R, a, K, d, iv)
    BY <1>1, <1>2, <1>3, <1>9, <2>1, <2>2, <2>3 DEF Fits
  <2>5. SqliteHistogram(elements, asked) = Grid(R, a, K + d, iv)
    <3>1. Grid(R, a, K, iv) \o z = Grid(R, a, K + d, iv)
      BY ONLY <2>4, GapFits
    <3> QED BY <1>10, <3>1 DEF z
  <2>6. \A e \in R : e.ts \div iv < a + (K + d)
    <3>1. a + (K + d) = (a + K) + d
      BY <1>3, <1>9, <2>1
    <3> QED BY <1>4, <1>11, <2>1, <3>1
  <2>7. w < a + (K + d)
    BY <1>3, <2>1
  <2>8. Spans(K + d, R, a, w, iv)
    BY <1>4, <2>1, <2>6, <2>7 DEF Spans
  <2> QED BY <2>5, <2>8 DEF w
<1> QED BY <1>13, <1>14

(* Elasticsearch's histogram is the grid from the beginning of the range   *)
(* to now, or to the last event if that is later.                          *)
LEMMA ElasticIsGrid ==
  ASSUME QueryInv, ~NoRange(elements), NEW asked \in Intervals, NEW iv, iv = IntervalOf(elements, asked),
         NEW R, R = ElasticDocs(elements), NEW a, a = Earliest(elements) \div iv,
         Earliest(elements) <= Now
  PROVE  \E K : /\ Spans(K, R, a, Now \div iv, iv)
                /\ ElasticHistogram(elements, asked) = Grid(R, a, K, iv)
<1> DEFINE from == Earliest(elements)
           ts == {e.ts : e \in R} \union {from, Now}
           w == Now \div iv
           first == Floor(Least(ts), iv)
<1>1. iv \in Nat \ {0} /\ from \in Nat /\ Now \in Nat /\ from <= Now
  BY IntervalIs, EarliestIs, QueryAssumption
<1>2. R \in SUBSET Catalogue /\ IsFiniteSet(R) /\ \A e \in R : e.ts \in Nat /\ from <= e.ts
  BY InRangeOnly, EventsAre
<1>3. ts \in SUBSET Nat /\ IsFiniteSet(ts) /\ ts # {}
  <2> DEFINE f == [e \in R |-> e.ts]
  <2>2. IsFiniteSet({e.ts : e \in R})
    <3> DEFINE B == {e.ts : e \in R}
    <3>1. B = {f[e] : e \in R}
      OBVIOUS
    <3> HIDE DEF f, B
    <3>2. IsFiniteSet(B)
      BY <1>2, <3>1, FiniteImage
    <3> QED BY <3>2 DEF B
  <2>3. IsFiniteSet({from, Now})
    <3>1. IsFiniteSet({}) /\ {from, Now} = ({} \union {from}) \union {Now}
      BY FS_EmptySet
    <3>2. IsFiniteSet({} \union {from})
      BY <3>1, FS_AddElement
    <3> QED BY <3>1, <3>2, FS_AddElement
  <2>4. IsFiniteSet(ts)
    BY <2>2, <2>3, FS_Union
  <2> QED BY <1>1, <1>2, <2>4
<1>4. PICK G \in ts : \A y \in ts : y <= G
  BY <1>3, FiniteGreatest
<1>5. Least(ts) = from
  <2>1. from \in ts /\ \A y \in ts : from <= y
    BY <1>1, <1>2
  <2>2. \A x \in ts : (\A y \in ts : x <= y) => x = from
    BY <1>3, <2>1
  <2> HIDE DEF ts
  <2> QED BY <2>1, <2>2 DEF Least
<1>6. Greatest(ts) = G
  <2>1. \A x \in ts : (\A y \in ts : x >= y) => x = G
    <3> HIDE DEF ts
    <3> QED BY <1>3, <1>4
  <2>2. \A y \in ts : G >= y
    BY <1>3, <1>4
  <2> HIDE DEF ts
  <2> QED BY <1>4, <2>1, <2>2 DEF Greatest
<1>7. G \in Nat /\ Now <= G /\ from <= G /\ \A e \in R : e.ts <= G
  BY <1>1, <1>3, <1>4
<1> DEFINE b == G \div iv
           K == b - a + 1
<1>8. /\ a \in Nat /\ b \in Nat /\ w \in Nat /\ a <= b /\ w <= b
      /\ Floor(G, iv) = b * iv /\ first = a * iv
      /\ \A e \in R : e.ts \div iv \in Nat /\ a <= e.ts \div iv /\ e.ts \div iv <= b
  BY <1>1, <1>2, <1>5, <1>7, CellFacts
<1>9. G = Now \/ G = from \/ \E e \in R : G = e.ts
  BY <1>4
<1>10. b = w \/ \E e \in R : b = e.ts \div iv
  <2>1. G = from => b = a /\ a <= w
    BY <1>1, <1>8, CellFacts
  <2>2. G = from => b = w
    BY <1>8, <2>1
  <2> QED BY <1>9, <2>2
<1> HIDE DEF b, w
<1>11. K \in Nat /\ w < a + K /\ a + K = b + 1
  BY <1>8
<1>12. Spans(K, R, a, w, iv)
  <2> HIDE DEF K
  <2>1. \A e \in R : a <= e.ts \div iv /\ e.ts \div iv < a + K
    BY <1>8, <1>11
  <2>2. a + K = w + 1 \/ \E e \in R : a + K = e.ts \div iv + 1
    BY <1>10, <1>11
  <2> QED BY <1>11, <2>1, <2>2 DEF Spans
<1>13. (Floor(G, iv) - first) \div iv + 1 = K
  <2> DEFINE d == b - a
             x == a * iv
             y == d * iv
             z == b * iv
  <2>1. d \in Nat /\ a + d = b
    BY <1>8
  <2>2. x \in Nat /\ y \in Nat /\ (a + d) * iv = x + y
    <3> HIDE DEF d
    <3> QED BY <1>1, <1>8, <2>1, Multiples
  <2>3. z = x + y
    <3> HIDE DEF d, x, y
    <3> QED BY <2>1, <2>2
  <2>4. (d * iv + 0) \div iv = d
    <3> HIDE DEF d
    <3>1. 0 \in 0 .. iv - 1
      BY <1>1
    <3> QED BY <1>1, <2>1, <3>1, Quotient
  <2>5. Floor(G, iv) - first = y /\ y + 0 = y
    <3>1. Floor(G, iv) = z /\ first = x
      BY <1>8
    <3> HIDE DEF x, y, z, first
    <3> QED BY <2>2, <2>3, <3>1
  <2>6. (Floor(G, iv) - first) \div iv = d
    <3>1. (y + 0) \div iv = d
      BY <2>4
    <3> HIDE DEF y, d, first
    <3> QED BY <2>5, <3>1
  <2> QED BY <2>6
<1> DEFINE Cell(n) == [time |-> first + (n - 1) * iv, count |-> Cardinality({e \in R : Floor(e.ts, iv) = first + (n - 1) * iv})]
<1>14. ElasticHistogram(elements, asked) = [n \in 1 .. K |-> Cell(n)]
  <2>1. ~(from > Now)
    BY <1>1
  <2>2. ElasticHistogram(elements, asked) =
          [n \in 1 .. (Floor(Greatest(ts), iv) - first) \div iv + 1 |-> Cell(n)]
    BY <2>1 DEF ElasticHistogram
  <2> HIDE DEF ts, first, Cell, K
  <2>3. (Floor(Greatest(ts), iv) - first) \div iv + 1 = K
    BY <1>6, <1>13
  <2> QED BY <2>2, <2>3
<1>15. \A n \in 1 .. K : Cell(n) = CellOf(R, a + n - 1, iv)
  <2> TAKE n \in 1 .. K
  <2> DEFINE m == n - 1
  <2>1. m \in Nat /\ a + n - 1 = a + m
    BY <1>8, <1>11
  <2>2. first + m * iv = (a + m) * iv
    <3>1. (a + m) * iv = a * iv + m * iv
      <4> HIDE DEF m
      <4> QED BY <1>1, <1>8, <2>1, Multiples
    <3> QED BY <1>8, <3>1
  <2> DEFINE t == first + m * iv
  <2>3. Cell(n) = [time |-> t, count |-> Cardinality({e \in R : Floor(e.ts, iv) = t})]
    OBVIOUS
  <2> HIDE DEF t, m, Cell, first
  <2>4. t = (a + m) * iv
    BY <2>2 DEF t
  <2>5. Cell(n) = [time |-> (a + m) * iv, count |-> Cardinality({e \in R : Floor(e.ts, iv) = (a + m) * iv})]
    BY <2>3, <2>4
  <2>6. Cell(n) = CellOf(R, a + m, iv)
    BY <2>5 DEF CellOf, Counted
  <2> QED BY <2>1, <2>6
<1>16. ElasticHistogram(elements, asked) = Grid(R, a, K, iv)
  <2> HIDE DEF Cell, K
  <2> QED BY <1>14, <1>15 DEF Grid
<1> QED BY <1>12, <1>16 DEF w

(* The span of a grid is determined by the events it covers and the clock. *)
LEMMA SpansOnce ==
  ASSUME NEW R \in SUBSET Catalogue, NEW a \in Nat, NEW w \in Nat, NEW iv \in Nat \ {0},
         NEW K, NEW L, Spans(K, R, a, w, iv), Spans(L, R, a, w, iv), a <= w
  PROVE  K = L
<1>1. /\ K \in Nat /\ w < a + K /\ (\A e \in R : a <= e.ts \div iv /\ e.ts \div iv < a + K)
      /\ (a + K = w + 1 \/ \E e \in R : a + K = e.ts \div iv + 1)
  BY DEF Spans
<1>2. /\ L \in Nat /\ w < a + L /\ (\A e \in R : a <= e.ts \div iv /\ e.ts \div iv < a + L)
      /\ (a + L = w + 1 \/ \E e \in R : a + L = e.ts \div iv + 1)
  BY DEF Spans
<1>3. \A e \in R : e.ts \div iv \in Nat
  BY EventsAre, CellFacts
<1>4. a + K <= a + L
  <2>1. CASE a + K = w + 1
    BY <1>1, <1>2, <2>1
  <2>2. CASE \E e \in R : a + K = e.ts \div iv + 1
    <3> PICK e \in R : a + K = e.ts \div iv + 1
      BY <2>2
    <3> DEFINE x == e.ts \div iv
    <3>1. x \in Nat /\ x < a + L /\ a + K = x + 1
      BY <1>2, <1>3
    <3> HIDE DEF x
    <3> QED BY <1>1, <1>2, <3>1
  <2> QED BY <1>1, <2>1, <2>2
<1>5. a + L <= a + K
  <2>1. CASE a + L = w + 1
    BY <1>1, <1>2, <2>1
  <2>2. CASE \E e \in R : a + L = e.ts \div iv + 1
    <3> PICK e \in R : a + L = e.ts \div iv + 1
      BY <2>2
    <3> DEFINE x == e.ts \div iv
    <3>1. x \in Nat /\ x < a + K /\ a + L = x + 1
      BY <1>1, <1>3
    <3> HIDE DEF x
    <3> QED BY <1>1, <1>2, <3>1
  <2> QED BY <1>2, <2>1, <2>2
<1> QED BY <1>1, <1>2, <1>4, <1>5

-----------------------------------------------------------------------------
(* The top values.                                                         *)

Larger(by, c) == {v \in DOMAIN by : by[v] > c}
AtLeast(by, c) == {v \in DOMAIN by : by[v] >= c}

(* c is the i-th largest count.                                            *)
Picks(by, i, c) ==
  c \in Range(by) /\ Cardinality(Larger(by, c)) < i /\ i <= Cardinality(AtLeast(by, c))

Counts(by) == IsFiniteSet(DOMAIN by) /\ by \in [DOMAIN by -> Nat]

(* There is an i-th largest count as long as there are i counts: the       *)
(* largest of those that at least i of them reach.                         *)
LEMMA TopExists ==
  ASSUME NEW by, Counts(by), NEW i \in 1 .. Cardinality(DOMAIN by)
  PROVE  \E c : Picks(by, i, c)
<1> DEFINE D == DOMAIN by
           S == {c \in Range(by) : i <= Cardinality(AtLeast(by, c))}
<1>1. IsFiniteSet(D) /\ Cardinality(D) \in Nat /\ i \in Nat /\ i # 0 /\ D # {}
      /\ \A v \in D : by[v] \in Nat
  BY FS_CardinalityType, FS_EmptySet DEF Counts
<1>2. Range(by) = {by[v] : v \in D}
  BY DEF Range
<1>3. IsFiniteSet(Range(by)) /\ Range(by) \in SUBSET Nat /\ Range(by) # {}
  <2>1. IsFiniteSet({by[v] : v \in D})
    <3> HIDE DEF D
    <3> QED BY <1>1, FiniteImage
  <2> QED BY <1>1, <1>2, <2>1
<1>4. \A c : /\ AtLeast(by, c) \subseteq D /\ Larger(by, c) \subseteq D
             /\ Cardinality(AtLeast(by, c)) \in Nat /\ Cardinality(Larger(by, c)) \in Nat
  <2> TAKE c
  <2>1. AtLeast(by, c) \subseteq D /\ Larger(by, c) \subseteq D
    BY DEF AtLeast, Larger
  <2> QED BY <1>1, <2>1, FS_Subset, FS_CardinalityType
<1>5. S # {}
  <2>1. PICK c \in Range(by) : \A y \in Range(by) : c <= y
    BY <1>3, LeastExists
  <2>2. AtLeast(by, c) = D
    <3>1. \A v \in D : by[v] >= c
      BY <1>1, <1>2, <1>3, <2>1
    <3> QED BY <3>1 DEF AtLeast
  <2> QED BY <2>1, <2>2
<1>6. S \in SUBSET Nat /\ IsFiniteSet(S)
  <2>1. S \subseteq Range(by)
    OBVIOUS
  <2> QED BY <1>3, <2>1, FS_Subset
<1>7. PICK c \in S : \A y \in S : y <= c
  <2> HIDE DEF S
  <2> QED BY <1>5, <1>6, FiniteGreatest
<1>8. c \in Range(by) /\ i <= Cardinality(AtLeast(by, c)) /\ c \in Nat
  BY <1>3, <1>7
<1>9. Cardinality(Larger(by, c)) < i
  <2> SUFFICES ASSUME i <= Cardinality(Larger(by, c)) PROVE FALSE
    BY <1>1, <1>4
  <2> DEFINE V == {by[v] : v \in Larger(by, c)}
  <2>1. Larger(by, c) # {}
    BY <1>1, <1>4, FS_EmptySet
  <2>2. V \in SUBSET Nat /\ V # {}
    BY <1>1, <1>4, <2>1
  <2>3. PICK d \in V : \A y \in V : d <= y
    <3> HIDE DEF V
    <3> QED BY <2>2, LeastExists
  <2>4. PICK u \in Larger(by, c) : d = by[u]
    BY <2>3
  <2>5. u \in D /\ d > c /\ d \in Range(by) /\ d \in Nat
    BY <1>1, <1>2, <2>4 DEF Larger
  <2>6. AtLeast(by, d) = Larger(by, c)
    <3>1. \A v \in D : by[v] > c => by[v] >= d
      BY <1>1, <2>3, <2>5 DEF Larger
    <3>2. \A v \in D : by[v] >= d => by[v] > c
      BY <1>1, <1>8, <2>5
    <3> QED BY <3>1, <3>2 DEF AtLeast, Larger
  <2>7. d \in S
    BY <2>5, <2>6
  <2>8. d <= c
    <3> HIDE DEF S
    <3> QED BY <1>7, <2>7
  <2> QED BY <1>8, <2>5, <2>8
<1> QED BY <1>8, <1>9 DEF Picks

(* The other end: c is the i-th smallest count.                            *)
Smaller(by, c) == {v \in DOMAIN by : by[v] < c}
AtMost(by, c) == {v \in DOMAIN by : by[v] <= c}

Takes(by, i, c) ==
  c \in Range(by) /\ Cardinality(Smaller(by, c)) < i /\ i <= Cardinality(AtMost(by, c))

(* It exists too: the smallest of those that at least i do not exceed.     *)
LEMMA TakeExists ==
  ASSUME NEW by, Counts(by), NEW i \in 1 .. Cardinality(DOMAIN by)
  PROVE  \E c : Takes(by, i, c)
<1> DEFINE D == DOMAIN by
           S == {c \in Range(by) : i <= Cardinality(AtMost(by, c))}
<1>1. IsFiniteSet(D) /\ Cardinality(D) \in Nat /\ i \in Nat /\ i # 0 /\ D # {}
      /\ \A v \in D : by[v] \in Nat
  BY FS_CardinalityType, FS_EmptySet DEF Counts
<1>2. Range(by) = {by[v] : v \in D}
  BY DEF Range
<1>3. IsFiniteSet(Range(by)) /\ Range(by) \in SUBSET Nat /\ Range(by) # {}
  <2>1. IsFiniteSet({by[v] : v \in D})
    <3> HIDE DEF D
    <3> QED BY <1>1, FiniteImage
  <2> QED BY <1>1, <1>2, <2>1
<1>4. \A c : /\ AtMost(by, c) \subseteq D /\ Smaller(by, c) \subseteq D
             /\ Cardinality(AtMost(by, c)) \in Nat /\ Cardinality(Smaller(by, c)) \in Nat
             /\ IsFiniteSet(Smaller(by, c))
  <2> TAKE c
  <2>1. AtMost(by, c) \subseteq D /\ Smaller(by, c) \subseteq D
    BY DEF AtMost, Smaller
  <2> QED BY <1>1, <2>1, FS_Subset, FS_CardinalityType
<1>5. S # {}
  <2>1. PICK c \in Range(by) : \A y \in Range(by) : y <= c
    BY <1>3, FiniteGreatest
  <2>2. AtMost(by, c) = D
    <3>1. \A v \in D : by[v] <= c
      BY <1>1, <1>2, <1>3, <2>1
    <3> QED BY <3>1 DEF AtMost
  <2> QED BY <2>1, <2>2
<1>6. S \in SUBSET Nat
  BY <1>3
<1>7. PICK c \in S : \A y \in S : c <= y
  <2> HIDE DEF S
  <2> QED BY <1>5, <1>6, LeastExists
<1>8. c \in Range(by) /\ i <= Cardinality(AtMost(by, c)) /\ c \in Nat
  BY <1>3, <1>7
<1>9. Cardinality(Smaller(by, c)) < i
  <2> SUFFICES ASSUME i <= Cardinality(Smaller(by, c)) PROVE FALSE
    BY <1>1, <1>4
  <2> DEFINE V == {by[v] : v \in Smaller(by, c)}
  <2>1. Smaller(by, c) # {}
    BY <1>1, <1>4, FS_EmptySet
  <2>2. V \in SUBSET Nat /\ V # {}
    BY <1>1, <1>4, <2>1
  <2>3. PICK d \in V : \A y \in V : y <= d
    <3>1. IsFiniteSet(V)
      BY <1>4, FiniteImage
    <3> HIDE DEF V
    <3> QED BY <2>2, <3>1, FiniteGreatest
  <2>4. PICK u \in Smaller(by, c) : d = by[u]
    BY <2>3
  <2>5. u \in D /\ d < c /\ d \in Range(by) /\ d \in Nat
    BY <1>1, <1>2, <2>4 DEF Smaller
  <2>6. AtMost(by, d) = Smaller(by, c)
    <3>1. \A v \in D : by[v] < c => by[v] <= d
      BY <1>1, <2>3, <2>5 DEF Smaller
    <3>2. \A v \in D : by[v] <= d => by[v] < c
      BY <1>1, <1>8, <2>5
    <3> QED BY <3>1, <3>2 DEF AtMost, Smaller
  <2>7. d \in S
    BY <2>5, <2>6
  <2>8. c <= d
    <3> HIDE DEF S
    <3> QED BY <1>7, <2>7
  <2> QED BY <1>8, <2>5, <2>8
<1> QED BY <1>8, <1>9 DEF Takes

(* How long a list of counts is.                                           *)
Short(by, size) == IF Cardinality(DOMAIN by) < size THEN Cardinality(DOMAIN by) ELSE size

(* The list of the largest counts, and that of the smallest.               *)
LEMMA TopIs ==
  ASSUME NEW by, Counts(by), NEW size \in Nat
  PROVE  /\ Cardinality(DOMAIN by) \in Nat
         /\ Top(by, size, "desc") = [i \in 1 .. Short(by, size) |-> CHOOSE c : Picks(by, i, c)]
         /\ Top(by, size, "asc") = [i \in 1 .. Short(by, size) |-> CHOOSE c : Takes(by, i, c)]
<1> DEFINE Pick(i, order) ==
             CHOOSE c \in Range(by) : /\ Cardinality({v \in DOMAIN by : Before(order, by[v], c)}) < i
                                      /\ i <= Cardinality({v \in DOMAIN by : ~Before(order, c, by[v])})
<1>1. Cardinality(DOMAIN by) \in Nat /\ \A v \in DOMAIN by : by[v] \in Nat
  BY FS_CardinalityType DEF Counts
<1>2. Range(by) \subseteq Nat
  BY <1>1 DEF Range
<1>3. \A c \in Range(by) :
         /\ {v \in DOMAIN by : Before("desc", by[v], c)} = Larger(by, c)
         /\ {v \in DOMAIN by : ~Before("desc", c, by[v])} = AtLeast(by, c)
         /\ {v \in DOMAIN by : Before("asc", by[v], c)} = Smaller(by, c)
         /\ {v \in DOMAIN by : ~Before("asc", c, by[v])} = AtMost(by, c)
  BY <1>1, <1>2 DEF Before, Larger, AtLeast, Smaller, AtMost
<1>4. \A i : Pick(i, "desc") = CHOOSE c : Picks(by, i, c)
  <2> TAKE i
  <2>1. \A c : (/\ c \in Range(by) /\ Cardinality({v \in DOMAIN by : Before("desc", by[v], c)}) < i
               /\ i <= Cardinality({v \in DOMAIN by : ~Before("desc", c, by[v])})) <=> Picks(by, i, c)
    BY <1>3 DEF Picks
  <2> QED BY <2>1
<1>5. \A i : Pick(i, "asc") = CHOOSE c : Takes(by, i, c)
  <2> TAKE i
  <2>1. \A c : (/\ c \in Range(by) /\ Cardinality({v \in DOMAIN by : Before("asc", by[v], c)}) < i
               /\ i <= Cardinality({v \in DOMAIN by : ~Before("asc", c, by[v])})) <=> Takes(by, i, c)
    BY <1>3 DEF Takes
  <2> QED BY <2>1
<1>6. \A order : Top(by, size, order) = [i \in 1 .. Short(by, size) |-> Pick(i, order)]
  BY DEF Top, Short
<1> HIDE DEF Pick
<1> QED BY <1>1, <1>4, <1>5, <1>6

(* Every value but the absent one was counted, the absent one never.       *)
OnlyPresent(by) ==
  /\ Counts(by) /\ \A v \in DOMAIN by : v # None => by[v] > 0
  /\ None \in DOMAIN by => by[None] = 0

(* Without the absent value, the i-th largest count is the same one.       *)
LEMMA PresentPicks ==
  ASSUME NEW by, OnlyPresent(by)
  PROVE  /\ Counts(Present(by))
         /\ Cardinality(DOMAIN Present(by)) <= Cardinality(DOMAIN by)
         /\ \A i \in 1 .. Cardinality(DOMAIN Present(by)) : \A c :
              /\ Picks(by, i, c) <=> Picks(Present(by), i, c)
              /\ Picks(by, i, c) => c \in Nat /\ c > 0
         /\ \A i \in 1 .. Cardinality(DOMAIN by) : \A c :
              i > Cardinality(DOMAIN Present(by)) => (Picks(by, i, c) <=> c = 0)
<1> DEFINE p == Present(by)
           D == DOMAIN by
           P == D \ {None}
           m == Cardinality(P)
           n == Cardinality(D)
<1>1. IsFiniteSet(D) /\ (\A v \in D : by[v] \in Nat) /\ n \in Nat
  BY FS_CardinalityType DEF OnlyPresent, Counts
<1>2. /\ DOMAIN p = P /\ P \subseteq D /\ (\A v \in P : p[v] = by[v] /\ by[v] \in Nat /\ by[v] > 0)
      /\ (None \in D => by[None] = 0)
  BY <1>1 DEF Present, OnlyPresent
<1>3. IsFiniteSet(P) /\ m \in Nat /\ m <= n
  BY <1>1, <1>2, FS_Subset, FS_CardinalityType
<1>4. Counts(p)
  <2>1. p \in [P -> Nat]
    BY <1>1 DEF Present
  <2> QED BY <1>2, <1>3, <2>1 DEF Counts
<1>5. n <= m + 1
  <2>1. Cardinality(P \union {None}) = m + 1
    BY <1>3, FS_AddElement
  <2>2. IsFiniteSet(P \union {None}) /\ D \subseteq P \union {None}
    BY <1>3, FS_AddElement
  <2> QED BY <2>1, <2>2, FS_Subset
<1>6. Range(by) = {by[v] : v \in D} /\ Range(p) = {p[v] : v \in P}
  BY <1>2 DEF Range
<1>7. \A c \in Nat : c > 0 => Larger(by, c) = Larger(p, c) /\ AtLeast(by, c) = AtLeast(p, c) /\ AtLeast(by, c) \subseteq P
  <2> TAKE c \in Nat
  <2> HAVE c > 0
  <2>1. \A v \in D : by[v] > c \/ by[v] >= c => v \in P
    BY <1>1, <1>2
  <2> QED BY <1>2, <2>1 DEF Larger, AtLeast
<1>8. \A c : c \in Range(p) <=> c \in Range(by) /\ c # 0
  BY <1>1, <1>2, <1>6
<1>9. Range(by) \subseteq Nat
  BY <1>1, <1>6
<1>10. 0 \in Range(by) => None \in D
  BY <1>2, <1>6
<1>11. Larger(by, 0) = P
  BY <1>1, <1>2 DEF Larger
<1>12. ASSUME NEW i \in 1 .. m, NEW c
       PROVE  (Picks(by, i, c) <=> Picks(p, i, c)) /\ (Picks(by, i, c) => c \in Nat /\ c > 0)
  <2>1. Picks(by, i, c) => c # 0
    <3> SUFFICES ASSUME Picks(by, i, 0) PROVE FALSE
      OBVIOUS
    <3>1. m < i
      BY <1>11 DEF Picks
    <3> QED BY <1>3, <3>1
  <2>2. Picks(by, i, c) => c \in Nat /\ c > 0
    <3>1. Picks(by, i, c) => c \in Range(by)
      BY DEF Picks
    <3> QED BY <1>9, <2>1, <3>1
  <2>3. Picks(p, i, c) => c \in Nat /\ c > 0
    <3>1. Picks(p, i, c) => c \in Range(p)
      BY DEF Picks
    <3> QED BY <1>8, <1>9, <3>1
  <2>4. CASE c \in Nat /\ c > 0
    <3>1. Larger(by, c) = Larger(p, c) /\ AtLeast(by, c) = AtLeast(p, c) /\ (c \in Range(p) <=> c \in Range(by))
      BY <1>7, <1>8, <2>4
    <3> QED BY <2>4, <3>1 DEF Picks
  <2> QED BY <2>2, <2>3, <2>4
<1>13. ASSUME NEW i \in 1 .. n, NEW c, i > m
       PROVE  Picks(by, i, c) <=> c = 0
  <2>1. n = m + 1 /\ i = n
    BY <1>1, <1>3, <1>5, <1>13
  <2>2. None \in D
    <3> SUFFICES ASSUME None \notin D PROVE FALSE
      OBVIOUS
    <3>1. P = D
      OBVIOUS
    <3> HIDE DEF P, D
    <3> QED BY <1>3, <2>1, <3>1
  <2>3. 0 \in Range(by) /\ AtLeast(by, 0) = D
    BY <1>1, <1>2, <1>6, <2>2 DEF AtLeast
  <2>4. Picks(by, i, 0)
    <3> HIDE DEF D, P
    <3> QED BY <1>1, <1>3, <1>11, <2>1, <2>3 DEF Picks
  <2>5. Picks(by, i, c) => c = 0
    <3> SUFFICES ASSUME Picks(by, i, c), c # 0 PROVE FALSE
      OBVIOUS
    <3>1. c \in Nat /\ c > 0
      BY <1>9 DEF Picks
    <3>2. AtLeast(by, c) \subseteq P
      BY <1>7, <3>1
    <3>3. Cardinality(AtLeast(by, c)) <= m /\ Cardinality(AtLeast(by, c)) \in Nat
      BY <1>3, <3>2, FS_Subset, FS_CardinalityType
    <3>4. i <= Cardinality(AtLeast(by, c))
      BY DEF Picks
    <3> QED BY <1>3, <1>13, <3>3, <3>4
  <2> QED BY <2>4, <2>5
<1>14. Cardinality(DOMAIN p) = m
  BY <1>2
<1> HIDE DEF p, m, n
<1>15. /\ Cardinality(DOMAIN p) <= n
       /\ \A i \in 1 .. Cardinality(DOMAIN p) : \A c :
            (Picks(by, i, c) <=> Picks(p, i, c)) /\ (Picks(by, i, c) => c \in Nat /\ c > 0)
       /\ \A i \in 1 .. n : \A c : i > Cardinality(DOMAIN p) => (Picks(by, i, c) <=> c = 0)
  BY <1>3, <1>12, <1>13, <1>14
<1> QED BY <1>4, <1>15 DEF p, n

(* The numbers of an interval in ascending order.                          *)
LEMMA AscendingInterval ==
  ASSUME NEW a \in Nat, NEW b \in Nat, a <= b
  PROVE  Ascending(a + 1 .. b) = [n \in 1 .. b - a |-> a + n]
<1> DEFINE S == a + 1 .. b
           R(x) == Cardinality({y \in S : y < x})
           Nth(n) == CHOOSE x \in S : R(x) = n - 1
<1>1. Cardinality(S) = b - a
  <2>1. Cardinality(a + 1 .. b) = IF a + 1 > b THEN 0 ELSE b - (a + 1) + 1
    BY FS_Interval
  <2> QED BY <2>1
<1>2. ASSUME NEW x \in S PROVE R(x) = x - a - 1
  <2>1. {y \in S : y < x} = a + 1 .. x - 1 /\ x \in Nat /\ a + 1 <= x
    OBVIOUS
  <2>2. Cardinality(a + 1 .. x - 1) = IF a + 1 > x - 1 THEN 0 ELSE (x - 1) - (a + 1) + 1
    BY <2>1, FS_Interval
  <2>3. Cardinality(a + 1 .. x - 1) = x - a - 1
    BY <2>1, <2>2
  <2> HIDE DEF S
  <2> QED BY <2>1, <2>3
<1>3. \A x \in S : x \in Nat /\ R(x) = x - a - 1
  BY <1>2
<1>4. \A n \in 1 .. b - a : a + n \in S
  OBVIOUS
<1>5. Ascending(S) = [n \in 1 .. Cardinality(S) |-> Nth(n)]
  BY DEF Ascending
<1> HIDE DEF R, S
<1>6. \A n \in 1 .. b - a : Nth(n) = a + n
  <2> TAKE n \in 1 .. b - a
  <2>1. a + n \in S /\ \A x \in S : (R(x) = n - 1 <=> x = a + n)
    BY <1>3, <1>4
  <2> QED BY <2>1
<1> HIDE DEF Nth
<1>7. Ascending(S) = [n \in 1 .. b - a |-> a + n]
  BY <1>1, <1>5, <1>6
<1> QED BY <1>7 DEF S

(* What agg keeps of a list of counts.                                     *)
Kept(top) ==
  LET kept == Ascending({i \in DOMAIN top : top[i] > 0})
  IN  [n \in DOMAIN kept |-> top[kept[n]]]

AboveZero(top, a, b) == {i \in DOMAIN top : top[i] > 0} = a + 1 .. b

(* What it keeps of a list whose zeros are outside a + 1 .. b.             *)
LEMMA KeptIs ==
  ASSUME NEW top, NEW a \in Nat, NEW b \in Nat, NEW d, a + d = b, d \in Nat,
         AboveZero(top, a, b)
  PROVE  Kept(top) = [n \in 1 .. d |-> top[a + n]]
<1>1. Ascending({i \in DOMAIN top : top[i] > 0}) = [n \in 1 .. d |-> a + n]
  <2>1. {i \in DOMAIN top : top[i] > 0} = a + 1 .. b
    BY DEF AboveZero
  <2>2. b - a = d /\ a <= b
    OBVIOUS
  <2>3. Ascending(a + 1 .. b) = [n \in 1 .. d |-> a + n]
    BY <2>2, AscendingInterval
  <2> QED BY <2>1, <2>3
<1> QED BY <1>1 DEF Kept

(* Dropping the zero after the LIMIT, as agg does, or the absent value     *)
(* before it, as agg_stream does, leaves the same list of largest counts.  *)
LEMMA DroppedZero ==
  ASSUME NEW by, OnlyPresent(by), NEW size \in Nat
  PROVE  Kept(Top(by, size, "desc")) = Top(Present(by), size, "desc")
<1> DEFINE top == Top(by, size, "desc")
           p == Present(by)
           m == Cardinality(DOMAIN p)
           n == Cardinality(DOMAIN by)
           Least2(x) == IF x < size THEN x ELSE size
<1>1. Counts(by) /\ Counts(p)
  BY PresentPicks DEF OnlyPresent
<1>2. n \in Nat /\ m \in Nat
  BY <1>1, TopIs
<1>3. top = [i \in 1 .. Least2(n) |-> CHOOSE c : Picks(by, i, c)]
  BY <1>1, TopIs DEF Short
<1>4. Top(p, size, "desc") = [i \in 1 .. Least2(m) |-> CHOOSE c : Picks(p, i, c)]
  BY <1>1, TopIs DEF Short
<1> HIDE DEF p, top
<1>5. /\ m <= n
      /\ \A i \in 1 .. m : \A c : (Picks(by, i, c) <=> Picks(p, i, c)) /\ (Picks(by, i, c) => c \in Nat /\ c > 0)
      /\ \A i \in 1 .. n : \A c : i > m => (Picks(by, i, c) <=> c = 0)
  BY PresentPicks DEF p
<1> HIDE DEF n
<1>6. \A i \in 1 .. m : (CHOOSE c : Picks(by, i, c)) = (CHOOSE c : Picks(p, i, c)) /\ (CHOOSE c : Picks(by, i, c)) > 0
  <2> TAKE i \in 1 .. m
  <2>1. (CHOOSE c : Picks(by, i, c)) = (CHOOSE c : Picks(p, i, c))
    BY <1>5
  <2>2. \E c : Picks(p, i, c)
    BY <1>1, TopExists
  <2>3. \E c : Picks(by, i, c)
    BY <1>5, <2>2
  <2>4. Picks(by, i, CHOOSE c : Picks(by, i, c))
    BY <2>3
  <2> QED BY <1>5, <2>1, <2>4
<1>7. \A i \in 1 .. n : i > m => (CHOOSE c : Picks(by, i, c)) = 0
  BY <1>5
<1> HIDE DEF m
<1>8. {i \in DOMAIN top : top[i] > 0} = 1 .. Least2(m)
  <2>1. DOMAIN top = 1 .. Least2(n) /\ 1 .. Least2(n) \subseteq 1 .. n /\ 1 .. Least2(m) \subseteq 1 .. Least2(n)
        /\ 1 .. Least2(m) \subseteq 1 .. m
    BY <1>2, <1>3, <1>5
  <2>2. \A i \in 1 .. Least2(n) : top[i] = CHOOSE c : Picks(by, i, c)
    BY <1>3
  <2>3. \A i \in 1 .. Least2(n) : i \notin 1 .. Least2(m) => i > m
    BY <1>2
  <2>4. \A i \in 1 .. Least2(m) : top[i] > 0
    BY <1>6, <2>1, <2>2
  <2>5. \A i \in 1 .. Least2(n) : i \notin 1 .. Least2(m) => top[i] = 0
    BY <1>7, <2>1, <2>2, <2>3
  <2> HIDE DEF Least2
  <2> QED BY <2>1, <2>4, <2>5
<1>9. \A i \in 1 .. Least2(m) : top[i] = CHOOSE c : Picks(p, i, c)
  <2>1. 1 .. Least2(m) \subseteq 1 .. Least2(n) /\ 1 .. Least2(m) \subseteq 1 .. m
    BY <1>2, <1>5
  <2> HIDE DEF Least2
  <2> QED BY <1>3, <1>6, <2>1
<1>10. Least2(m) \in Nat
  BY <1>2
<1> HIDE DEF Least2
<1>11. Kept(top) = [i \in 1 .. Least2(m) |-> top[i]]
  <2>1. 0 + Least2(m) = Least2(m) /\ 0 \in Nat /\ AboveZero(top, 0, Least2(m))
    BY <1>8, <1>10 DEF AboveZero
  <2>2. Kept(top) = [i \in 1 .. Least2(m) |-> top[0 + i]]
    BY ONLY <1>10, <2>1, KeptIs
  <2>3. \A i \in 1 .. Least2(m) : 0 + i = i
    BY <1>10
  <2> QED BY <2>2, <2>3
<1>12. Kept(top) = Top(p, size, "desc")
  BY <1>4, <1>9, <1>11
<1> QED BY <1>12 DEF p, top

(* The absent value is the first of the smallest counts, and the others    *)
(* follow in the order they have without it.                               *)
LEMMA AbsentFirst ==
  ASSUME NEW by, OnlyPresent(by), None \in DOMAIN by
  PROVE  /\ Cardinality(DOMAIN by) = Cardinality(DOMAIN Present(by)) + 1
         /\ \A c : Takes(by, 1, c) <=> c = 0
         /\ \A i \in 1 .. Cardinality(DOMAIN Present(by)) : \A c :
              /\ Takes(by, i + 1, c) <=> Takes(Present(by), i, c)
              /\ Takes(by, i + 1, c) => c \in Nat /\ c > 0
<1> DEFINE p == Present(by)
           D == DOMAIN by
           P == D \ {None}
           m == Cardinality(P)
<1>1. IsFiniteSet(D) /\ (\A v \in D : by[v] \in Nat) /\ by[None] = 0
  BY DEF OnlyPresent, Counts
<1>2. DOMAIN p = P /\ P \subseteq D /\ \A v \in P : p[v] = by[v] /\ by[v] \in Nat /\ by[v] > 0
  BY <1>1 DEF Present, OnlyPresent
<1>3. IsFiniteSet(P) /\ m \in Nat
  BY <1>1, <1>2, FS_Subset, FS_CardinalityType
<1>4. Cardinality(D) = m + 1
  <2>1. Cardinality(P \union {None}) = m + 1
    BY <1>3, FS_AddElement
  <2>2. P \union {None} = D
    OBVIOUS
  <2> QED BY <2>1, <2>2
<1>5. Range(by) = {by[v] : v \in D} /\ Range(p) = {p[v] : v \in P}
  BY <1>2 DEF Range
<1>6. Range(by) \subseteq Nat /\ 0 \in Range(by) /\ \A c : c \in Range(p) <=> c \in Range(by) /\ c # 0
  BY <1>1, <1>2, <1>5
<1>7. ASSUME NEW c \in Nat, c > 0
      PROVE  /\ Cardinality(Smaller(by, c)) = Cardinality(Smaller(p, c)) + 1
             /\ Cardinality(AtMost(by, c)) = Cardinality(AtMost(p, c)) + 1
             /\ Cardinality(Smaller(p, c)) \in Nat /\ Cardinality(AtMost(p, c)) \in Nat
  <2>1. Smaller(by, c) = Smaller(p, c) \union {None} /\ AtMost(by, c) = AtMost(p, c) \union {None}
        /\ Smaller(p, c) \subseteq P /\ AtMost(p, c) \subseteq P
    BY <1>1, <1>2, <1>7 DEF Smaller, AtMost
  <2>2. IsFiniteSet(Smaller(p, c)) /\ IsFiniteSet(AtMost(p, c))
    BY <1>3, <2>1, FS_Subset
  <2>3. None \notin Smaller(p, c) /\ None \notin AtMost(p, c)
    BY <2>1
  <2> QED BY <2>1, <2>2, <2>3, FS_AddElement, FS_CardinalityType
<1>8. Smaller(by, 0) = {} /\ AtMost(by, 0) = {None}
  BY <1>1, <1>2 DEF Smaller, AtMost
<1>9. Cardinality(Smaller(by, 0)) = 0 /\ Cardinality(AtMost(by, 0)) = 1
  BY <1>8, FS_EmptySet, FS_Singleton
<1>10. \A c : Takes(by, 1, c) <=> c = 0
  <2>1. Takes(by, 1, 0)
    BY <1>6, <1>9 DEF Takes
  <2>2. ASSUME NEW c, Takes(by, 1, c), c # 0 PROVE FALSE
    <3>1. c \in Nat /\ c > 0
      BY <1>6, <2>2 DEF Takes
    <3>2. Cardinality(Smaller(by, c)) >= 1
      BY <1>7, <3>1
    <3> QED BY <1>7, <2>2, <3>1, <3>2 DEF Takes
  <2> QED BY <2>1, <2>2
<1>11. ASSUME NEW i \in 1 .. m, NEW c
       PROVE  (Takes(by, i + 1, c) <=> Takes(p, i, c)) /\ (Takes(by, i + 1, c) => c \in Nat /\ c > 0)
  <2>1. i \in Nat /\ i > 0
    BY <1>3
  <2>2. Takes(by, i + 1, c) => c \in Nat /\ c > 0
    <3>1. Takes(by, i + 1, c) => c \in Nat
      BY <1>6 DEF Takes
    <3>2. ~Takes(by, i + 1, 0)
      BY <1>9, <2>1 DEF Takes
    <3> QED BY <3>1, <3>2
  <2>3. Takes(p, i, c) => c \in Nat /\ c > 0
    BY <1>6 DEF Takes
  <2>4. CASE c \in Nat /\ c > 0
    <3>1. c \in Range(p) <=> c \in Range(by)
      BY <1>6, <2>4
    <3> DEFINE x == Cardinality(Smaller(p, c))
               y == Cardinality(AtMost(p, c))
    <3>2. x \in Nat /\ y \in Nat /\ Cardinality(Smaller(by, c)) = x + 1 /\ Cardinality(AtMost(by, c)) = y + 1
      BY <1>7, <2>4
    <3>3. Takes(p, i, c) <=> c \in Range(p) /\ x < i /\ i <= y
      BY DEF Takes
    <3> HIDE DEF x, y
    <3>4. Takes(by, i + 1, c) <=> c \in Range(by) /\ x + 1 < i + 1 /\ i + 1 <= y + 1
      BY <3>2 DEF Takes
    <3> QED BY <2>1, <2>4, <3>1, <3>2, <3>3, <3>4
  <2> QED BY <2>2, <2>3, <2>4
<1>12. DOMAIN p = P
  BY <1>2
<1> HIDE DEF p, P, D
<1> QED BY <1>4, <1>10, <1>11, <1>12 DEF p, D

(* In ascending order agg's LIMIT has one place less for a value.          *)
LEMMA FirstDropped ==
  ASSUME NEW by, OnlyPresent(by), NEW size \in Nat \ {0}
  PROVE  Kept(Top(by, size, "asc"))
           = Top(Present(by), IF None \in DOMAIN by THEN size - 1 ELSE size, "asc")
<1> DEFINE top == Top(by, size, "asc")
           p == Present(by)
           m == Cardinality(DOMAIN p)
<1>1. Counts(by) /\ Counts(p) /\ m \in Nat /\ IsFiniteSet(DOMAIN by) /\ Cardinality(DOMAIN by) \in Nat
  <2>1. Counts(by) /\ Counts(p)
    BY PresentPicks DEF OnlyPresent
  <2> QED BY <2>1, FS_CardinalityType DEF Counts
<1>2. top = [i \in 1 .. Short(by, size) |-> CHOOSE c : Takes(by, i, c)]
  BY <1>1, TopIs
<1>3. \A n \in Nat : Top(p, n, "asc") = [i \in 1 .. Short(p, n) |-> CHOOSE c : Takes(p, i, c)]
  BY <1>1, TopIs
<1>4. \A i \in 1 .. m : Takes(p, i, CHOOSE c : Takes(p, i, c))
  <2> TAKE i \in 1 .. m
  <2>1. \E c : Takes(p, i, c)
    BY <1>1, TakeExists
  <2> QED BY <2>1
<1>5. CASE None \in DOMAIN by
  <2> DEFINE b == Short(p, size - 1)
  <2>1. /\ Cardinality(DOMAIN by) = m + 1
        /\ \A c : Takes(by, 1, c) <=> c = 0
        /\ \A i \in 1 .. m : \A c : (Takes(by, i + 1, c) <=> Takes(p, i, c)) /\ (Takes(by, i + 1, c) => c \in Nat /\ c > 0)
    BY <1>5, AbsentFirst
  <2> HIDE DEF m, p, top
  <2>2. b = (IF m < size - 1 THEN m ELSE size - 1) /\ Short(by, size) = b + 1 /\ b \in Nat /\ b <= m
    BY <1>1, <2>1 DEF Short, m
  <2> HIDE DEF b
  <2>3. top[1] = 0 /\ DOMAIN top = 1 .. b + 1
    BY <1>2, <2>1, <2>2
  <2>4. \A i \in 1 .. b : top[1 + i] = (CHOOSE c : Takes(p, i, c)) /\ top[1 + i] > 0
    <3> TAKE i \in 1 .. b
    <3>1. i \in 1 .. m /\ 1 + i \in 1 .. b + 1 /\ 1 + i = i + 1
      BY <1>1, <2>2
    <3>2. top[1 + i] = CHOOSE c : Takes(by, i + 1, c)
      BY <1>2, <2>2, <3>1
    <3>3. (CHOOSE c : Takes(by, i + 1, c)) = CHOOSE c : Takes(p, i, c)
      BY <2>1, <3>1
    <3>4. Takes(by, i + 1, top[1 + i])
      BY <1>4, <2>1, <3>1, <3>2, <3>3
    <3> QED BY <2>1, <3>1, <3>2, <3>3, <3>4
  <2>5. {i \in DOMAIN top : top[i] > 0} = 1 + 1 .. b + 1
    <3>1. \A i \in 1 .. b + 1 : i = 1 \/ (i - 1 \in 1 .. b /\ 1 + (i - 1) = i)
      BY <2>2
    <3>2. \A i \in 1 .. b + 1 : top[i] > 0 <=> i # 1
      BY <2>3, <2>4, <3>1
    <3>3. \A i : i \in {k \in DOMAIN top : top[k] > 0} <=> i \in 1 .. b + 1 /\ i # 1
      BY <2>3, <3>2
    <3>4. \A i : i \in 1 .. b + 1 /\ i # 1 <=> i \in 1 + 1 .. b + 1
      BY <2>2
    <3>5. \A i : i \in {k \in DOMAIN top : top[k] > 0} <=> i \in 1 + 1 .. b + 1
      BY <3>3, <3>4
    <3> QED BY <3>5, Zenon
  <2>6. Kept(top) = [n \in 1 .. b |-> top[1 + n]]
    <3>1. 1 \in Nat /\ b + 1 \in Nat /\ 1 + b = b + 1 /\ b \in Nat
      BY <2>2
    <3>2. AboveZero(top, 1, b + 1)
      BY <2>5 DEF AboveZero
    <3> QED BY ONLY <3>1, <3>2, KeptIs
  <2>7. Top(p, size - 1, "asc") = [i \in 1 .. b |-> CHOOSE c : Takes(p, i, c)]
    <3>1. size - 1 \in Nat
      OBVIOUS
    <3> QED BY <1>3, <3>1 DEF b
  <2>8. Kept(top) = Top(p, size - 1, "asc")
    BY <2>4, <2>6, <2>7
  <2> QED BY <1>5, <2>8 DEF p, top
<1>6. CASE None \notin DOMAIN by
  <2>1. p = by
    <3>1. by = [v \in DOMAIN by |-> by[v]] /\ DOMAIN by \ {None} = DOMAIN by
      BY <1>1, <1>6 DEF Counts
    <3> QED BY <3>1 DEF Present
  <2>2. top = Top(p, size, "asc") /\ DOMAIN top = 1 .. Short(by, size)
    BY <1>2, <2>1
  <2>3. \A i \in 1 .. m : \A c : Takes(p, i, c) => c > 0
    <3>1. \A v \in DOMAIN by : by[v] > 0
      BY <1>6 DEF OnlyPresent
    <3>2. \A c \in Range(by) : c > 0
      BY <3>1 DEF Range
    <3> HIDE DEF p
    <3> QED BY <2>1, <3>2 DEF Takes
  <2>4. \A i \in DOMAIN top : top[i] > 0
    <3> TAKE i \in DOMAIN top
    <3>1. i \in 1 .. m
      BY <1>1, <2>1, <2>2 DEF Short
    <3>2. top[i] = CHOOSE c : Takes(p, i, c)
      BY <1>2, <2>1, <2>2
    <3> HIDE DEF p, m, top
    <3> QED BY <1>4, <2>3, <3>1, <3>2
  <2> DEFINE b == Short(by, size)
  <2>5. b \in Nat
    BY <1>1 DEF Short
  <2> HIDE DEF b, top, p
  <2>6. {i \in DOMAIN top : top[i] > 0} = 0 + 1 .. b
    <3>1. 0 + 1 .. b = 1 .. b
      OBVIOUS
    <3> QED BY <2>2, <2>4, <3>1 DEF b
  <2>7. Kept(top) = [n \in 1 .. b |-> top[0 + n]]
    <3>1. 0 \in Nat /\ 0 + b = b
      BY <2>5
    <3>2. AboveZero(top, 0, b)
      BY <2>6 DEF AboveZero
    <3> QED BY ONLY <2>5, <3>1, <3>2, KeptIs
  <2>8. 1 .. b = DOMAIN top /\ \A n \in 1 .. b : 0 + n = n
    BY <2>2, <2>5 DEF b
  <2>9. top = [n \in DOMAIN top |-> top[n]]
    BY <1>2
  <2>10. Kept(top) = Top(p, size, "asc")
    BY <2>2, <2>7, <2>8, <2>9
  <2> QED BY <1>6, <2>10 DEF p, top
<1> QED BY <1>5, <1>6

(* Leaving out the frequent values cuts the list of the smallest counts.   *)
LEMMA RareIsPrefix ==
  ASSUME NEW by, Counts(by), NEW size \in Nat
  PROVE  IsPrefix(Top(Rare(by), size, "asc"), Top(by, size, "asc"))
<1> DEFINE r == Rare(by)
           D == DOMAIN by
           P == {v \in D : by[v] <= RareDocs}
           m == Cardinality(P)
           n == Cardinality(D)
           s == Top(r, size, "asc")
           t == Top(by, size, "asc")
<1>1. IsFiniteSet(D) /\ (\A v \in D : by[v] \in Nat) /\ n \in Nat /\ RareDocs \in Nat
  BY FS_CardinalityType, QueryAssumption DEF Counts
<1>2. DOMAIN r = P /\ P \subseteq D /\ \A v \in P : r[v] = by[v] /\ by[v] <= RareDocs
  BY DEF Rare
<1>3. IsFiniteSet(P) /\ m \in Nat /\ m <= n
  BY <1>1, <1>2, FS_Subset, FS_CardinalityType
<1>4. Counts(r)
  <2>1. r \in [P -> Nat]
    BY <1>1 DEF Rare
  <2> QED BY <1>2, <1>3, <2>1 DEF Counts
<1>5. Range(by) = {by[v] : v \in D} /\ Range(r) = {r[v] : v \in P}
  BY <1>2 DEF Range
<1>6. Range(by) \subseteq Nat /\ \A c : c \in Range(r) <=> c \in Range(by) /\ c <= RareDocs
  BY <1>1, <1>2, <1>5
<1>7. \A c \in Nat : c <= RareDocs => Smaller(by, c) = Smaller(r, c) /\ AtMost(by, c) = AtMost(r, c)
  <2> TAKE c \in Nat
  <2> HAVE c <= RareDocs
  <2>1. \A v \in D : by[v] < c \/ by[v] <= c => v \in P
    BY <1>1
  <2> QED BY <1>2, <2>1 DEF Smaller, AtMost
<1>8. ASSUME NEW i \in 1 .. m, NEW c PROVE Takes(by, i, c) <=> Takes(r, i, c)
  <2>1. Takes(by, i, c) \/ Takes(r, i, c) => c \in Nat
    BY <1>6 DEF Takes
  <2>2. Takes(r, i, c) => c <= RareDocs
    BY <1>6 DEF Takes
  <2>3. ASSUME Takes(by, i, c), c \in Nat, ~(c <= RareDocs) PROVE FALSE
    <3>1. P \subseteq Smaller(by, c)
      BY <1>1, <2>3 DEF Smaller
    <3>2. IsFiniteSet(Smaller(by, c))
      <4>1. Smaller(by, c) \subseteq D
        BY DEF Smaller
      <4> QED BY <1>1, <4>1, FS_Subset
    <3>3. m <= Cardinality(Smaller(by, c)) /\ Cardinality(Smaller(by, c)) \in Nat
      BY <3>1, <3>2, FS_Subset, FS_CardinalityType
    <3>4. Cardinality(Smaller(by, c)) < i
      BY <2>3 DEF Takes
    <3> QED BY <1>3, <3>3, <3>4
  <2>4. CASE c \in Nat /\ c <= RareDocs
    BY <1>6, <1>7, <2>4 DEF Takes
  <2> QED BY <2>1, <2>2, <2>3, <2>4
<1>9. DOMAIN r = P
  BY <1>2
<1> HIDE DEF r, P, D
<1> DEFINE a == IF m < size THEN m ELSE size
           b == IF n < size THEN n ELSE size
<1>10. s = [i \in 1 .. a |-> CHOOSE c : Takes(r, i, c)]
  BY <1>4, <1>9, TopIs DEF Short
<1>11. t = [i \in 1 .. b |-> CHOOSE c : Takes(by, i, c)]
  BY TopIs DEF Short, D
<1>12. a \in Nat /\ b \in Nat /\ a <= b /\ a <= m
  BY <1>1, <1>3
<1> HIDE DEF m, n, a, b, s, t
<1>13. Len(s) = a /\ Len(t) = b
  BY <1>10, <1>11, <1>12
<1>14. \A i \in 1 .. a : s[i] = t[i]
  <2> TAKE i \in 1 .. a
  <2>1. i \in 1 .. m /\ i \in 1 .. b
    BY <1>3, <1>12
  <2>2. (CHOOSE c : Takes(r, i, c)) = CHOOSE c : Takes(by, i, c)
    BY <1>8, <2>1
  <2> QED BY <1>10, <1>11, <2>1, <2>2
<1>15. SubSeq(s, 1, a) = SubSeq(t, 1, a)
  <2> DEFINE R == {s[i] : i \in 1 .. a}
             x == SubSeq(s, 1, a)
             y == SubSeq(t, 1, a)
  <2>1. \A i \in 1 .. a : s[i] \in R /\ t[i] \in R
    BY <1>14
  <2>2. 1 \in Int /\ a \in Int /\ a - 1 + 1 = a /\ (1 <= a \/ a = 0) /\ \A i \in 1 .. a : 1 + i - 1 = i
    BY <1>12
  <2> HIDE DEF R
  <2>3. x \in Seq(R) /\ Len(x) = a /\ \A i \in 1 .. a : x[i] = s[i]
    BY <2>1, <2>2, SubSeqProperties
  <2>4. y \in Seq(R) /\ Len(y) = a /\ \A i \in 1 .. a : y[i] = t[i]
    BY <2>1, <2>2, SubSeqProperties
  <2> HIDE DEF x, y
  <2>5. x = y
    BY <1>14, <2>3, <2>4
  <2> QED BY <2>5 DEF x, y
<1>16. IsPrefix(s, t)
  BY <1>12, <1>13, <1>15 DEF IsPrefix
<1> QED BY <1>16 DEF s, t, r

(* What is counted per host.                                               *)
LEMMA HostsCounted ==
  ASSUME NEW R \in SUBSET Catalogue
  PROVE  OnlyPresent(CountOf(R, "host"))
<1> DEFINE by == CountOf(R, "host")
           D == {e.f["host"] : e \in R}
           Of(v) == {e \in R : e.f["host"] = v}
<1>1. IsFiniteSet(R)
  BY EventsAre
<1>2. IsFiniteSet(D)
  <2> DEFINE g == [e \in R |-> e.f["host"]]
  <2>1. D = {g[e] : e \in R}
    OBVIOUS
  <2> HIDE DEF g, D
  <2> QED BY <1>1, <2>1, FiniteImage
<1>3. \A v \in D : Cardinality(Of(v)) \in Nat /\ Cardinality(Of(v)) > 0
  <2> TAKE v \in D
  <2>1. IsFiniteSet(Of(v)) /\ Of(v) # {}
    BY <1>1, FS_Subset
  <2> HIDE DEF Of
  <2> QED BY <2>1, FS_CardinalityType, FS_EmptySet
<1>4. by = [v \in D |-> IF v = None THEN 0 ELSE Cardinality(Of(v))]
  BY DEF CountOf
<1> HIDE DEF by, D, Of
<1>5. DOMAIN by = D /\ by \in [D -> Nat] /\ (\A v \in D : v # None => by[v] > 0) /\ (None \in D => by[None] = 0)
  BY <1>3, <1>4
<1>6. OnlyPresent(by)
  BY <1>2, <1>5 DEF OnlyPresent, Counts
<1> QED BY <1>6 DEF by

-----------------------------------------------------------------------------
(* The reports and the search.                                             *)

(* A report that SQLite does not refuse reads every element without the    *)
(* joined row, and so lists what the search lists.                         *)
LEMMA RowsAreSearch ==
  ASSUME QueryInv, ~SqliteFails(elements)
  PROVE  SqliteRows(elements) = SqliteSearch(elements)
<1>1. DOMAIN elements = 1 .. Len(elements) /\ \A i \in DOMAIN elements : ElementOK(elements[i])
  BY DEF QueryInv
<1>2. ASSUME NEW i \in DOMAIN elements, NEW e, NEW j, NEW k, SqliteWhere(elements[i], e, j)
      PROVE  SqliteWhere(elements[i], e, k)
  <2> DEFINE el == elements[i]
  <2>1. ElementOK(el)
    BY <1>1, <1>2
  <2>2. el.neg \/ \A a \in Joined : ~Joins(el, a)
    BY DEF SqliteFails
  <2> HIDE DEF el
  <2>3. SqliteWhere(el, e, j) => SqliteWhere(el, e, k)
    BY <2>1, <2>2, RowIndependent
  <2> QED BY <1>2, <2>3 DEF el
<1>3. \A e, j, k : SqliteRow(elements, e, j) => SqliteRow(elements, e, k)
  BY <1>2 DEF SqliteRow
<1>4. \A e \in Catalogue : \E j : j \in JoinRows(elements, e)
  <2> TAKE e \in Catalogue
  <2>1. \A a \in Joined : \E n : n \in ArrayRows(elements, e, a)
    <3> TAKE a \in Joined
    <3>1. e.dns[a] \in Seq(ToSet(e.dns[a]))
      BY QueryAssumption DEF IsEvent, DnsArrays
    <3>2. e.dns[a] # <<>> => 1 \in DOMAIN e.dns[a]
      BY <3>1
    <3> QED BY <3>2 DEF ArrayRows
  <2>2. PICK q : q \in ArrayRows(elements, e, "queries")
    BY <2>1 DEF Joined
  <2>3. PICK r : r \in ArrayRows(elements, e, "answers")
    BY <2>1 DEF Joined
  <2>4. [queries |-> q, answers |-> r] \in JoinRows(elements, e)
    BY <2>2, <2>3 DEF JoinRows
  <2> QED BY <2>4
<1> QED BY <1>3, <1>4 DEF SqliteRows, SqliteSearch

(* Elasticsearch's counts and histograms are of the search, unless it has  *)
(* an alternative that they leave out.                                     *)
LEMMA DocsAreSearch ==
  ASSUME Shoulds(elements) = {}
  PROVE  ElasticDocs(elements) = ElasticSearch(elements)
BY DEF ElasticDocs, ElasticSearch, Should

(* Where both datastores read every element alike and SQLite does not      *)
(* refuse the report, both list the same and leave nothing out.            *)
LEMMA SameReports ==
  ASSUME QueryInv, ~SqliteFails(elements), \A i \in DOMAIN elements : Same(elements[i])
  PROVE  SqliteSearch(elements) = ElasticSearch(elements) /\ Shoulds(elements) = {}
<1>1. \A i \in DOMAIN elements : ElementOK(elements[i])
  BY DEF QueryInv
<1>2. \A i \in DOMAIN elements :
         (\A a \in Joined : ~Joins(elements[i], a)) /\ Clause(elements[i]) # "should"
  <2> TAKE i \in DOMAIN elements
  <2>1. \A a \in Joined : Joins(elements[i], a) => elements[i].neg /\ elements[i].kind = "KeyValue"
    BY DEF SqliteFails, Joins
  <2>2. elements[i].kind = "KeyValue" => ~elements[i].neg /\ elements[i].key # "@ip"
    BY DEF Same, TimeKinds, FlagKinds
  <2>3. ElementOK(elements[i])
    BY <1>1
  <2>4. Clause(elements[i]) # "should"
    BY <2>2, <2>3, ClauseOf
  <2> QED BY <2>1, <2>2, <2>4
<1>3. Shoulds(elements) = {}
  BY <1>2 DEF Shoulds
<1>4. OneJoin(elements)
  <2>1. \A a \in Joined : {i \in DOMAIN elements : Joins(elements[i], a)} = {}
    BY <1>2
  <2> QED BY <2>1, FS_EmptySet DEF OneJoin
<1>5. SearchAgrees
  BY QueryInvAgrees
<1> QED BY <1>3, <1>4, <1>5 DEF SearchAgrees

(* Without a range both histograms are empty, and so is the store.         *)
LEMMA NoHistogram ==
  ASSUME NoRange(elements), NEW asked
  PROVE  /\ SqliteHistogram(elements, asked) = <<>> /\ ElasticHistogram(elements, asked) = <<>>
         /\ Total(<<>>) = 0 /\ \A iv : Tiles(<<>>, iv)
         /\ Catalogue = {} /\ Cardinality({}) = 0
<1>1. SqliteHistogram(elements, asked) = <<>> /\ ElasticHistogram(elements, asked) = <<>>
  BY DEF SqliteHistogram, ElasticHistogram
<1>2. Total(<<>>) = 0
  <2>1. Grid({}, 0, 0, 1) = <<>>
    BY DEF Grid
  <2>2. {} \in SUBSET Catalogue /\ Covers({}, 0, 0, 1) /\ 1 \in Nat \ {0}
    BY DEF Covers
  <2>3. Total(Grid({}, 0, 0, 1)) = Cardinality({})
    BY <2>2, GridTotal
  <2> QED BY <2>1, <2>3, FS_EmptySet
<1>3. \A iv : Tiles(<<>>, iv)
  BY DEF Tiles
<1> QED BY <1>1, <1>2, <1>3, FS_EmptySet DEF NoRange

(* Each histogram counts every event that its clauses select in one of its *)
(* adjacent buckets, and the same events make the same histogram.          *)
LEMMA HistogramsCount ==
  ASSUME QueryInv, NEW asked \in Intervals
  PROVE  LET iv == IntervalOf(elements, asked)
             sq == SqliteHistogram(elements, asked)
             el == ElasticHistogram(elements, asked)
             begun == NoRange(elements) \/ Earliest(elements) <= Now
         IN  /\ Total(sq) = Cardinality(SqliteRows(elements)) /\ Tiles(sq, iv)
             /\ begun => Total(el) = Cardinality(ElasticDocs(elements)) /\ Tiles(el, iv)
             /\ begun /\ SqliteRows(elements) = ElasticDocs(elements) => sq = el
<1> DEFINE iv == IntervalOf(elements, asked)
           sq == SqliteHistogram(elements, asked)
           el == ElasticHistogram(elements, asked)
           from == Earliest(elements)
           a == from \div iv
           w == Now \div iv
           R == SqliteRows(elements)
           E == ElasticDocs(elements)
<1>1. R \in SUBSET Catalogue /\ E \in SUBSET Catalogue
  BY DEF SqliteRows, ElasticDocs
<1>2. CASE NoRange(elements)
  <2>1. sq = <<>> /\ el = <<>> /\ R = {} /\ E = {}
    BY <1>1, <1>2, NoHistogram
  <2> HIDE DEF sq, el, R, E, iv
  <2>2. Total(sq) = Cardinality(R) /\ Tiles(sq, iv) /\ Total(el) = Cardinality(E) /\ Tiles(el, iv) /\ sq = el
    BY <1>2, <2>1, NoHistogram
  <2> QED BY <2>2 DEF sq, el, R, E, iv
<1>3. CASE ~NoRange(elements)
  <2>1. iv \in Nat \ {0} /\ from \in Nat /\ Now \in Nat
    BY <1>3, IntervalIs, EarliestIs, QueryAssumption
  <2>2. a \in Nat /\ w \in Nat /\ (from <= Now => a <= w)
    <3> HIDE DEF iv, from
    <3> QED BY <2>1, CellFacts
  <2>3. PICK K : Spans(K, R, a, w, iv) /\ sq = Grid(R, a, K, iv)
    BY <1>3, SqliteIsGrid
  <2>4. \A X \in SUBSET Catalogue : \A L : Spans(L, X, a, w, iv) =>
          Total(Grid(X, a, L, iv)) = Cardinality(X) /\ Tiles(Grid(X, a, L, iv), iv)
    <3> HIDE DEF a, w, iv
    <3> TAKE X \in SUBSET Catalogue
    <3> TAKE L
    <3> HAVE Spans(L, X, a, w, iv)
    <3>1. L \in Nat /\ Covers(X, a, L, iv)
      BY DEF Spans, Covers
    <3>2. Total(Grid(X, a, L, iv)) = Cardinality(X)
      BY <2>1, <2>2, <3>1, GridTotal
    <3>3. Tiles(Grid(X, a, L, iv), iv)
      BY <2>1, <2>2, <3>1, GridTiles
    <3> QED BY <3>2, <3>3
  <2>5. Total(sq) = Cardinality(R) /\ Tiles(sq, iv)
    <3> HIDE DEF a, w, iv, sq, R
    <3> QED BY <1>1, <2>3, <2>4
  <2>6. ASSUME from <= Now
        PROVE  /\ Total(el) = Cardinality(E) /\ Tiles(el, iv)
               /\ R = E => sq = el
    <3>1. PICK L : Spans(L, E, a, w, iv) /\ el = Grid(E, a, L, iv)
      BY <1>3, <2>6, ElasticIsGrid
    <3> HIDE DEF a, w, iv, el, sq, E, R, from
    <3>2. Total(el) = Cardinality(E) /\ Tiles(el, iv)
      BY <1>1, <2>4, <3>1
    <3>3. R = E => L = K
      BY <1>1, <2>1, <2>2, <2>3, <2>6, <3>1, SpansOnce
    <3> QED BY <2>3, <3>1, <3>2, <3>3
  <2> HIDE DEF iv, sq, el, R, E
  <2>7. /\ Total(sq) = Cardinality(R) /\ Tiles(sq, iv)
        /\ from <= Now => Total(el) = Cardinality(E) /\ Tiles(el, iv)
        /\ from <= Now /\ R = E => sq = el
    BY <2>5, <2>6
  <2> QED BY <1>3, <2>7 DEF iv, sq, el, R, E
<1> QED BY <1>2, <1>3

(* A histogram of a query that is read alike is one histogram.             *)
LEMMA QueryInvHistograms ==
  ASSUME QueryInv, NEW asked \in Intervals
  PROVE  HistogramsAgree(asked)
<1> DEFINE iv == IntervalOf(elements, asked)
           sq == SqliteHistogram(elements, asked)
           el == ElasticHistogram(elements, asked)
           begun == NoRange(elements) \/ Earliest(elements) <= Now
           R == SqliteRows(elements)
           E == ElasticDocs(elements)
<1>1. /\ Total(sq) = Cardinality(R) /\ Tiles(sq, iv)
      /\ begun => Total(el) = Cardinality(E) /\ Tiles(el, iv)
      /\ begun /\ R = E => sq = el
  BY HistogramsCount
<1> HIDE DEF iv, sq, el, begun, R, E
<1>2. ASSUME ~SqliteFails(elements)
      PROVE  R = SqliteSearch(elements)
  BY <1>2, RowsAreSearch DEF R
<1>3. ASSUME Shoulds(elements) = {}
      PROVE  E = ElasticSearch(elements)
  BY <1>3, DocsAreSearch DEF E
<1>4. ASSUME ~SqliteFails(elements), \A i \in DOMAIN elements : Same(elements[i])
      PROVE  R = E
  <2>1. SqliteSearch(elements) = ElasticSearch(elements) /\ Shoulds(elements) = {}
    BY <1>4, SameReports
  <2> QED BY <1>2, <1>3, <1>4, <2>1
<1>5. /\ ~SqliteFails(elements) => Total(sq) = Cardinality(SqliteSearch(elements)) /\ Tiles(sq, iv)
      /\ Shoulds(elements) = {} /\ begun =>
           Total(el) = Cardinality(ElasticSearch(elements)) /\ Tiles(el, iv)
      /\ (~SqliteFails(elements) /\ begun /\ \A i \in DOMAIN elements : Same(elements[i])) => sq = el
  BY <1>1, <1>2, <1>3, <1>4
<1> QED BY <1>5 DEF HistogramsAgree, iv, sq, el, begun

(* The top values are the same lists, but for the rows that agg drops and  *)
(* the ones that rare_terms leaves out.                                    *)
LEMMA QueryInvTops == QueryInv => TopsAgree
<1> DEFINE R == SqliteRows(elements)
           D == ElasticSearch(elements)
           lacking == \E e \in SqliteSearch(elements) : e.f["host"] = None
           SameEnds(n) == /\ SqliteTop(R, "host", n, "desc") = StreamTop(R, "host", n, "desc")
                          /\ SqliteTop(R, "host", n, "asc")
                               = StreamTop(R, "host", IF lacking THEN n - 1 ELSE n, "asc")
           SameTop(n) == /\ SqliteTop(R, "host", n, "desc") = ElasticTop(D, "host", n, "desc")
                         /\ IsPrefix(ElasticTop(D, "host", n, "asc"), StreamTop(R, "host", n, "asc"))
           by == CountOf(R, "host")
<1> HAVE QueryInv
<1>1. OnlyPresent(by)
  <2>1. R \in SUBSET Catalogue
    BY DEF SqliteRows
  <2> QED BY <2>1, HostsCounted
<1>2. None \in DOMAIN by <=> \E e \in R : e.f["host"] = None
  BY DEF CountOf
<1>3. \A n, order : /\ SqliteTop(R, "host", n, order) = Kept(Top(by, n, order))
                    /\ StreamTop(R, "host", n, order) = Top(Present(by), n, order)
  BY DEF SqliteTop, StreamTop, Kept
<1> HIDE DEF R
<1>4. ASSUME ~SqliteFails(elements)
      PROVE  R = SqliteSearch(elements)
  BY <1>4, RowsAreSearch DEF R
<1>5. ASSUME ~SqliteFails(elements) PROVE \A n \in 1 .. 3 : SameEnds(n)
  <2> TAKE n \in 1 .. 3
  <2>1. None \in DOMAIN by <=> lacking
    BY <1>2, <1>4, <1>5
  <2> HIDE DEF by, lacking
  <2>2. n \in Nat /\ n \in Nat \ {0}
    OBVIOUS
  <2>3. Kept(Top(by, n, "desc")) = Top(Present(by), n, "desc")
    BY <1>1, <2>2, DroppedZero
  <2>4. Kept(Top(by, n, "asc")) = Top(Present(by), IF None \in DOMAIN by THEN n - 1 ELSE n, "asc")
    BY <1>1, <2>2, FirstDropped
  <2> QED BY <1>3, <2>1, <2>3, <2>4
<1>6. ASSUME ~SqliteFails(elements), \A i \in DOMAIN elements : Same(elements[i])
      PROVE  \A n \in 1 .. 3 : SameTop(n)
  <2>1. SqliteSearch(elements) = ElasticSearch(elements) /\ Shoulds(elements) = {}
    BY <1>6, SameReports
  <2>2. R = ElasticSearch(elements)
    BY <1>4, <1>6, <2>1
  <2>3. \A n : /\ ElasticTop(D, "host", n, "desc") = Top(Present(by), n, "desc")
               /\ ElasticTop(D, "host", n, "asc") = Top(Rare(Present(by)), n, "asc")
    BY <2>2 DEF ElasticTop
  <2>4. Counts(Present(by))
    <3> HIDE DEF by
    <3> QED BY <1>1, PresentPicks
  <2> HIDE DEF by
  <2>5. ASSUME NEW n \in 1 .. 3 PROVE SameTop(n)
    <3>1. n \in Nat
      OBVIOUS
    <3>2. IsPrefix(Top(Rare(Present(by)), n, "asc"), Top(Present(by), n, "asc"))
      BY <2>4, <3>1, RareIsPrefix
    <3>3. SqliteTop(R, "host", n, "desc") = StreamTop(R, "host", n, "desc")
      BY <1>5, <1>6
    <3> QED BY <1>3, <2>3, <3>2, <3>3
  <2> QED BY <2>5
<1> HIDE DEF SameEnds, SameTop
<1>7. /\ ~SqliteFails(elements) => \A n \in 1 .. 3 : SameEnds(n)
      /\ (~SqliteFails(elements) /\ \A i \in DOMAIN elements : Same(elements[i])) => \A n \in 1 .. 3 : SameTop(n)
  BY <1>5, <1>6
<1> QED BY <1>7 DEF TopsAgree, SameEnds, SameTop, R

(* ReportsAgree follows from what the parser pushes.                       *)
LEMMA QueryInvReports == QueryInv => ReportsAgree
BY QueryInvHistograms, QueryInvTops, RowsAreSearch DEF ReportsAgree

(* The count, the histogram and the top values are those of the events     *)
(* that the search lists, and the histogram has every bucket from the      *)
(* beginning of the range to now once; both datastores report the same of  *)
(* what they read alike.                                                   *)
THEOREM ReportsCountTheSearch == QuerySpec => []ReportsAgree
BY QueryTypes, QueryInvReports, PTL
=============================================================================
