---------------------------- MODULE ConfigState ----------------------------
(***************************************************************************)
(* The state an EveBox server keeps twice: in the configuration database   *)
(* and in memory.  Sessions are in a table and in the SessionStore cache,  *)
(* auto-archive filters in a table and in AutoArchive.  A request handler  *)
(* is one task; its steps are separated where it awaits the database, and  *)
(* there other handlers run, the client may go away (the handler is then   *)
(* dropped) and the server may be restarted.  The evebox command removes   *)
(* users through a connection of its own.                                  *)
(*                                                                         *)
(* Passwords, user names and the conditions of a filter are left out: a    *)
(* filter is a model value, and two entries are the same filter if equal.  *)
(***************************************************************************)
EXTENDS Integers, FiniteSets

CONSTANTS
    Nil,          \* no user, no session, no row
    Accounts,     \* the users that may exist
    Tokens,       \* session ids, each generated once
    Filters,      \* auto-archive filters
    RowIds,       \* ids of rows of the filters table, never used again
    Reqs,         \* requests that may be handled at the same time
    PoolSize,     \* connections of the pool (30 in the code)
    SessionLife,  \* lifetime of a session row (one week)
    MaxClock,     \* bound on the clock
    MaxRequests,  \* bound on requests
    MaxMishaps    \* bound on failing statements, dropped handlers and restarts

ASSUME ConfigAssumption ==
    /\ {PoolSize, SessionLife} \subseteq Nat \ {0}
    /\ {MaxClock, MaxRequests, MaxMishaps} \subseteq Nat
    /\ IsFiniteSet(RowIds) /\ IsFiniteSet(Reqs)

VARIABLES
    users,    \* the users table
    sess,     \* the sessions table: [Tokens -> [user, exp] or Nil]
    cache,    \* SessionStore: [Tokens -> user or Nil]
    used,     \* tokens generated
    known,    \* tokens handed to a client
    rows,     \* the filters table: [RowIds -> filter or Nil]
    ids,      \* row ids given out
    live,     \* AutoArchive: the filters applied to events
    pool,     \* free connections
    req,      \* [Reqs -> the request handled, see Request]
    clock, requests, mishaps,
    out,      \* tokens whose logout was answered
    excused,  \* tokens whose logout raced with a look-up, failed or was dropped
    added,    \* filters whose add was answered
    dels      \* filters a delete of which was begun

cfgVars == <<users, sess, cache, used, known, rows, ids, live, pool, req, clock, requests,
             mishaps, out, excused, added, dels>>

Ops == {"use", "logout", "add", "delete"}
Request == [pc : {"login", "save", "acquire", "db", "expire", "put", "logout", "insert", "live",
                  "row", "remove", "unlive"},
            op : Ops \union {"login"}, tok : Tokens \union {Nil}, user : Accounts \union {Nil},
            filter : Filters \union {Nil}, id : RowIds \union {Nil}, stale : BOOLEAN]

ASSUME NilAssumption == Nil \notin Filters /\ Nil \notin Request

Idle(r) == req[r] = Nil
At(r, pc) == req[r] # Nil /\ req[r].pc = pc
RowFilters == {rows[i] : i \in RowIds} \ {Nil}

ConfigInit ==
    /\ users = Accounts
    /\ sess = [t \in Tokens |-> Nil] /\ cache = [t \in Tokens |-> Nil]
    /\ used = {} /\ known = {}
    /\ rows = [i \in RowIds |-> Nil] /\ ids = {} /\ live = {}
    /\ pool = PoolSize
    /\ req = [r \in Reqs |-> Nil]
    /\ clock = 0 /\ requests = 0 /\ mishaps = 0
    /\ out = {} /\ excused = {} /\ added = {} /\ dels = {}

\* A committed write makes the snapshot of every open transaction stale.
Stale(q, self) == [r \in Reqs |-> IF r # self /\ q[r] # Nil /\ q[r].pc = "remove"
                                  THEN [q[r] EXCEPT !.stale = TRUE] ELSE q[r]]
Goto(r, pc) == [req EXCEPT ![r].pc = pc]
Answered(r) == [req EXCEPT ![r] = Nil]
Mishap == mishaps < MaxMishaps /\ mishaps' = mishaps + 1

\* Bounds: a token for every login, a row for every add.
Pending(op) == Cardinality({r \in Reqs : req[r] # Nil /\ req[r].op = op})
TokensLeft == Pending("login") < Cardinality(Tokens \ used)
RowsLeft == Pending("add") < Cardinality(RowIds \ ids)

----------------------------------------------------------------------------
(* Logging in. *)

\* A request with the user's name and password, anything else is refused.
Credentials(u) == u \in users

SessionRow(u) == [user |-> u, exp |-> clock + SessionLife]

\* post: the credentials are compared with the users table ...
Login(r, u) ==
    /\ Idle(r) /\ requests < MaxRequests
    /\ Credentials(u) /\ TokensLeft
    /\ req' = [req EXCEPT ![r] = [pc |-> "login", op |-> "login", tok |-> Nil, user |-> u,
                                  filter |-> Nil, id |-> Nil, stale |-> FALSE]]
    /\ requests' = requests + 1
    /\ UNCHANGED <<users, sess, cache, used, known, rows, ids, live, pool, clock, mishaps, out, excused, added, dels>>

\* ... and the new session is put into the cache ...
CreateSession(r) ==
    /\ At(r, "login")
    /\ \E t \in Tokens \ used :
          /\ used' = used \union {t}
          /\ cache' = [cache EXCEPT ![t] = req[r].user]
          /\ req' = [req EXCEPT ![r].pc = "save", ![r].tok = t]
    /\ UNCHANGED <<users, sess, known, rows, ids, live, pool, clock, requests, mishaps, out, excused, added, dels>>

\* ... before it is saved.  The insert fails if the user has been removed (the
\* row refers to it) or for another reason; that is logged, and the client gets
\* its cookie in any case.
SaveSession(r) ==
    /\ At(r, "save")
    /\ LET t == req[r].tok u == req[r].user
       IN  /\ known' = known \union {t}
           /\ \/ /\ u \in users
                 /\ sess' = [sess EXCEPT ![t] = SessionRow(u)]
                 /\ req' = Stale(Answered(r), r)
                 /\ UNCHANGED mishaps
              \/ /\ u \notin users
                 /\ req' = Answered(r) /\ UNCHANGED <<sess, mishaps>>
              \/ Mishap /\ req' = Answered(r) /\ UNCHANGED sess
    /\ UNCHANGED <<users, cache, used, rows, ids, live, pool, clock, requests, out, excused, added, dels>>

----------------------------------------------------------------------------
(* SessionExtractor, which every other handler starts with. *)

\* What the handler does once the session is known.
Enter(r, q) ==
    CASE q.op = "use"    -> [req EXCEPT ![r] = Nil]
      [] q.op = "logout" -> [req EXCEPT ![r] = [q EXCEPT !.pc = "logout"]]
      [] q.op = "add"    -> [req EXCEPT ![r] = IF q.filter \in live THEN Nil ELSE [q EXCEPT !.pc = "insert"]]
      [] q.op = "delete" -> [req EXCEPT ![r] = [q EXCEPT !.pc = "row"]]

\* The state the handler changes before it first awaits the database: logout
\* empties the cache, and an add finds its filter among the live ones.
EnterEffects(q) ==
    /\ cache' = IF q.op = "logout" THEN [cache EXCEPT ![q.tok] = Nil] ELSE cache
    /\ excused' = IF q.op = "logout" /\ \E r \in Reqs : At(r, "put") /\ req[r].tok = q.tok
                  THEN excused \union {q.tok} ELSE excused
    /\ added' = IF q.op = "add" /\ q.filter \in live THEN added \union {q.filter} ELSE added

\* A session in the cache is taken as it is, without a look at the database.
Authenticate(r, t, op, f, i) ==
    LET q == [pc |-> "acquire", op |-> op, tok |-> t, user |-> Nil, filter |-> f, id |-> i, stale |-> FALSE]
    IN  /\ Idle(r) /\ requests < MaxRequests /\ t \in known
        /\ requests' = requests + 1
        /\ \/ cache[t] # Nil /\ req' = Enter(r, q) /\ EnterEffects(q)
           \/ cache[t] = Nil /\ req' = [req EXCEPT ![r] = q] /\ UNCHANGED <<cache, excused, added>>
        /\ UNCHANGED <<users, sess, used, known, rows, ids, live, pool, clock, mishaps, out, dels>>

\* get_user_by_session takes a connection for its transaction, or gives up when
\* the pool's acquire timeout passes: the request is refused.
AcquireConn(r) ==
    /\ At(r, "acquire")
    /\ \/ pool > 0 /\ pool' = pool - 1 /\ req' = Goto(r, "db")
       \/ pool = 0 /\ req' = Answered(r) /\ UNCHANGED pool
    /\ UNCHANGED <<users, sess, cache, used, known, rows, ids, live, clock, requests, mishaps, out, excused, added, dels>>

\* The row joined with its user.  An expired one makes the handler ask the pool
\* for a second connection while it holds the first.
LookUp(r) ==
    /\ At(r, "db")
    /\ LET row == sess[req[r].tok]
       IN  \/ /\ row = Nil
              /\ req' = Answered(r) /\ pool' = pool + 1
           \/ /\ row # Nil /\ clock > row.exp
              /\ req' = Goto(r, "expire") /\ UNCHANGED pool
           \/ /\ row # Nil /\ clock <= row.exp
              /\ req' = [req EXCEPT ![r].pc = "put", ![r].user = row.user]
              /\ pool' = pool + 1
    /\ UNCHANGED <<users, sess, cache, used, known, rows, ids, live, clock, requests, mishaps, out, excused, added, dels>>

\* Variant: the second connection is waited for without a timeout.
ExpireSessionsBlocking(r) ==
    /\ At(r, "expire") /\ pool > 0
    /\ sess' = [t \in Tokens |-> IF sess[t] # Nil /\ sess[t].exp < clock THEN Nil ELSE sess[t]]
    /\ req' = Stale(Answered(r), r)
    /\ pool' = pool + 1
    /\ UNCHANGED <<users, cache, used, known, rows, ids, live, clock, requests, mishaps, out, excused, added, dels>>

\* expire_sessions deletes every expired row, with a second connection if there
\* is one; a timeout is logged.  The request is refused either way.
ExpireSessions(r) ==
    /\ At(r, "expire")
    /\ \/ /\ pool > 0
          /\ sess' = [t \in Tokens |-> IF sess[t] # Nil /\ sess[t].exp < clock THEN Nil ELSE sess[t]]
          /\ req' = Stale(Answered(r), r)
       \/ pool = 0 /\ req' = Answered(r) /\ UNCHANGED sess
    /\ pool' = pool + 1
    /\ UNCHANGED <<users, cache, used, known, rows, ids, live, clock, requests, mishaps, out, excused, added, dels>>

\* The session found is put into the cache, whatever happened since it was read,
\* and the handler proper begins.
CacheSession(r) ==
    /\ At(r, "put")
    /\ LET q == req[r]
       IN  /\ req' = Enter(r, q)
           /\ added' = IF q.op = "add" /\ q.filter \in live THEN added \union {q.filter} ELSE added
           /\ cache' = [cache EXCEPT ![q.tok] = IF q.op = "logout" THEN Nil ELSE q.user]
           /\ excused' = IF q.op = "logout" /\ \E s \in Reqs \ {r} : At(s, "put") /\ req[s].tok = q.tok
                         THEN excused \union {q.tok} ELSE excused
    /\ UNCHANGED <<users, sess, used, known, rows, ids, live, pool, clock, requests, mishaps, out, dels>>

\* Variant: only the cache forgets the session.
DeleteSessionCached(r) ==
    /\ At(r, "logout")
    /\ out' = out \union {req[r].tok}
    /\ req' = Answered(r)
    /\ UNCHANGED <<users, sess, cache, used, known, rows, ids, live, pool, clock, requests, mishaps, excused, added, dels>>

\* logout, after the cache: the row goes too, unless the statement fails, which
\* nobody is told.
DeleteSession(r) ==
    /\ At(r, "logout")
    /\ LET t == req[r].tok
       IN  /\ out' = out \union {t}
           /\ \/ /\ sess' = [sess EXCEPT ![t] = Nil]
                 /\ excused' = IF cache[t] # Nil \/ \E s \in Reqs : At(s, "put") /\ req[s].tok = t
                               THEN excused \union {t} ELSE excused
                 /\ req' = Stale(Answered(r), r) /\ UNCHANGED mishaps
              \/ Mishap /\ excused' = excused \union {t} /\ req' = Answered(r) /\ UNCHANGED sess
    /\ UNCHANGED <<users, cache, used, known, rows, ids, live, pool, clock, requests, added, dels>>

----------------------------------------------------------------------------
(* Auto-archive filters. *)

\* Variant: the filter is in force before its row is written.
InsertFilterLate(r) ==
    /\ At(r, "insert")
    /\ live' = live \union {req[r].filter}
    /\ req' = Goto(r, "live")
    /\ UNCHANGED <<users, sess, cache, used, known, rows, ids, pool, clock, requests, mishaps, out, excused, added, dels>>

\* add_filter, after the check that the filter is not live: the row ...
InsertFilter(r) ==
    /\ At(r, "insert")
    /\ \E i \in RowIds \ ids :
          /\ \A j \in RowIds \ ids : i <= j
          /\ rows' = [rows EXCEPT ![i] = req[r].filter]
          /\ ids' = ids \union {i}
    /\ req' = Stale(Goto(r, "live"), r)
    /\ UNCHANGED <<users, sess, cache, used, known, live, pool, clock, requests, mishaps, out, excused, added, dels>>

\* ... and then the filter in memory.
AddLive(r) ==
    /\ At(r, "live")
    /\ live' = live \union {req[r].filter}
    /\ added' = added \union {req[r].filter}
    /\ req' = Answered(r)
    /\ UNCHANGED <<users, sess, cache, used, known, rows, ids, pool, clock, requests, mishaps, out, excused, dels>>

\* delete_filter reads the row, which fixes the snapshot of its transaction ...
ReadFilterRow(r) ==
    /\ At(r, "row")
    /\ LET f == rows[req[r].id]
       IN  IF f = Nil THEN req' = Answered(r) /\ UNCHANGED dels
           ELSE /\ req' = [req EXCEPT ![r].pc = "remove", ![r].filter = f]
                /\ dels' = dels \union {f}
    /\ UNCHANGED <<users, sess, cache, used, known, rows, ids, live, pool, clock, requests, mishaps, out, excused, added>>

\* ... deletes it, which fails if another transaction has written since ...
DeleteFilterRow(r) ==
    /\ At(r, "remove")
    /\ IF req[r].stale
       THEN req' = Goto(r, "unlive") /\ UNCHANGED rows
       ELSE /\ rows' = [rows EXCEPT ![req[r].id] = Nil]
            /\ req' = Stale(Goto(r, "unlive"), r)
    /\ UNCHANGED <<users, sess, cache, used, known, ids, live, pool, clock, requests, mishaps, out, excused, added, dels>>

\* ... and takes the filter out of memory in either case.
RemoveLive(r) ==
    /\ At(r, "unlive")
    /\ live' = live \ {req[r].filter}
    /\ req' = Answered(r)
    /\ UNCHANGED <<users, sess, cache, used, known, rows, ids, pool, clock, requests, mishaps, out, excused, added, dels>>

----------------------------------------------------------------------------
(* Surroundings. *)

\* The client goes away: the handler is dropped at its await, the connection it
\* holds goes back to the pool.
DropRequest(r) ==
    /\ req[r] # Nil /\ Mishap
    /\ req' = Answered(r)
    /\ pool' = IF req[r].pc \in {"db", "expire"} THEN pool + 1 ELSE pool
    /\ excused' = IF req[r].pc = "logout" THEN excused \union {req[r].tok} ELSE excused
    /\ UNCHANGED <<users, sess, cache, used, known, rows, ids, live, clock, requests, out, added, dels>>

\* build_context after a restart: an empty cache, the filters of the table.
Restart ==
    /\ Mishap
    /\ req' = [r \in Reqs |-> Nil] /\ pool' = PoolSize
    /\ cache' = [t \in Tokens |-> Nil]
    /\ live' = RowFilters
    /\ excused' = excused \union {req[r].tok : r \in {s \in Reqs : At(s, "logout")}}
    /\ UNCHANGED <<users, sess, used, known, rows, ids, clock, requests, out, added, dels>>

\* evebox config users rm: refused while a session row refers to the user.
RemoveUser(u) ==
    /\ u \in users /\ \A t \in Tokens : sess[t] # Nil => sess[t].user # u
    /\ users' = users \ {u}
    /\ req' = Stale(req, Nil)
    /\ UNCHANGED <<sess, cache, used, known, rows, ids, live, pool, clock, requests, mishaps, out, excused, added, dels>>

Tick ==
    /\ clock < MaxClock /\ clock' = clock + 1
    /\ UNCHANGED <<users, sess, cache, used, known, rows, ids, live, pool, req, requests, mishaps, out, excused, added, dels>>

Handle(r) ==
    \/ CreateSession(r) \/ SaveSession(r)
    \/ AcquireConn(r) \/ LookUp(r) \/ ExpireSessions(r) \/ CacheSession(r) \/ DeleteSession(r)
    \/ InsertFilter(r) \/ AddLive(r)
    \/ ReadFilterRow(r) \/ DeleteFilterRow(r) \/ RemoveLive(r)

ConfigNext ==
    \/ \E r \in Reqs :
          \/ \E u \in Accounts : Login(r, u)
          \/ \E t \in known :
                \/ \E op \in {"use", "logout"} : Authenticate(r, t, op, Nil, Nil)
                \/ RowsLeft /\ \E f \in Filters : Authenticate(r, t, "add", f, Nil)
                \/ \E i \in ids : Authenticate(r, t, "delete", Nil, i)
          \/ Handle(r)
          \/ DropRequest(r)
    \/ Restart
    \/ \E u \in Accounts : RemoveUser(u)
    \/ Tick

\* The runtime polls every handler.
ConfigFairness == \A r \in Reqs : WF_cfgVars(Handle(r))

ConfigSpec == ConfigInit /\ [][ConfigNext]_cfgVars /\ ConfigFairness
----------------------------------------------------------------------------
(* Properties. *)

ConfigTypeOK ==
    /\ users \subseteq Accounts /\ used \subseteq Tokens /\ known \subseteq used
    /\ sess \in [Tokens -> [user : Accounts, exp : Nat] \union {Nil}]
    /\ cache \in [Tokens -> Accounts \union {Nil}]
    /\ rows \in [RowIds -> Filters \union {Nil}] /\ ids \subseteq RowIds
    /\ live \subseteq Filters /\ added \subseteq Filters /\ dels \subseteq Filters
    /\ pool \in 0 .. PoolSize
    /\ req \in [Reqs -> Request \union {Nil}]
    /\ out \subseteq Tokens /\ excused \subseteq Tokens

\* A session that was logged out is neither in the cache nor in the table again,
\* also after a restart, unless a look-up of it overlapped the logout, the
\* statement failed or the handler was dropped half-way.
LogoutHolds == \A t \in out \ excused : cache[t] = Nil /\ sess[t] = Nil

\* An added filter stays in force until its deletion is begun, through restarts
\* and whatever requests were dropped; and until then a filter in force has a
\* row, so that it can be listed and deleted.
FilterStaysInForce ==
    \A f \in Filters \ dels : /\ f \in added => f \in live
                              /\ f \in live => f \in RowFilters

\* Every request is answered: handlers that hold the last connections and want
\* another do not wait for each other for ever, and every connection returns.
RequestsAnswered ==
    /\ \A r \in Reqs : []<>(req[r] = Nil)
    /\ [](pool + Cardinality({r \in Reqs : At(r, "db") \/ At(r, "expire")}) = PoolSize)
=============================================================================
