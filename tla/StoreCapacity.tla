---------------------------- MODULE StoreCapacity ----------------------------
(***************************************************************************)
(* conversations.SessionStore at its capacity: which rows, aliases and     *)
(* response objects leave memory, SQLite and Redis when one more arrives,  *)
(* and what that does to the requests in flight.  A call of the store is   *)
(* one step here (SessionTiers takes the calls apart).  With Redis every   *)
(* call waits for it first (_resolve_async), so another request may come   *)
(* between any two calls of this one; without Redis only where the handler *)
(* itself waits: for a download, the lock of the row, or Gemini.           *)
(*                                                                         *)
(* SQLite is the view of the store's own handle: a DELETE that nobody has  *)
(* committed is in it, keeps the write lock of the file (open), and is     *)
(* undone by a kill (safe).  Every write has a second of its own, so the   *)
(* order of updated_at is the order of the writes (age).                   *)
(***************************************************************************)
EXTENDS Naturals, Sequences, FiniteSets, SequencesExt, Subsequences

CONSTANTS
  ChainClients,  \* clients that chain by their messages, a new row per request
  ConvClients,   \* clients that send the one conversation_id Conv
  Conv,
  Fresh,         \* the row of a session without account and metadata
  Pinned,        \* the row of a session with an account alone
  Cap,           \* SessionStore._cap
  SharedModes,   \* whether Redis is attached
  MaxTurns,      \* bound: chat requests, and responses saved, in all
  MaxShared,     \* bound: the same with Redis, where every call may be interleaved
  MaxRestarts    \* bound: restarts

Clients == ChainClients \cup ConvClients

\* The key of a row: fp:<the first n requests of a chain>, or conv:<id>
Keys == (ChainClients \X (1..MaxTurns)) \cup {<<Conv, 0>>}

\* The n-th answer of a client.  It stands for the alias fp:<the messages and
\* this answer>, and for the account and metadata that continue after it.
Aliases == Clients \X (1..MaxTurns)

KeyOf(c, n) == IF c \in ConvClients THEN <<Conv, 0>> ELSE <<c, n>>

Target(a) == KeyOf(a[1], a[2])

\* account and metadata of a session
Contents == {Fresh, Pinned} \cup Aliases

ASSUME CapacityAssumption ==
  /\ Cap \in Nat \ {0}
  /\ SharedModes \subseteq BOOLEAN
  /\ ChainClients \cap ConvClients = {} /\ Conv \notin ChainClients
  /\ Fresh # Pinned /\ {Fresh, Pinned} \cap Aliases = {}
  /\ MaxTurns \in Nat /\ MaxShared \in 0..MaxTurns /\ MaxRestarts \in Nat

VARIABLES
  store,     \* rows and aliases in the three tiers, see StoreType
  resp,      \* response objects in the three tiers, see ResponseType
  cl,        \* the clients and their requests
  turns, restarts

vars == <<store, resp, cl, turns, restarts>>

StoreType ==
  [mem : Seq(Keys),           \* _states in the order of insertion
   what : [Keys -> Contents],
   born : [Keys -> Nat],      \* identity of the row's object, with its lock
   alias : Seq(Aliases),      \* _aliases in the order of insertion
   sql : SUBSET Keys,         \* the sessions table
   wsql : [Keys -> Contents],
   asql : Seq(Aliases),       \* the aliases table by updated_at
   safe : [sql : SUBSET Keys, asql : Seq(Aliases)],  \* what is committed
   open : BOOLEAN,            \* a transaction of this handle is open
   shared : BOOLEAN,          \* Redis is attached
   red : SUBSET Keys, wred : [Keys -> Contents], ared : Seq(Aliases),
   age : Seq(Keys),           \* rows by updated_at
   out : SUBSET Keys,         \* history: rows the capacity pushed out, or Clear
                              \* reset, since an answer was last written to them
   missed : SUBSET Keys]      \* history: rows whose last persist after a turn
                              \* did not write its answer

ResponseType ==
  [mem : Seq(1..MaxTurns), sql : Seq(1..MaxTurns),
   red : Seq(1..MaxTurns), saved : 0..MaxTurns]

\* Where a request is: the next call to make, or what it assigned and persists next
Stages ==
  {"idle", "row", "copied", "lock", "wait", "pick", "pin", "pinned",
   "clear", "cleared", "run", "saved", "link"}

\* resume: resume_meta; stale: _pick_account_for_turns found the pin gone
RequestType ==
  [answered : 0..MaxTurns, pc : Stages, lock : Nat,
   resume : {Fresh} \cup Aliases, stale : BOOLEAN]

NoRequest(answered) ==
  [answered |-> answered, pc |-> "idle", lock |-> 0, resume |-> Fresh,
   stale |-> FALSE]

\* The type of every variable; no table outgrows its capacity, but the rows of
\* a process with Redis (RowsBounded)
TypeOK ==
  /\ store \in StoreType
  /\ Cardinality(store.red) <= Cap /\ Len(store.ared) <= 2 * Cap
  /\ Len(store.alias) <= 2 * Cap /\ Len(store.asql) <= 2 * Cap
  /\ ~store.shared => Len(store.mem) <= Cap /\ Cardinality(store.sql) <= Cap
  /\ resp \in ResponseType
  /\ Len(resp.mem) <= Cap /\ Len(resp.sql) <= Cap /\ Len(resp.red) <= Cap
  /\ cl \in [Clients -> RequestType]
  /\ turns \in 0..MaxTurns /\ restarts \in 0..MaxRestarts

Without(s, e) == Among(s, Range(s) \ {e})

Renewed(s, e) == Append(Without(s, e), e)

\* Faulty: the newest beyond the capacity
Latest(s) == {s[i] : i \in (Cap + 1)..Len(s)}

\* ... ORDER BY ROWID LIMIT total - cap, and zrange(index, 0, total - cap - 1)
Overflow(s) == {s[i] : i \in 1..(Len(s) - Cap)}

-----------------------------------------------------------------------------
(* The calls of the store *)

Committed(s) ==
  [s EXCEPT !.open = FALSE, !.safe = [sql |-> s.sql, asql |-> s.asql]]

\* Faulty: forgets the row in memory alone
EvictMemory(s) ==
  IF Len(s.mem) >= Cap THEN [s EXCEPT !.mem = Tail(@)] ELSE s

EvictSession(s) ==
  IF Len(s.mem) >= Cap
  THEN [s EXCEPT !.mem = Tail(@), !.sql = @ \ {Head(s.mem)}, !.open = TRUE,
                 !.out = @ \cup ({Head(s.mem)} \ s.red)]
  ELSE s

EvictAlias(s) ==
  IF Len(s.alias) > 2 * Cap
  THEN [s EXCEPT !.alias = Tail(@), !.asql = Without(@, Head(s.alias)), !.open = TRUE]
  ELSE s

\* _states[key] = a new SessionState with the contents x
Inserted(s, k, x) ==
  [s EXCEPT !.mem = Renewed(@, k), !.what[k] = x, !.born[k] = @ + 1]

\* _upsert_locked
Upserted(s, k) ==
  LET u == [s EXCEPT !.sql = @ \cup {k}, !.wsql[k] = s.what[k]]
  IN Committed(u)

\* _push_session: session_put, then trim_sessions; what Redis drops leaves memory
Pushed(s, k) ==
  IF ~s.shared THEN s
  ELSE LET over == Overflow(Among(s.age, s.red \cup {k}))
       IN [s EXCEPT !.red = (@ \cup {k}) \ over, !.wred[k] = s.what[k],
                    !.mem = Among(@, Range(@) \ over), !.out = @ \cup over]

\* _sync_from_redis: the row of Redis, never older than the one of memory, is
\* taken over; SQLite is written when that changes the session
Synced(s, k) ==
  LET m == IF k \in Range(s.mem) THEN s ELSE Inserted(EvictSession(s), k, Fresh)
  IN IF ~s.shared \/ k \notin s.red THEN s
     ELSE IF m.what[k] = s.wred[k] THEN m
     ELSE Upserted([m EXCEPT !.what[k] = s.wred[k]], k)

Stamped(s, k) == [s EXCEPT !.age = Renewed(@, k)]

\* The second half of get_or_new.  The INSERT fails on a row that only SQLite
\* has: that row is read back, and nothing is committed.
Created(s, k) ==
  LET e == EvictSession(s)
  IN IF k \in e.sql THEN [Inserted(e, k, e.wsql[k]) EXCEPT !.open = TRUE]
     ELSE Pushed(Upserted(Stamped(Inserted(e, k, Fresh), k), k), k)

GetOrNew(s, k) ==
  LET g == Synced(s, k)
  IN IF k \in Range(s.mem) THEN s
     ELSE IF k \in Range(g.mem) THEN g ELSE Created(g, k)

\* persist: a row that has left memory is not written
Persisted(s, k) ==
  IF k \notin Range(s.mem) THEN s ELSE Pushed(Upserted(Stamped(s, k), k), k)

\* The caller's assignment to the session that get_or_new returned
Assigned(s, k, x) == [s EXCEPT !.what[k] = x]

\* _resolve_async of an alias: a hop that only Redis knows is remembered
Hydrated(s, a) ==
  IF s.shared /\ a \in Range(s.ared) /\ a \notin Range(s.alias)
  THEN EvictAlias([s EXCEPT !.alias = Append(@, a)])
  ELSE s

Linked(s, a) ==
  LET e == EvictAlias([s EXCEPT !.alias = IF a \in Range(@) THEN @ ELSE Append(@, a)])
      w == Committed([e EXCEPT !.asql = Renewed(@, a)])
      r == Renewed(w.ared, a)
  IN IF ~s.shared THEN w
     ELSE [w EXCEPT !.ared = IF Len(r) > 2 * Cap THEN Tail(r) ELSE r]

\* Sessions with metadata are kept
DropIfFresh(s, k) ==
  LET g == IF k \in Range(s.mem) /\ s.what[k] \in Aliases THEN s ELSE Synced(s, k)
      Others(q) == Among(q, {a \in Aliases : Target(a) /= k})
  IN IF k \notin Range(g.mem) \/ g.what[k] \in Aliases THEN g
     ELSE Committed([g EXCEPT
            !.mem = Without(@, k), !.sql = @ \ {k}, !.red = @ \ {k},
            !.alias = Others(@), !.asql = Others(@), !.ared = Others(@)])

-----------------------------------------------------------------------------
(* Requests *)

Init ==
  /\ \E shared \in SharedModes :
       store = [mem |-> <<>>, alias |-> <<>>, sql |-> {}, asql |-> <<>>,
                safe |-> [sql |-> {}, asql |-> <<>>], open |-> FALSE,
                shared |-> shared, red |-> {}, ared |-> <<>>, age |-> <<>>,
                what |-> [k \in Keys |-> Fresh], wsql |-> [k \in Keys |-> Fresh],
                wred |-> [k \in Keys |-> Fresh], born |-> [k \in Keys |-> 0],
                out |-> {}, missed |-> {}]
  /\ resp = [mem |-> <<>>, sql |-> <<>>, red |-> <<>>, saved |-> 0]
  /\ cl = [c \in Clients |-> NoRequest(0)]
  /\ turns = 0 /\ restarts = 0

\* The request of c: its answer, and the row of its messages or conversation_id
Answer(c) == <<c, cl[c].answered + 1>>

Key(c) == Target(Answer(c))

\* Rows of answers that were delivered last, or are about to be
Recalled(new) ==
  {KeyOf(c, new[c].answered) : c \in {d \in Clients : new[d].answered > 0}}
    \cup {KeyOf(c, new[c].answered + 1) : c \in {d \in Clients : new[d].pc = "link"}}

Only(what, rows) == [k \in Keys |-> IF k \in rows THEN what[k] ELSE Fresh]

\* The store becomes s and the clients new.  What no tier has, locks no request
\* knows and the history of rows nobody comes back to are forgotten.
Becomes(s, new) ==
  LET used == Range(s.mem) \cup s.red \cup s.sql \cup s.safe.sql
      asked == {KeyOf(c, new[c].answered + 1) : c \in {d \in Clients : new[d].pc /= "idle"}}
  IN /\ store' = [s EXCEPT
                    !.age = Among(@, used),
                    !.what = Only(@, Range(s.mem)),
                    !.wsql = Only(@, s.sql \cup s.safe.sql),
                    !.wred = Only(@, s.red),
                    !.born = [k \in Keys |-> IF k \in asked THEN @[k] ELSE 0],
                    !.out = @ \cap Recalled(new),
                    !.missed = @ \cap Recalled(new)]
     /\ cl' = new

\* c goes on to the stage pc; the turn has no more use for what picked its account
To(c, pc) ==
  [cl EXCEPT ![c].pc = pc,
             ![c].resume = IF pc = "run" THEN Fresh ELSE @,
             ![c].stale = IF pc = "run" THEN FALSE ELSE @]

\* Between two calls of these requests nothing is awaited but the store
Busy(c) ==
  \/ cl[c].pc \in {"row", "copied", "pin", "pinned", "clear", "cleared", "saved", "link"}
  \/ cl[c].pc = "pick" /\ (c \in ChainClients \/ cl[c].stale)

Runs(c) == store.shared \/ \A d \in Clients \ {c} : ~Busy(d)

Calls(c, pc) == cl[c].pc = pc /\ Runs(c) /\ UNCHANGED <<resp, turns, restarts>>

\* _find_chain_prev: the row of the last answer's alias, then that of the last
\* request, which is the same row
Previous(c) == <<c, cl[c].answered>>

FoundBy(s, c) == Synced(Hydrated(s, Previous(c)), Previous(c))

\* The metadata of the session k, none when memory has no such session
Metadata(s, k) ==
  IF k \in Range(s.mem) /\ s.what[k] \in Aliases THEN s.what[k] ELSE Fresh

\* Faulty: the alias alone
AliasMetadata(s, c) ==
  IF Previous(c) \in Range(Hydrated(s, Previous(c)).alias)
  THEN Metadata(FoundBy(s, c), Previous(c)) ELSE Fresh

FoundMetadata(s, c) == Metadata(FoundBy(s, c), Previous(c))

Budget ==
  /\ turns < IF store.shared THEN MaxShared ELSE MaxTurns
  /\ turns' = turns + 1

\* A request arrives; a chain looks for the row it continues
Arrive(c) ==
  LET chained == c \in ChainClients /\ cl[c].answered > 0
      s == IF chained THEN FoundBy(store, c) ELSE store
  IN /\ cl[c].pc = "idle" /\ Runs(c) /\ Budget
     /\ Becomes(s, [cl EXCEPT ![c].pc = "row",
                      ![c].resume = IF chained THEN FoundMetadata(store, c) ELSE Fresh])
     /\ UNCHANGED <<resp, restarts>>

\* _chat_turns: the row of the request.  In a chain it takes over the metadata
\* that was found; when none was, it keeps none.
Row(c) ==
  LET g == GetOrNew(store, Key(c))
      was == g.what[Key(c)]
      due == c \in ChainClients
             /\ IF cl[c].resume = Fresh THEN was # Fresh ELSE was \notin Aliases
  IN /\ Calls(c, "row")
     /\ IF due THEN Becomes(Assigned(g, Key(c), cl[c].resume), To(c, "copied"))
        ELSE Becomes(g, To(c, "lock"))

\* lock_for
Lock(c) ==
  LET g == GetOrNew(store, Key(c))
  IN /\ Calls(c, "lock")
     /\ Becomes(g, [To(c, "wait") EXCEPT ![c].lock = g.born[Key(c)]])

HasLock(c) ==
  cl[c].pc \in {"pick", "pin", "pinned", "clear", "cleared", "run", "saved", "link"}

LockFree(c) ==
  \A d \in Clients \ {c} :
    ~(HasLock(d) /\ Key(d) = Key(c) /\ cl[d].lock = cl[c].lock)

\* The lock is taken; a conversation reads its row again
Enter(c) ==
  LET g == GetOrNew(store, Key(c))
  IN /\ Calls(c, "wait") /\ LockFree(c)
     /\ IF c \in ConvClients
        THEN Becomes(g, [To(c, "pick") EXCEPT ![c].resume = Metadata(g, Key(c))])
        ELSE Becomes(store, To(c, "pick"))

\* The get of _pick_account_for_turns, and after a stale pin of _pick_account
Pick(c) ==
  LET s == Synced(store, Key(c))
      pinned == Key(c) \in Range(s.mem) /\ s.what[Key(c)] # Fresh
  IN /\ Calls(c, "pick")
     /\ \/ pinned /\ Becomes(s, To(c, IF cl[c].stale THEN "clear" ELSE "run"))
        \/ ~pinned /\ cl[c].resume # Fresh /\ ~cl[c].stale
           /\ Becomes(s, [cl EXCEPT ![c].stale = TRUE])
        \/ ~pinned /\ (cl[c].resume = Fresh \/ cl[c].stale) /\ Becomes(s, To(c, "pin"))

\* _pick_account: a row without an account is pinned
Pin(c) ==
  LET g == GetOrNew(store, Key(c))
  IN /\ Calls(c, "pin")
     /\ IF g.what[Key(c)] = Fresh
        THEN Becomes(Assigned(g, Key(c), Pinned), To(c, "pinned"))
        ELSE Becomes(g, To(c, IF cl[c].stale THEN "clear" ELSE "run"))

\* After a stale pin the metadata goes: the turn starts anew.  That may be the
\* answer of a request which came after the eviction that made the pin stale.
Clear(c) ==
  LET g == GetOrNew(store, Key(c))
  IN /\ Calls(c, "clear")
     /\ Becomes(IF g.what[Key(c)] \in Aliases
                THEN [Assigned(g, Key(c), Pinned) EXCEPT !.out = @ \cup {Key(c)}]
                ELSE g,
                To(c, "cleared"))

\* Faulty: _save_state without get_or_new
SaveKnown(s, c) == Assigned(s, Key(c), Answer(c))

\* _save_state: a row evicted during the turn is made anew
Saved(s, c) == Assigned(GetOrNew(s, Key(c)), Key(c), Answer(c))

Save(c) == Calls(c, "run") /\ Becomes(Saved(store, c), To(c, "saved"))

\* persist after an assignment.  History: whether it wrote the answer of the turn
Persist(c) ==
  LET k == Key(c)
      s == Persisted(store, k)
      written == k \in Range(store.mem) /\ store.what[k] = Answer(c)
      recorded == IF written THEN [s EXCEPT !.out = @ \ {k}, !.missed = @ \ {k}]
                  ELSE [s EXCEPT !.missed = @ \cup {k}]
  IN \/ Calls(c, "copied") /\ Becomes(s, To(c, "lock"))
     \/ Calls(c, "pinned") /\ Becomes(s, To(c, IF cl[c].stale THEN "clear" ELSE "run"))
     \/ Calls(c, "cleared") /\ Becomes(s, To(c, "run"))
     \/ Calls(c, "saved") /\ Becomes(recorded, To(c, "link"))

\* The alias of the answer, which is then delivered
Link(c) ==
  /\ Calls(c, "link")
  /\ Becomes(Linked(store, Answer(c)), [cl EXCEPT ![c] = NoRequest(@.answered + 1)])

Fail(c) ==
  /\ Calls(c, "run")
  /\ Becomes(DropIfFresh(store, Key(c)), [cl EXCEPT ![c] = NoRequest(@.answered)])

\* History: the rows that memory and the disk have as Redis has them
Copied(s) ==
  {k \in Range(s.mem) \cap s.sql \cap s.safe.sql :
     s.what[k] = s.wred[k] /\ s.wsql[k] = s.wred[k]}

\* A process with the same Redis and its own SQLite serves a request of c
Elsewhere(c) ==
  LET k == Key(c)
      t == Stamped(store, k)
      over == Overflow(Among(t.age, t.red \cup {k}))
      a == Append(store.ared, Answer(c))
  IN /\ store.shared /\ c \in ChainClients /\ cl[c].pc = "idle" /\ Budget
     /\ Becomes([t EXCEPT !.red = (@ \cup {k}) \ over, !.wred[k] = Answer(c),
                          !.ared = IF Len(a) > 2 * Cap THEN Tail(a) ELSE a,
                          !.out = (@ \cup (over \ Copied(t))) \ {k},
                          !.missed = @ \ {k}],
                [cl EXCEPT ![c].answered = @ + 1])
     /\ UNCHANGED <<resp, restarts>>

-----------------------------------------------------------------------------
(* Response objects: rid is the number of the save *)

\* save_response: the oldest of memory, then the oldest rows beyond Cap
SaveResponse ==
  LET id == resp.saved + 1
      full == Len(resp.mem) >= Cap
      mem == Append(IF full THEN Tail(resp.mem) ELSE resp.mem, id)
      sql == Append(IF full THEN Without(resp.sql, Head(resp.mem)) ELSE resp.sql, id)
      red == IF store.shared THEN Append(resp.red, id) ELSE <<>>
      Kept(q, over) == Among(q, Range(q) \ over)
  IN /\ Budget /\ (store.shared \/ \A c \in Clients : ~Busy(c))
     /\ resp' = [mem |-> Kept(mem, Overflow(sql) \cup Overflow(red)),
                 sql |-> Kept(sql, Overflow(sql)),
                 red |-> Kept(red, Overflow(red)), saved |-> id]
     /\ Becomes(Committed(store), cl)
     /\ UNCHANGED restarts

\* _remember_response: at the capacity the oldest goes, even for one that is there
RememberResponse(r) ==
  LET room == IF Len(resp.mem) >= Cap THEN Tail(resp.mem) ELSE resp.mem
  IN IF r \in Range(room) THEN room ELSE Append(room, r)

GetResponse(r) ==
  /\ r \in Range(resp.sql) \cup Range(resp.red)
  /\ resp' = [resp EXCEPT !.mem = RememberResponse(r)]
  /\ UNCHANGED <<store, cl, turns, restarts>>

-----------------------------------------------------------------------------
\* A shutdown commits, a kill loses what is not committed; _load then reads
\* SQLite in the order of updated_at
Restart(committed) ==
  LET s == IF committed THEN Committed(store)
           ELSE [store EXCEPT !.sql = store.safe.sql, !.asql = store.safe.asql,
                              !.open = FALSE]
  IN /\ restarts < MaxRestarts
     /\ committed => store.shared \/ \A c \in Clients : ~Busy(c)
     /\ restarts' = restarts + 1
     /\ Becomes([s EXCEPT !.mem = Among(s.age, s.sql), !.what = s.wsql,
                          !.alias = s.asql],
                [c \in Clients |-> NoRequest(cl[c].answered)])
     /\ resp' = [resp EXCEPT !.mem = <<>>]
     /\ UNCHANGED turns

Next ==
  \/ \E c \in Clients :
       \/ Arrive(c) \/ Row(c) \/ Lock(c) \/ Enter(c) \/ Pick(c) \/ Pin(c) \/ Clear(c)
       \/ Save(c) \/ Persist(c) \/ Link(c) \/ Fail(c) \/ Elsewhere(c)
  \/ SaveResponse
  \/ \E r \in 1..MaxTurns : GetResponse(r)
  \/ \E committed \in BOOLEAN : Restart(committed)

Spec == Init /\ [][Next]_vars

-----------------------------------------------------------------------------
(* Properties *)

\* Without Redis SQLite has the rows and aliases that memory has, all of them
\* committed: what a full store forgets it forgets in both, and no call leaves
\* the write lock of the database file to block the other handle on it.
TiersInStep ==
  ~store.shared =>
    /\ Range(store.mem) = store.sql /\ Range(store.alias) = Range(store.asql)
    /\ ~store.open
    /\ store.safe = [sql |-> store.sql, asql |-> store.asql]

\* The contents x of the row k hold an answer that was given in it
Holds(x, k) == x \in Aliases /\ Target(x) = k

\* An answer that was delivered is held by its row in memory or in Redis, even
\* when the row was evicted while the turn ran (_save_state makes it anew).  It
\* goes only when the capacity pushes the row out of both; with Redis also when the
\* row left memory between get_or_new and persist, which then wrote nothing
\* (SavesAreRecorded), or when a turn whose row was evicted before it picked an
\* account resets the row that a later request made anew (Clear).
AnswersAreKept ==
  /\ ~store.shared => store.missed = {}
  /\ \A c \in Clients :
       LET k == KeyOf(c, cl[c].answered)
       IN cl[c].answered > 0 =>
            \/ k \in Range(store.mem) /\ Holds(store.what[k], k)
            \/ k \in store.red /\ Holds(store.wred[k], k)
            \/ k \in store.out \cup store.missed

\* A request that a chain sends now finds its last answer, whatever copy of the row
\* memory has, as long as the store has the answer: by its alias, or, when the
\* table of aliases has forgotten that, by the key of the row itself
\* (_find_chain_prev).
ChainsResume ==
  \A c \in ChainClients :
    LET k == Previous(c)
    IN cl[c].pc = "idle" /\ cl[c].answered > 0 =>
         FoundMetadata(store, c) = k \/ k \in store.out \cup store.missed

\* The response that was saved last is there for previous_response_id, and no
\* response is evicted while there is room (save_response, _evict_response).
ResponsesKept ==
  /\ resp.saved > 0 => resp.saved \in Range(resp.sql)
  /\ Len(resp.sql) = IF resp.saved < Cap THEN resp.saved ELSE Cap

\* "Record the account and Gemini continuation metadata for a key" (_save_state,
\* server.py:1107): the persist of an answer writes it.  Not so with Redis, where
\* persist waits for the alias of the key first: a row that another request evicts
\* meanwhile is not written, and the answer is delivered without (CapacityLimits.cfg).
SavesAreRecorded == store.missed = {}

\* Not true of the code (README, disagreements): the row of a turn under way, with
\* the lock that serializes its conversation, stays in the store.
BusyRowsStay == \A c \in Clients : HasLock(c) => Key(c) \in Range(store.mem) \cup store.red

\* Not true with Redis (README, disagreements): no call leaves a transaction open.
WritesCommitted == ~store.open

\* Not true with Redis (README, disagreements): memory keeps to its capacity after
\* a boot.
RowsBounded == Len(store.mem) <= Cap
=============================================================================
