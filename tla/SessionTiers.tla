----------------------------- MODULE SessionTiers -----------------------------
(***************************************************************************)
(* One conversation row of conversations.SessionStore in its three tiers:  *)
(* the memory of each process, the SQLite file of each process and the     *)
(* Redis hash all processes share.  Every `await redis...' is a point      *)
(* where other tasks and processes run; what lies between two of them is   *)
(* one step here (the guard of the store is never held over an await).     *)
(*                                                                         *)
(* The callers are the turns of a conversation (server.py: lock_for, then  *)
(* _chat_turns, _pick_account_for_turns and _save_state under the lock),   *)
(* lookups by _find_chain_prev, and the purge of dead continuations at     *)
(* boot.  A task goes through stages; each stage makes one call of the     *)
(* store, and the steps are the Redis commands of that call.  Metadata is  *)
(* the number of the turn that minted it, 0 is none.  Aliases and the      *)
(* capacity are left out: the key is no alias and the store is not full.   *)
(***************************************************************************)
EXTENDS Naturals, FiniteSets

CONSTANTS
  Procs,        \* server processes, each with its own SQLite file
  Tasks,        \* coroutines, each runs once
  ProcOf,       \* [Tasks -> Procs]
  KindOf,       \* [Tasks -> {"turn", "read", "purge"}]
  Scenes,       \* sets of Tasks: those of one of them run
  Holders,      \* sets of Procs: those of one of them know the conversation at
                \* first, and so does Redis, unless it is empty
  NoRow,        \* absence of a row
  RedisFails,   \* whether a Redis command may raise RedisError
  TurnFails,    \* whether a turn may end without an answer
  SameSecond,   \* whether two writes may have the same time.time()
  MaxRestarts   \* bound: process restarts

Turns == {t \in Tasks : KindOf[t] = "turn"}

ASSUME TiersAssumption ==
  /\ IsFiniteSet(Tasks) /\ Scenes \subseteq SUBSET Tasks /\ Holders \subseteq SUBSET Procs /\ MaxRestarts \in Nat
  /\ ProcOf \in [Tasks -> Procs] /\ KindOf \in [Tasks -> {"turn", "read", "purge"}]
  /\ RedisFails \in BOOLEAN /\ TurnFails \in BOOLEAN /\ SameSecond \in BOOLEAN
  /\ NoRow \notin [meta : Nat, pinned : BOOLEAN, at : Nat]

VARIABLES
  mem,       \* [Procs -> object in _states, 0 if none]
  heap,      \* SessionState objects of each process
  known,     \* _gen: the last delete-generation each process acted on
  db,        \* the sessions row in each SQLite file
  hash,      \* the session Hash in Redis
  gen,       \* session-gen in Redis
  now,       \* int(time.time())
  task,      \* [Tasks -> where a coroutine is and its locals]
  turns,     \* turns answered so far
  head,      \* history: the last turn whose answer was persisted
  purged,    \* history: metadata a purge has removed from Redis
  restarts

vars == <<mem, heap, known, db, hash, gen, now, task, turns, head, purged, restarts>>

redis == <<hash, gen>>
local == <<mem, heap, known, db>>

Objects == 1..(2 * Cardinality(Tasks) + 2)

Rows == [meta : Nat, pinned : BOOLEAN, at : Nat]

Empty == [meta |-> 0, pinned |-> FALSE, at |-> 0]

\* The store call each stage of a task makes
Call ==
  [lock |-> "new", open |-> "new", pick |-> "get", pin |-> "new", pinned |-> "persist",
   clear |-> "new", cleared |-> "persist", save |-> "new", saved |-> "persist",
   fail |-> "fresh", read |-> "get", purge |-> "purge"]

Calling(t, call) == task[t].stage \in DOMAIN Call /\ Call[task[t].stage] = call

\* Stages at which a turn holds the lock of its conversation
Locked == {"open", "pick", "pin", "pinned", "clear", "cleared", "run", "save", "saved", "fail"}

Held(p) == {task[t].obj : t \in {u \in Tasks : ProcOf[u] = p}}
             \cup {task[t].lock : t \in {u \in Tasks : ProcOf[u] = p}} \cup {mem[p]}

\* A SessionState() of process p
NewObject(p) == CHOOSE o \in Objects \ Held(p) : \A q \in Objects \ Held(p) : o <= q

\* The account and the metadata of two rows are the same
SameContent(r, s) == r.meta = s.meta /\ r.pinned = s.pinned

-----------------------------------------------------------------------------
(* What a task does when a call of the store has returned object o (0: None) *)

At(t, stage) == [task[t] EXCEPT !.stage = stage, !.step = "resolve", !.obj = 0, !.got = NoRow]

Rest(t, stage) == [At(t, stage) EXCEPT !.step = "none"]

\* get_or_new created the row
Created(t) == task[t].step \in {"check", "refetch", "reapply", "put"}

Run(t, meta) == [Rest(t, "run") EXCEPT !.base = meta]

\* _pick_account_for_turns and _pick_account, after sessions.get
Picked(t, row) ==
  LET resuming == task[t].resume # 0 /\ ~task[t].stale
      pinned == row # NoRow /\ row.pinned
  IN  IF resuming /\ pinned THEN Run(t, IF row.meta # 0 THEN row.meta ELSE task[t].resume)
      ELSE IF resuming THEN [At(t, "pick") EXCEPT !.stale = TRUE]
      ELSE IF ~pinned THEN At(t, "pin")
      ELSE IF task[t].stale THEN At(t, "clear") ELSE Run(t, row.meta)

\* The next stage, and what the caller assigns to the object before it
Returned(t, o, objects) ==
  LET row == IF o = 0 THEN NoRow ELSE objects[o]
      stage == task[t].stage
      Stay(next) == [task |-> next, objects |-> objects]
      Set(next, new) == [task |-> next, objects |-> [objects EXCEPT ![o] = new]]
      Ran(next) == IF task[t].stale THEN At(t, "clear") ELSE next
  IN  CASE stage = "lock" -> Stay([Rest(t, "wait") EXCEPT !.lock = o])
        [] stage = "open" -> Stay([At(t, "pick") EXCEPT !.resume = IF Created(t) THEN 0 ELSE row.meta])
        [] stage = "pick" -> Stay(Picked(t, row))
        [] stage = "pin" /\ row.pinned -> Stay(Ran(Run(t, row.meta)))
        [] stage = "pin" /\ ~row.pinned ->
             Set([At(t, "pinned") EXCEPT !.obj = o], [row EXCEPT !.pinned = TRUE])
        [] stage = "pinned" -> Stay(Ran(Run(t, row.meta)))
        [] stage = "clear" -> Set(At(t, "cleared"), [row EXCEPT !.meta = 0])
        [] stage = "cleared" -> Stay(Run(t, 0))
        [] stage = "save" -> Set(At(t, "saved"), [row EXCEPT !.meta = task[t].mine, !.pinned = TRUE])
        [] OTHER -> Stay([Rest(t, "done") EXCEPT !.lock = 0])

\* The call returns object o; the objects of the process are as given
Return(t, o, objects) ==
  LET r == Returned(t, o, objects)
  IN  /\ task' = [task EXCEPT ![t] = r.task]
      /\ heap' = [heap EXCEPT ![ProcOf[t]] = r.objects]

\* Another Redis command of the same call
Goto(t, step, o, got) ==
  task' = [task EXCEPT ![t].step = step, ![t].obj = o, ![t].got = got]

-----------------------------------------------------------------------------
(* Tasks *)

Start(t) ==
  /\ task[t].stage = "todo" /\ KindOf[t] # "purge"
  /\ task' = [task EXCEPT ![t] = At(t, IF KindOf[t] = "turn" THEN "lock" ELSE "read")]
  /\ UNCHANGED <<local, redis, now, turns, head, purged, restarts>>

\* _purge_dead_continuations: a row of memory, or only in Redis, has metadata
\* and its account is not AVAILABLE
StartPurge(t) ==
  LET row == IF mem[ProcOf[t]] # 0 THEN heap[ProcOf[t]][mem[ProcOf[t]]] ELSE hash
  IN  /\ task[t].stage = "todo" /\ KindOf[t] = "purge"
      /\ row # NoRow /\ row.meta # 0
      /\ task' = [task EXCEPT ![t] = [At(t, "purge") EXCEPT !.got = row]]
      /\ UNCHANGED <<local, redis, now, turns, head, purged, restarts>>

\* Faulty: every request has a lock of its own
NeverTaken(t) == FALSE

\* Another task has the asyncio.Lock of the object
LockTaken(t) ==
  \E u \in Tasks \ {t} : /\ ProcOf[u] = ProcOf[t] /\ task[u].lock = task[t].lock
                         /\ task[u].stage \in Locked

Acquire(t) ==
  /\ task[t].stage = "wait"
  /\ ~LockTaken(t)
  /\ task' = [task EXCEPT ![t] = At(t, "open")]
  /\ UNCHANGED <<local, redis, now, turns, head, purged, restarts>>

\* Gemini has answered: _save_state
Answer(t) ==
  /\ task[t].stage = "run"
  /\ turns' = turns + 1
  /\ task' = [task EXCEPT ![t] = [At(t, "save") EXCEPT !.mine = turns + 1]]
  /\ UNCHANGED <<local, redis, now, head, purged, restarts>>

\* The turn raised: drop_if_fresh
Fail(t) ==
  /\ TurnFails
  /\ task[t].stage = "run"
  /\ task' = [task EXCEPT ![t] = At(t, "fail")]
  /\ UNCHANGED <<local, redis, now, turns, head, purged, restarts>>

-----------------------------------------------------------------------------
(* _resolve_async has found no alias (or Redis raised: the same) *)

Resolving(t, call) == task[t].step = "resolve" /\ Calling(t, call)

\* get_or_new: the row is in memory, or it is looked for in Redis
ResolveNew(t) ==
  LET p == ProcOf[t]
  IN  /\ Resolving(t, "new")
      /\ \/ mem[p] # 0 /\ Return(t, mem[p], heap[p])
         \/ mem[p] = 0 /\ Goto(t, "fetch", 0, NoRow) /\ UNCHANGED heap
      /\ UNCHANGED <<mem, known, db, redis, now, turns, head, purged, restarts>>

\* get, drop_if_fresh: the object in memory is what a failing Redis leaves
ResolveGet(t) ==
  LET p == ProcOf[t]
  IN  /\ Resolving(t, "get") \/ Resolving(t, "fresh")
      /\ IF Calling(t, "fresh") /\ mem[p] # 0 /\ heap[p][mem[p]].meta # 0
         THEN Return(t, 0, heap[p])
         ELSE Goto(t, "fetch", mem[p], NoRow) /\ UNCHANGED heap
      /\ UNCHANGED <<mem, known, db, redis, now, turns, head, purged, restarts>>

\* persist: SQLite first, then the push
ResolvePersist(t) ==
  LET p == ProcOf[t]
      row == [heap[p][mem[p]] EXCEPT !.at = now']
  IN  /\ Resolving(t, "persist")
      /\ now' = now + 1 \/ (SameSecond /\ now' = now)
      /\ head' = IF task[t].stage = "saved" THEN task[t].mine ELSE head
      /\ IF mem[p] = 0 THEN Return(t, task[t].obj, heap[p]) /\ UNCHANGED db
         ELSE /\ heap' = [heap EXCEPT ![p][mem[p]] = row]
              /\ db' = [db EXCEPT ![p] = row]
              /\ Goto(t, "put", task[t].obj, row)
      /\ UNCHANGED <<mem, known, redis, turns, purged, restarts>>

ResolvePurge(t) ==
  /\ Resolving(t, "purge")
  /\ task' = [task EXCEPT ![t].step = "cas"]
  /\ UNCHANGED <<local, redis, now, turns, head, purged, restarts>>

-----------------------------------------------------------------------------
(* _sync_from_redis and what its callers do with it *)

Fetch(t) ==
  /\ task[t].step \in {"fetch", "refetch"}
  /\ task' = [task EXCEPT ![t].step = IF @ = "fetch" THEN "apply" ELSE "reapply",
                          ![t].got = [gen |-> gen, row |-> hash]]
  /\ UNCHANGED <<local, redis, now, turns, head, purged, restarts>>

\* Faulty: a refreshed row stays in memory
MemoryOnly(p, row) == db[p]

\* _upsert_locked
Upserted(p, row) == row

\* The memory, the objects and SQLite after the reply g has been applied
Sync(t, g) ==
  LET p == ProcOf[t]
      dropped == g.row = NoRow /\ g.gen > known[p]
      o == IF mem[p] # 0 THEN mem[p] ELSE NewObject(p)
      current == IF mem[p] # 0 THEN heap[p][o] ELSE Empty
      newer == g.row.at >= current.at /\ ~SameContent(g.row, current)
      row == IF newer THEN g.row ELSE current
  IN  IF g.row = NoRow
      THEN [obj |-> IF dropped THEN 0 ELSE mem[p], objects |-> heap[p], db |-> db[p]]
      ELSE [obj |-> o, objects |-> [heap[p] EXCEPT ![o] = row],
            db |-> IF newer THEN Upserted(p, row) ELSE db[p]]

KnownAfter(p, g) == [known EXCEPT ![p] = IF g.gen > @ THEN g.gen ELSE @]

\* get, and the second sync of get_or_new, whose caller keeps its object
ApplyGet(t) ==
  LET p == ProcOf[t]
      s == Sync(t, task[t].got)
  IN  /\ \/ task[t].step = "apply" /\ Calling(t, "get")
         \/ task[t].step = "reapply"
      /\ Return(t, IF task[t].step = "apply" THEN s.obj ELSE task[t].obj, s.objects)
      /\ mem' = [mem EXCEPT ![p] = s.obj]
      /\ db' = [db EXCEPT ![p] = s.db]
      /\ known' = KnownAfter(p, task[t].got)
      /\ UNCHANGED <<redis, now, turns, head, purged, restarts>>

\* get_or_new with no row in memory or Redis: a row of SQLite wins over a new one
Create(t, p) ==
  LET o == NewObject(p)
      row == IF db[p] # NoRow THEN db[p] ELSE [Empty EXCEPT !.at = now]
      objects == [heap[p] EXCEPT ![o] = row]
  IN  /\ mem' = [mem EXCEPT ![p] = o]
      /\ db' = [db EXCEPT ![p] = row]
      /\ IF db[p] # NoRow THEN Return(t, o, objects)
         ELSE Goto(t, "check", o, row) /\ heap' = [heap EXCEPT ![p] = objects]

ApplyNew(t) ==
  LET p == ProcOf[t]
      s == Sync(t, task[t].got)
  IN  /\ task[t].step = "apply" /\ Calling(t, "new")
      /\ known' = KnownAfter(p, task[t].got)
      /\ IF s.obj = 0 THEN Create(t, p)
         ELSE /\ Return(t, s.obj, s.objects)
              /\ mem' = [mem EXCEPT ![p] = s.obj]
              /\ db' = [db EXCEPT ![p] = s.db]
      /\ UNCHANGED <<redis, now, turns, head, purged, restarts>>

\* drop_if_fresh: o is the row as far as the process can tell, held the one in memory
DropFresh(t, o, held, objects, sqlite) ==
  LET p == ProcOf[t]
      seen == o # 0 \/ task[t].obj # 0
  IN  IF (o # 0 /\ objects[o].meta # 0) \/ ~seen
      THEN /\ Return(t, 0, objects)
           /\ mem' = [mem EXCEPT ![p] = held] /\ db' = [db EXCEPT ![p] = sqlite]
      ELSE /\ mem' = [mem EXCEPT ![p] = 0] /\ db' = [db EXCEPT ![p] = NoRow]
           /\ heap' = [heap EXCEPT ![p] = objects]
           /\ Goto(t, "delete", 0, NoRow)

ApplyFresh(t) ==
  LET s == Sync(t, task[t].got)
  IN  /\ task[t].step = "apply" /\ Calling(t, "fresh")
      /\ known' = KnownAfter(ProcOf[t], task[t].got)
      /\ DropFresh(t, s.obj, s.obj, s.objects, s.db)
      /\ UNCHANGED <<redis, now, turns, head, purged, restarts>>

-----------------------------------------------------------------------------
(* Writes to Redis *)

\* Faulty: Redis is not asked for the row
Unasked(p) == FALSE

\* existing has metadata
Existing(p) == hash # NoRow /\ hash.meta # 0

\* _push_session(fresh=True): a real row in Redis replaces the new empty one
Check(t) ==
  LET p == ProcOf[t]
  IN  /\ task[t].step = "check"
      /\ IF Existing(p)
         THEN /\ task' = [task EXCEPT ![t].step = "refetch", ![t].got = NoRow]
              /\ mem' = [mem EXCEPT ![p] = IF @ # 0 /\ heap[p][@].meta = 0 THEN 0 ELSE @]
         ELSE task' = [task EXCEPT ![t].step = "put"] /\ UNCHANGED mem
      /\ UNCHANGED <<heap, known, db, redis, now, turns, head, purged, restarts>>

\* session_put: the snapshot taken before
Put(t) ==
  /\ task[t].step = "put"
  /\ hash' = task[t].got
  /\ Return(t, task[t].obj, heap[ProcOf[t]])
  /\ UNCHANGED <<mem, known, db, gen, now, turns, head, purged, restarts>>

\* _drop_redis: session_delete
Delete(t) ==
  /\ task[t].step = "delete"
  /\ hash' = NoRow /\ gen' = gen + 1
  /\ task' = [task EXCEPT ![t].step = "gen"]
  /\ UNCHANGED <<local, now, turns, head, purged, restarts>>

\* _drop_redis: the generation the delete left
Gen(t) ==
  /\ task[t].step = "gen"
  /\ known' = [known EXCEPT ![ProcOf[t]] = gen]
  /\ Return(t, 0, heap[ProcOf[t]])
  /\ UNCHANGED <<mem, db, redis, now, turns, head, purged, restarts>>

\* drop_if: session_drop_if, compare and delete in one script
Cas(t) ==
  /\ task[t].step = "cas"
  /\ IF hash # NoRow /\ ~SameContent(hash, task[t].got)
     THEN Return(t, 0, heap[ProcOf[t]]) /\ UNCHANGED <<redis, purged>>
     ELSE /\ task' = [task EXCEPT ![t].step = "casgen"] /\ UNCHANGED heap
          /\ IF hash = NoRow THEN UNCHANGED <<redis, purged>>
             ELSE hash' = NoRow /\ gen' = gen + 1 /\ purged' = purged \cup {hash.meta}
  /\ UNCHANGED <<mem, known, db, now, turns, head, restarts>>

\* Redis agreed: drop_if drops the local row, then _drop_redis
CasGen(t) ==
  LET p == ProcOf[t]
  IN  /\ task[t].step = "casgen"
      /\ known' = [known EXCEPT ![p] = gen]
      /\ IF mem[p] = 0 \/ ~SameContent(heap[p][mem[p]], task[t].got)
         THEN Return(t, 0, heap[p]) /\ UNCHANGED <<mem, db>>
         ELSE /\ mem' = [mem EXCEPT ![p] = 0] /\ db' = [db EXCEPT ![p] = NoRow]
              /\ task' = [task EXCEPT ![t].step = "delete"] /\ UNCHANGED heap
      /\ UNCHANGED <<redis, now, turns, head, purged, restarts>>

-----------------------------------------------------------------------------
(* A Redis command raises RedisError, without effect *)

\* The sync returns what memory held; get_or_new was given None
FetchFails(t) ==
  LET p == ProcOf[t]
  IN  /\ RedisFails
      /\ task[t].step \in {"fetch", "refetch"}
      /\ IF task[t].step = "fetch" /\ Calling(t, "new")
         THEN IF mem[p] # 0 THEN Return(t, mem[p], heap[p]) /\ UNCHANGED <<mem, db>>
              ELSE Create(t, p)
         ELSE IF Calling(t, "fresh") THEN DropFresh(t, task[t].obj, mem[p], heap[p], db[p])
         ELSE Return(t, task[t].obj, heap[p]) /\ UNCHANGED <<mem, db>>
      /\ UNCHANGED <<known, redis, now, turns, head, purged, restarts>>

\* The write is skipped with a warning
WriteFails(t) ==
  /\ RedisFails
  /\ task[t].step \in {"check", "put", "delete", "gen", "cas"}
  /\ Return(t, task[t].obj, heap[ProcOf[t]])
  /\ UNCHANGED <<mem, known, db, redis, now, turns, head, purged, restarts>>

\* drop_if reads the generation outside its try: the error leaves the purge
PurgeFails(t) ==
  /\ RedisFails
  /\ task[t].step = "casgen"
  /\ task' = [task EXCEPT ![t] = Rest(t, "error")]
  /\ UNCHANGED <<local, redis, now, turns, head, purged, restarts>>

\* The process is restarted: _load, no generation is known, its tasks are gone
Restart(p) ==
  /\ restarts < MaxRestarts
  /\ restarts' = restarts + 1
  /\ mem' = [mem EXCEPT ![p] = IF db[p] = NoRow THEN 0 ELSE 1]
  /\ heap' = [heap EXCEPT ![p] = [o \in Objects |-> IF o = 1 /\ db[p] # NoRow THEN db[p] ELSE Empty]]
  /\ known' = [known EXCEPT ![p] = 0]
  /\ task' = [t \in Tasks |->
                IF ProcOf[t] = p /\ task[t].stage \notin {"todo", "absent"}
                THEN [Rest(t, "done") EXCEPT !.lock = 0] ELSE task[t]]
  /\ UNCHANGED <<db, redis, now, turns, head, purged>>

-----------------------------------------------------------------------------
Init ==
  \E scene \in Scenes, holders \in Holders :
    LET row == [meta |-> 1, pinned |-> TRUE, at |-> 0]
        first == IF holders = {} THEN 0 ELSE 1
    IN  /\ mem = [p \in Procs |-> IF p \in holders THEN 1 ELSE 0]
        /\ heap = [p \in Procs |-> [o \in Objects |-> IF o = mem[p] THEN row ELSE Empty]]
        /\ known = [p \in Procs |-> 0]
        /\ db = [p \in Procs |-> IF p \in holders THEN row ELSE NoRow]
        /\ hash = (IF holders = {} THEN NoRow ELSE row) /\ gen = 0 /\ now = 0
        /\ task = [t \in Tasks |->
                     [stage |-> IF t \in scene THEN "todo" ELSE "absent", step |-> "none",
                      lock |-> 0, obj |-> 0, got |-> NoRow, resume |-> 0, base |-> 0,
                      mine |-> 0, stale |-> FALSE]]
        /\ turns = first /\ head = first /\ purged = {} /\ restarts = 0

Handle(t) == Start(t) \/ StartPurge(t) \/ Acquire(t) \/ Answer(t) \/ Fail(t)

Store(t) ==
  \/ ResolveNew(t) \/ ResolveGet(t) \/ ResolvePersist(t) \/ ResolvePurge(t)
  \/ Fetch(t) \/ ApplyGet(t) \/ ApplyNew(t) \/ ApplyFresh(t)
  \/ Check(t) \/ Put(t) \/ Delete(t) \/ Gen(t) \/ Cas(t) \/ CasGen(t)

Fault(t) == FetchFails(t) \/ WriteFails(t) \/ PurgeFails(t)

Next == (\E t \in Tasks : Handle(t) \/ Store(t) \/ Fault(t)) \/ (\E p \in Procs : Restart(p))

Spec == Init /\ [][Next]_vars

-----------------------------------------------------------------------------
(* Properties *)

\* The type of every variable; the objects two tasks use never run out.
TypeOK ==
  /\ mem \in [Procs -> Objects \cup {0}]
  /\ \A p \in Procs : \A o \in Objects : heap[p][o] \in Rows
  /\ known \in [Procs -> Nat] /\ gen \in Nat /\ now \in Nat /\ turns \in Nat /\ head \in Nat
  /\ \A p \in Procs : known[p] <= gen
  /\ purged \subseteq 1..turns
  /\ \A r \in {db[p] : p \in Procs} \cup {hash} : r = NoRow \/ r \in Rows
  /\ \A t \in Tasks : task[t].lock \in Objects \cup {0} /\ task[t].obj \in Objects \cup {0}

\* A task has assigned to the row and not yet reached persist's guard
Dirty(p) == \E t \in Tasks : ProcOf[t] = p /\ Resolving(t, "persist")

\* What memory holds, a restart loads: no continuation is only in memory
\* (store.py: "write through on every mutation, so a restart loses no
\* conversations").
WrittenThrough ==
  \A p \in Procs : (mem[p] # 0 /\ ~Dirty(p) /\ heap[p][mem[p]].meta # 0) =>
    db[p] # NoRow /\ SameContent(db[p], heap[p][mem[p]])

Present == {t \in Tasks : task[t].stage # "absent"}

\* The persist of _save_state writes the continuation of the answer it is for.
\* Not true of the code beside lookups, see TiersOneSecond.cfg.
AnswersOutliveLookups ==
  [][\A t \in Tasks : (task[t].stage = "saved" /\ task[t].step = "resolve"
                         /\ task'[t].step # "resolve" /\ restarts' = restarts) =>
       db'[ProcOf[t]] # NoRow /\ db'[ProcOf[t]].meta = task[t].mine]_vars

\* The same among turns, with purges in other processes.
AnswersReachSQLite ==
  [][\A t \in Tasks : (task[t].stage = "saved" /\ task[t].step = "resolve"
                         /\ (\A u \in Present : KindOf[u] # "read")
                         /\ task'[t].step # "resolve" /\ restarts' = restarts) =>
       db'[ProcOf[t]] # NoRow /\ db'[ProcOf[t]].meta = task[t].mine]_vars

\* A turn in the only process that serves the conversation continues the last
\* answer that was persisted, across restarts and failures of Redis (README:
\* "chained requests send only the new turn").
TurnsContinue ==
  (\A t, u \in Present : ProcOf[t] = ProcOf[u]) =>
    \A t \in Tasks : task[t].stage = "run" => task[t].base = head

Idle == \A t \in Tasks : task[t].stage \in {"todo", "done", "absent"}

\* When nothing is in flight, every process reads the row of Redis (README: "a
\* second process or a restart sees the same rows").
ReplicasAgree ==
  Idle => \A p \in Procs : \A t \in Tasks : ProcOf[t] = p =>
    LET s == Sync(t, [gen |-> gen, row |-> hash])
    IN  hash # NoRow => s.objects[s.obj].meta = hash.meta

\* The push of a created row never replaces a row with history ("Never clobber
\* a real row with a just-created empty one", _push_session).
CreationKeepsRows ==
  [][\A t \in Tasks : (task[t].step = "put" /\ Calling(t, "new") /\ task'[t].step # "put"
                         /\ hash # hash') => hash = NoRow \/ hash.meta = 0]_vars

\* No write to Redis takes the history of a conversation from it, not even that
\* of the account a turn has just picked for a row it had to create.
HistoryStays ==
  [][(hash # NoRow /\ hash' # NoRow /\ hash.meta # 0) => hash'.meta # 0]_vars

\* A conversation that a purge has dropped does not come back to a process that
\* has dropped it too ("a drop in another process stays dropped",
\* _sync_from_redis).
DropsStayDropped ==
  [][\A p \in Procs : (mem[p] = 0 /\ mem'[p] # 0) =>
       heap'[p][mem'[p]].meta \notin purged]_vars

\* The purge removes no row but the one it looked at ("a concurrent update
\* cannot slip between the check and the delete", drop_if).
PurgeKeepsUpdates ==
  [][\A t \in Tasks : (task[t].stage = "purge" /\ hash # NoRow /\ hash' = NoRow) =>
       SameContent(hash, task[t].got)]_vars

\* The purge of the boot survives Redis (README: "Redis failures degrade to
\* SQLite per call").
PurgeEnds == \A t \in Tasks : task[t].stage # "error"

=============================================================================
