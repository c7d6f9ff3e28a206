----------------------------- MODULE UploadTiers -----------------------------
(***************************************************************************)
(* content.UploadStore: the files of the Files API in the memory and the   *)
(* SQLite file of each server process and in the Redis they share, and the *)
(* calls of the endpoints /v1/files.  The part of a call before its first  *)
(* `await redis...' is one step; every Redis command is one more, since    *)
(* other calls and other processes run between them, and the reply of a    *)
(* fetch is used in a step of its own.  A file is its id: its bytes never  *)
(* change.  Redis is configured; a file over MAX_BYTES is refused before   *)
(* anything changes.                                                       *)
(***************************************************************************)
EXTENDS Naturals, Sequences, FiniteSets, SequencesExt, Subsequences

CONSTANTS
  Procs,        \* server processes, each with its own SQLite file
  Clients,      \* callers of /v1/files, each with one call in flight
  Files,        \* ids: numbers, in the order Redis breaks ties with
  Cap,          \* UploadStore._cap
  RedisFails,   \* whether a Redis command may raise RedisError
  SameSecond,   \* whether two uploads may have the same time.time()
  MaxCalls,     \* bound: calls of all clients
  MaxRestarts   \* bound: process restarts

NoFile == 0

ASSUME UploadAssumption ==
  /\ Files \subseteq Nat \ {NoFile} /\ IsFiniteSet(Files)
  /\ Cap \in Nat \ {0}
  /\ RedisFails \in BOOLEAN /\ SameSecond \in BOOLEAN
  /\ MaxCalls \in Nat /\ MaxRestarts \in Nat

VARIABLES
  mem,       \* [Procs -> _files: ids, oldest insertion first]
  db,        \* [Procs -> the files table: ids in ROWID order]
  shared,    \* the file Hashes in Redis with their index entries
  created,   \* created_at of every id in use
  call,      \* [Clients -> the call in flight]
  known,     \* ids some client has been told
  now,       \* int(time.time())
  calls,
  restarts,
  log        \* history, see Histories

vars == <<mem, db, shared, created, call, known, now, calls, restarts, log>>

\* What the properties remember of the past
Histories ==
  [stored : [Procs -> Seq(Files)],     \* uploads in the order of their put
   fetched : SUBSET (Procs \X Files),  \* files remembered from Redis, and where
   deleted : SUBSET (Procs \X Files),  \* deletes begun, and where
   gone : SUBSET (Procs \X Files),     \* deletes that have removed the Hash with
                                       \* no other call on the file meanwhile
   pushed : SUBSET Files,              \* file_put has written the Hash
   erased : SUBSET Files,              \* file_delete has removed the Hash
   calm : BOOLEAN]                     \* no trim met another write

Idle == [pc |-> "idle", proc |-> "", file |-> NoFile, alone |-> TRUE,
         overflow |-> 0, got |-> {}]

\* Faulty: newest first
Newest(s) == SubSeq(s, 1, IF Len(s) > Cap THEN Cap ELSE Len(s))

\* The last Cap elements
Capped(s) == SubSeq(s, IF Len(s) > Cap THEN Len(s) - Cap + 1 ELSE 1, Len(s))

Dropped(s, files) == Among(s, Range(s) \ files)

\* _remember, and the insertion in put: pop the oldest until there is room
Remembered(s, f) ==
  LET room == IF Len(s) >= Cap THEN SubSeq(s, Len(s) - Cap + 2, Len(s)) ELSE s
  IN  IF f \in Range(room) THEN room ELSE Append(room, f)

Older(f, g) ==
  \/ created[f] < created[g]
  \/ created[f] = created[g] /\ f < g

\* Faulty: one more than asked for, zrange's end being inclusive
OneTooMany(n) == {f \in shared : Cardinality({g \in shared : Older(g, f)}) <= n}

\* zrange(index, 0, n - 1)
Oldest(n) == {f \in shared : Cardinality({g \in shared : Older(g, f)}) < n}

-----------------------------------------------------------------------------
(* Calls *)

Active(c) == call[c].pc # "idle"

On(c, p, f) == [Idle EXCEPT !.proc = p, !.file = f,
                            !.alone = \A d \in Clients \ {c} : call[d].file # f]

\* Client c begins a call on file f; calls in flight on it are not alone
Begin(c, f, new) ==
  /\ call' = [d \in Clients |->
                IF d = c THEN new
                ELSE [call[d] EXCEPT !.alone = @ /\ (f = NoFile \/ call[d].file # f)]]
  /\ calls' = calls + 1

MayCall(c) == ~Active(c) /\ calls < MaxCalls

Goto(c, pc) == call' = [call EXCEPT ![c].pc = pc]

Reply(c) == call' = [call EXCEPT ![c] = Idle]

-----------------------------------------------------------------------------
(* POST /v1/files: aput *)

\* Faulty: the memory keeps what SQLite has evicted
MemoryAfterPut(p, f, table) == Remembered(mem[p], f)

\* put: memory, the row, and the eviction of the oldest rows everywhere here
Stored(p, f, table) ==
  Dropped(Remembered(mem[p], f), Range(db[p]) \ Range(table))

\* A random id; in different seconds one is as good as another
NewId(f) ==
  /\ f \notin DOMAIN created
  /\ SameSecond \/ \A g \in Files \ DOMAIN created : f <= g

Put(c, p, f) ==
  LET table == Capped(Append(db[p], f))
  IN  /\ MayCall(c)
      /\ NewId(f)
      /\ \E sec \in (IF SameSecond THEN {0, 1} ELSE {1}) :
           /\ now' = now + sec
           /\ created' = [g \in DOMAIN created \cup {f} |->
                            IF g = f THEN now' ELSE created[g]]
      /\ mem' = [mem EXCEPT ![p] = Stored(p, f, table)]
      /\ db' = [db EXCEPT ![p] = table]
      /\ Begin(c, f, [On(c, p, f) EXCEPT !.pc = "push"])
      /\ log' = [log EXCEPT !.stored[p] = Append(@, f)]
      /\ UNCHANGED <<shared, known, restarts>>

\* Puts that have counted the index or are about to
Trimming(c) == call[c].pc \in {"count", "rank", "trim"}

\* file_put of another upload, or a deletion, while an upload counts and trims
Disturbs(c) == \E d \in Clients \ {c} : Trimming(d)

Push(c) ==
  LET f == call[c].file
  IN  /\ call[c].pc = "push"
      /\ shared' = shared \cup {f}
      /\ Goto(c, "count")
      /\ log' = [log EXCEPT !.pushed = @ \cup {f}, !.calm = @ /\ ~Disturbs(c)]
      /\ UNCHANGED <<mem, db, created, known, now, calls, restarts>>

\* aput returns the id
Ack(c) ==
  /\ Reply(c)
  /\ known' = known \cup {call[c].file}

\* trim_files: zcard
Count(c) ==
  /\ call[c].pc = "count"
  /\ IF Cardinality(shared) <= Cap
     THEN Ack(c)
     ELSE /\ call' = [call EXCEPT ![c].pc = "rank",
                                  ![c].overflow = Cardinality(shared) - Cap]
          /\ UNCHANGED known
  /\ UNCHANGED <<mem, db, shared, created, now, calls, restarts, log>>

\* trim_files: zrange
Rank(c) ==
  /\ call[c].pc = "rank"
  /\ IF shared = {}
     THEN Ack(c)
     ELSE /\ call' = [call EXCEPT ![c].pc = "trim", ![c].got = Oldest(call[c].overflow)]
          /\ UNCHANGED known
  /\ UNCHANGED <<mem, db, shared, created, now, calls, restarts, log>>

\* trim_files: zrem and delete, then aput pops the evicted ids from memory
Trim(c) ==
  LET p == call[c].proc
  IN  /\ call[c].pc = "trim"
      /\ shared' = shared \ call[c].got
      /\ mem' = [mem EXCEPT ![p] = Dropped(mem[p], call[c].got)]
      /\ Ack(c)
      /\ log' = [log EXCEPT !.calm = @ /\ ~Disturbs(c)]
      /\ UNCHANGED <<db, created, now, calls, restarts>>

\* aput catches a RedisError of any of them; the command may have been done
PutFails(c) ==
  /\ RedisFails
  /\ call[c].pc \in {"push", "count", "rank", "trim"}
  /\ shared' \in {shared}
       \cup (IF call[c].pc = "push" THEN {shared \cup {call[c].file}} ELSE {})
       \cup (IF call[c].pc = "trim" THEN {shared \ call[c].got} ELSE {})
  /\ Ack(c)
  /\ log' = [log EXCEPT !.pushed = @ \cup (shared' \ shared), !.calm = @ /\ ~Disturbs(c)]
  /\ UNCHANGED <<mem, db, created, now, calls, restarts>>

-----------------------------------------------------------------------------
(* GET /v1/files/{fid}, /content, and file parts of messages: aget *)

\* A hit in memory or SQLite is the whole call
GetLocal(c, p, f) ==
  /\ MayCall(c)
  /\ f \in known
  /\ \/ f \in Range(mem[p]) /\ UNCHANGED mem
     \/ /\ f \in Range(db[p]) \ Range(mem[p])
        /\ mem' = [mem EXCEPT ![p] = Remembered(mem[p], f)]
  /\ Begin(c, NoFile, Idle)
  /\ UNCHANGED <<db, shared, created, known, now, restarts, log>>

GetShared(c, p, f) ==
  /\ MayCall(c)
  /\ f \in known \ (Range(mem[p]) \cup Range(db[p]))
  /\ Begin(c, f, [On(c, p, f) EXCEPT !.pc = "fetch"])
  /\ UNCHANGED <<mem, db, shared, created, known, now, restarts, log>>

\* file_get runs in Redis; None and an error both answer 404
Fetch(c) ==
  /\ call[c].pc = "fetch"
  /\ \/ call[c].file \in shared /\ Goto(c, "fetched")
     \/ (call[c].file \notin shared \/ RedisFails) /\ Reply(c)
  /\ UNCHANGED <<mem, db, shared, created, known, now, calls, restarts, log>>

Remember(c) ==
  LET p == call[c].proc
  IN  /\ call[c].pc = "fetched"
      /\ mem' = [mem EXCEPT ![p] = Remembered(mem[p], call[c].file)]
      /\ Reply(c)
      /\ log' = [log EXCEPT !.fetched = @ \cup {<<p, call[c].file>>}]
      /\ UNCHANGED <<db, shared, created, known, now, calls, restarts>>

-----------------------------------------------------------------------------
(* DELETE /v1/files/{fid}: adelete *)

\* Faulty: the row stays
RowKept(p, f) == db[p]

RowDeleted(p, f) == Dropped(db[p], {f})

Delete(c, p, f) ==
  /\ MayCall(c)
  /\ f \in known
  /\ mem' = [mem EXCEPT ![p] = Dropped(mem[p], {f})]
  /\ db' = [db EXCEPT ![p] = RowDeleted(p, f)]
  /\ Begin(c, f, [On(c, p, f) EXCEPT !.pc = "erase"])
  /\ log' = [log EXCEPT !.deleted = @ \cup {<<p, f>>}]
  /\ UNCHANGED <<shared, created, known, now, restarts>>

Erase(c) ==
  LET p == call[c].proc
      f == call[c].file
  IN  /\ call[c].pc = "erase"
      /\ \/ /\ shared' = shared \ {f}
            /\ log' = [log EXCEPT !.erased = @ \cup {f},
                          !.gone = IF call[c].alone THEN @ \cup {<<p, f>>} ELSE @,
                          !.calm = @ /\ ~Disturbs(c)]
         \/ RedisFails /\ UNCHANGED <<shared, log>>
      /\ Reply(c)
      /\ UNCHANGED <<mem, db, created, known, now, calls, restarts>>

-----------------------------------------------------------------------------
(* GET /v1/files: alist_all, the rows of SQLite and what Redis adds *)

List(c, p) ==
  /\ MayCall(c)
  /\ known' = known \cup Range(db[p])
  /\ Begin(c, NoFile, [Idle EXCEPT !.pc = "names", !.proc = p])
  /\ UNCHANGED <<mem, db, shared, created, now, restarts, log>>

\* file_list: the ids of the index, an error ends the list with the rows
Names(c) ==
  /\ call[c].pc = "names"
  /\ \/ call' = [call EXCEPT ![c].pc = "fields", ![c].got = shared]
     \/ RedisFails /\ Reply(c)
  /\ UNCHANGED <<mem, db, shared, created, known, now, calls, restarts, log>>

\* file_list: their fields; an id whose Hash is gone is left out
Fields(c) ==
  /\ call[c].pc = "fields"
  /\ known' = known \cup (call[c].got \cap shared)
  /\ Reply(c)
  /\ UNCHANGED <<mem, db, shared, created, now, calls, restarts, log>>

-----------------------------------------------------------------------------
\* The process dies with its memory and its calls, and boots again
Restart(p) ==
  /\ restarts < MaxRestarts
  /\ restarts' = restarts + 1
  /\ mem' = [mem EXCEPT ![p] = <<>>]
  /\ call' = [c \in Clients |-> IF call[c].proc = p THEN Idle ELSE call[c]]
  /\ UNCHANGED <<db, shared, created, known, now, calls, log>>

Init ==
  /\ mem = [p \in Procs |-> <<>>]
  /\ db = [p \in Procs |-> <<>>]
  /\ shared = {}
  /\ created = <<>>
  /\ call = [c \in Clients |-> Idle]
  /\ known = {}
  /\ now = 0
  /\ calls = 0
  /\ restarts = 0
  /\ log = [stored |-> [p \in Procs |-> <<>>], fetched |-> {}, deleted |-> {},
            gone |-> {}, pushed |-> {}, erased |-> {}, calm |-> TRUE]

Upload(c) == Push(c) \/ Count(c) \/ Rank(c) \/ Trim(c) \/ PutFails(c)

Next ==
  \/ \E c \in Clients :
       \/ \E p \in Procs, f \in Files :
            Put(c, p, f) \/ GetLocal(c, p, f) \/ GetShared(c, p, f) \/ Delete(c, p, f)
       \/ \E p \in Procs : List(c, p)
       \/ Upload(c) \/ Fetch(c) \/ Remember(c) \/ Erase(c) \/ Names(c) \/ Fields(c)
  \/ \E p \in Procs : Restart(p)

Spec == Init /\ [][Next]_vars

-----------------------------------------------------------------------------
(* Properties *)

Calls ==
  [pc : {"idle", "push", "count", "rank", "trim", "fetch", "fetched", "erase",
         "names", "fields"},
   proc : Procs \cup {""}, file : Files \cup {NoFile}, alone : BOOLEAN,
   overflow : Nat, got : SUBSET Files]

\* The type of every variable; no tier of a process outgrows the cap or holds a
\* file twice.
TypeOK ==
  /\ mem \in [Procs -> Seq(Files)]
  /\ db \in [Procs -> Seq(Files)]
  /\ \A p \in Procs :
       /\ Len(mem[p]) <= Cap /\ IsInjective(mem[p])
       /\ Len(db[p]) <= Cap /\ IsInjective(db[p])
  /\ shared \subseteq DOMAIN created /\ DOMAIN created \subseteq Files
  /\ now \in Nat /\ created \in [DOMAIN created -> 0..now]
  /\ call \in [Clients -> Calls]
  /\ \A c \in Clients :
       /\ Active(c) => call[c].proc \in Procs
       /\ call[c].file \in DOMAIN created \cup {NoFile}
  /\ known \subseteq DOMAIN created
  /\ log \in Histories

\* One of the last Cap uploads to a process is in its table until it is deleted
\* there: a restart or another process loses none (UploadStore: "so uploaded
\* files survive a restart").
UploadsSurvive ==
  \A p \in Procs :
    LET s == log.stored[p]
    IN  \A i \in DOMAIN s :
          i + Cap > Len(s) /\ <<p, s[i]>> \notin log.deleted => s[i] \in Range(db[p])

\* A file that its process has evicted is not served from the memory, whose
\* order is another after a restart, unless it came back from Redis (put).
EvictedIsForgotten ==
  \A p \in Procs :
    \A f \in Range(log.stored[p]) \ Range(db[p]) :
      f \in Range(mem[p]) => <<p, f>> \in log.fetched

\* A deletion that reached Redis and met no other call on its file is final
\* where it was made (adelete: "from memory + SQLite + Redis").
DeletedIsGone ==
  \A pf \in log.gone :
    pf[2] \notin Range(mem[pf[1]]) \cup Range(db[pf[1]]) \cup shared

KeepsNewest ==
  \A f \in log.pushed \ log.erased :
    f \in shared \/ Cardinality({g \in log.pushed : Older(f, g)}) >= Cap

\* As long as no trim meets another upload or deletion, the Cap newest uploads
\* of all processes are in Redis (trim_files: "oldest files beyond cap").
SharedKeepsNewest == log.calm => KeepsNewest

\* The same for overlapping deletes and gets, and for every process.
DeletesStick ==
  \A f \in log.erased : \A p \in Procs :
    <<p, f>> \in log.deleted => f \notin Range(mem[p])

DeletedEverywhere ==
  \A pf \in log.gone : \A p \in Procs :
    pf[2] \notin Range(mem[p]) \cup Range(db[p])
=============================================================================
