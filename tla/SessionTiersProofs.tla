-------------------------- MODULE SessionTiersProofs --------------------------
(***************************************************************************)
(* Proofs about SessionTiers.  For every number of processes, of tasks and *)
(* of restarts, whatever Redis does: what memory holds is in SQLite.  For  *)
(* a conversation that the one process that serves it knows at first, with *)
(* any number of turns, failures and restarts: a turn continues the last   *)
(* answer that was persisted, and the answers reach SQLite.                *)
(***************************************************************************)
EXTENDS SessionTiers, SubsequencesProofs, FiniteSetTheorems, TLAPS

-----------------------------------------------------------------------------
(* Types *)

Stages == DOMAIN Call \cup {"todo", "absent", "wait", "run", "done", "error"}

Steps == {"none", "resolve", "fetch", "apply", "refetch", "reapply", "check", "put",
          "delete", "gen", "cas", "casgen"}

Replies == [gen : Nat, row : Rows \cup {NoRow}]

TaskStates ==
  [stage : Stages, step : Steps, lock : Objects \cup {0}, obj : Objects \cup {0},
   got : Rows \cup {NoRow} \cup Replies, resume : Nat, base : Nat, mine : Nat,
   stale : BOOLEAN]

\* The stages that call get_or_new, and persist
New(stage) == stage \in {"lock", "open", "pin", "clear", "save"}

Persist(stage) == stage \in {"pinned", "cleared", "saved"}

\* A coroutine where it can be: the reply or the snapshot it holds, and the
\* object it is going to return, when the generation in Redis is g.
Fine(x, g) ==
  /\ x \in TaskStates
  /\ x.step \in {"apply", "reapply"} => x.got \in Replies /\ x.got.gen <= g
  /\ x.step \in {"check", "put"} => x.got \in Rows
  /\ x.step \in {"check", "refetch", "reapply"} => New(x.stage)
  /\ x.step = "put" => New(x.stage) \/ Persist(x.stage)
  /\ x.step \in {"fetch", "apply"} => New(x.stage) \/ x.stage \in {"pick", "read", "fail"}
  /\ x.step \in {"delete", "gen"} => x.stage \in {"fail", "purge"}
  /\ x.step \in {"cas", "casgen"} => x.stage = "purge"
  /\ x.step \in {"check", "refetch", "reapply"} => x.obj # 0
  /\ x.step = "put" /\ New(x.stage) => x.obj # 0
  /\ x.stage = "pinned" => x.obj # 0

Typed ==
  /\ mem \in [Procs -> Objects \cup {0}]
  /\ heap \in [Procs -> [Objects -> Rows]]
  /\ known \in [Procs -> Nat] /\ gen \in Nat /\ now \in Nat /\ turns \in Nat
  /\ db \in [Procs -> Rows \cup {NoRow}] /\ hash \in Rows \cup {NoRow}
  /\ task \in [Tasks -> TaskStates]
  /\ \A t \in Tasks : Fine(task[t], gen)

LEMMA Callings ==
  ASSUME NEW t \in Tasks
  PROVE  /\ Calling(t, "new") <=> New(task[t].stage)
         /\ Calling(t, "persist") <=> Persist(task[t].stage)
         /\ Calling(t, "get") <=> task[t].stage \in {"pick", "read"}
         /\ Calling(t, "fresh") <=> task[t].stage = "fail"
         /\ Calling(t, "purge") <=> task[t].stage = "purge"
BY DEF Calling, Call, New, Persist

LEMMA StageNames ==
  Stages = {"lock", "open", "pick", "pin", "pinned", "clear", "cleared", "save", "saved",
            "fail", "read", "purge", "todo", "absent", "wait", "run", "done", "error"}
BY DEF Stages, Call

\* A process always has an object to spare.
LEMMA FreeObject ==
  ASSUME Typed, NEW p \in Procs
  PROVE  NewObject(p) \in Objects \ Held(p)
<1> DEFINE mine == {u \in Tasks : ProcOf[u] = p}
           objs == {task[u].obj : u \in mine}
           locks == {task[u].lock : u \in mine}
           n == Cardinality(mine)
<1>1. IsFiniteSet(Tasks) /\ Cardinality(Tasks) \in Nat
  BY TiersAssumption, FS_CardinalityType
<1>2. IsFiniteSet(mine) /\ n \in Nat /\ n <= Cardinality(Tasks)
  <2>1. mine \in SUBSET Tasks
    OBVIOUS
  <2> HIDE DEF mine
  <2>2. QED BY <1>1, <2>1, FS_Subset, FS_CardinalityType
<1>3. IsFiniteSet(objs) /\ Cardinality(objs) <= n
  <2> DEFINE f == [u \in mine |-> task[u].obj]
  <2>1. f \in Surjection(mine, objs)
    BY DEF Surjection
  <2> HIDE DEF f, mine, objs
  <2>2. QED BY <1>2, <2>1, FS_Surjection
<1>4. IsFiniteSet(locks) /\ Cardinality(locks) <= n
  <2> DEFINE f == [u \in mine |-> task[u].lock]
  <2>1. f \in Surjection(mine, locks)
    BY DEF Surjection
  <2> HIDE DEF f, mine, locks
  <2>2. QED BY <1>2, <2>1, FS_Surjection
<1>5. Held(p) = (objs \cup locks) \cup {mem[p]}
  BY DEF Held
<1> HIDE DEF objs, locks, n, mine
<1>6. IsFiniteSet(objs \cup locks) /\ Cardinality(objs \cup locks) <= 2 * n
  <2>1. Cardinality(objs) \in Nat /\ Cardinality(locks) \in Nat
    BY <1>3, <1>4, FS_CardinalityType
  <2>2. IsFiniteSet(objs \cap locks)
    <3>1. objs \cap locks \in SUBSET objs
      OBVIOUS
    <3>2. QED BY <1>3, <3>1, FS_Subset
  <2>3. Cardinality(objs \cap locks) \in Nat
    BY <2>2, FS_CardinalityType
  <2>4. /\ IsFiniteSet(objs \cup locks)
        /\ Cardinality(objs \cup locks) = Cardinality(objs) + Cardinality(locks) - Cardinality(objs \cap locks)
    BY <1>3, <1>4, FS_Union
  <2>5. QED BY <1>2, <1>3, <1>4, <2>1, <2>3, <2>4
<1>7. IsFiniteSet(Held(p)) /\ Cardinality(Held(p)) \in Nat /\ Cardinality(Held(p)) <= 2 * n + 1
  <2>1. Cardinality(objs \cup locks) \in Nat
    BY <1>6, FS_CardinalityType
  <2>2. IsFiniteSet(Held(p))
    BY <1>5, <1>6, FS_AddElement
  <2>3. \/ Cardinality(Held(p)) = Cardinality(objs \cup locks)
        \/ Cardinality(Held(p)) = Cardinality(objs \cup locks) + 1
    BY <1>5, <1>6, FS_AddElement
  <2>4. QED BY <1>2, <1>6, <2>1, <2>2, <2>3
<1>8. Cardinality(Objects) = 2 * Cardinality(Tasks) + 2
  BY <1>1, FS_Interval DEF Objects
<1>9. ~(Objects \subseteq Held(p))
  <2> SUFFICES ASSUME Objects \in SUBSET Held(p) PROVE FALSE
    OBVIOUS
  <2>1. Cardinality(Objects) <= Cardinality(Held(p))
    BY <1>7, FS_Subset
  <2>2. QED BY <1>1, <1>2, <1>7, <1>8, <2>1
<1>10. Objects \ Held(p) \subseteq Nat /\ Objects \ Held(p) # {}
  BY <1>9 DEF Objects
<1>11. \E o \in Objects \ Held(p) : \A q \in Objects \ Held(p) : o <= q
  BY <1>10, LeastNatural
<1>12. QED BY <1>11 DEF NewObject

\* Assigned, and not yet in SQLite
Writing(x) == x.step = "resolve" /\ Persist(x.stage)

\* A coroutine between two calls.
Between(x, g) ==
  /\ x \in TaskStates /\ x.step \in {"none", "resolve"}
  /\ x.stage = "pinned" => x.obj # 0

LEMMA BetweenFine == \A x, g : Between(x, g) => Fine(x, g)
BY DEF Between, Fine

LEMMA Betweens ==
  ASSUME Typed, NEW t \in Tasks, NEW s \in Stages \ {"pinned"}, NEW g
  PROVE  /\ At(t, s) \in TaskStates /\ Between(At(t, s), g)
         /\ Rest(t, s) \in TaskStates /\ Between(Rest(t, s), g)
         /\ At(t, s).stage = s /\ At(t, s).step = "resolve"
         /\ Rest(t, s).stage = s /\ Rest(t, s).step = "none"
<1>1. task[t] \in TaskStates
  BY DEF Typed
<1>2. At(t, s) \in TaskStates /\ At(t, s).stage = s /\ At(t, s).step = "resolve"
  BY <1>1 DEF At, TaskStates, Steps
<1>3. Rest(t, s) \in TaskStates /\ Rest(t, s).stage = s /\ Rest(t, s).step = "none"
  BY <1>2 DEF Rest, TaskStates, Steps
<1>4. QED BY <1>2, <1>3 DEF Between

LEMMA RunBetween ==
  ASSUME Typed, NEW t \in Tasks, NEW meta \in Nat, NEW g
  PROVE  Between(Run(t, meta), g)
<1>1. "run" \in Stages \ {"pinned"}
  BY StageNames
<1>2. Between(Rest(t, "run"), g) /\ Rest(t, "run") \in TaskStates
  BY <1>1, Betweens
<1>3. QED BY <1>2 DEF Run, Between, TaskStates

LEMMA PickedBetween ==
  ASSUME Typed, NEW t \in Tasks, NEW row \in Rows \cup {NoRow}, NEW g
  PROVE  Between(Picked(t, row), g)
<1>1. task[t] \in TaskStates
  BY DEF Typed
<1>2. {"pick", "pin", "clear"} \subseteq Stages \ {"pinned"}
  BY StageNames
<1>3. \A s \in {"pick", "pin", "clear"} : At(t, s) \in TaskStates /\ Between(At(t, s), g)
  BY <1>2, Betweens
<1>4. Between([At(t, "pick") EXCEPT !.stale = TRUE], g)
  BY <1>3 DEF Between, TaskStates
<1>5. task[t].resume \in Nat
  BY <1>1 DEF TaskStates
<1>6. row # NoRow => row.meta \in Nat
  BY DEF Rows
<1> DEFINE meta == IF row.meta # 0 THEN row.meta ELSE task[t].resume
<1>7. row # NoRow => Between(Run(t, row.meta), g) /\ Between(Run(t, meta), g)
  BY <1>5, <1>6, RunBetween
<1>8. QED BY <1>3, <1>4, <1>7 DEF Picked

\* The coroutine and the objects after a call has returned object o.
LEMMA ReturnedFine ==
  ASSUME Typed, NEW t \in Tasks, NEW o \in Objects \cup {0},
         NEW objects \in [Objects -> Rows], NEW g,
         task[t].stage \in DOMAIN Call,
         New(task[t].stage) \/ task[t].stage = "pinned" => o # 0
  PROVE  /\ Between(Returned(t, o, objects).task, g)
         /\ Returned(t, o, objects).objects \in [Objects -> Rows]
         /\ \/ Returned(t, o, objects).objects = objects
            \/ Writing(Returned(t, o, objects).task)
<1> DEFINE x == Returned(t, o, objects)
           row == IF o = 0 THEN NoRow ELSE objects[o]
           stage == task[t].stage
<1>1. task[t] \in TaskStates
  BY DEF Typed
<1>2. stage \in {"lock", "open", "pick", "pin", "pinned", "clear", "cleared", "save",
                  "saved", "fail", "read", "purge"}
  BY DEF Call
<1>3. row \in Rows \cup {NoRow}
  OBVIOUS
<1>4. ASSUME o # 0 PROVE row \in Rows /\ row = objects[o] /\ row.meta \in Nat
  BY <1>4 DEF Rows
<1>5. \A s \in {"pick", "pin", "clear", "cleared", "saved"} :
        /\ At(t, s) \in TaskStates /\ Between(At(t, s), g)
        /\ At(t, s).stage = s /\ At(t, s).step = "resolve"
  BY StageNames, Betweens
<1>6. \A s \in {"wait", "done"} : Rest(t, s) \in TaskStates /\ Between(Rest(t, s), g) /\ Rest(t, s).stage = s
  BY StageNames, Betweens
<1>7. ASSUME NEW new \in Rows, o # 0
      PROVE  [objects EXCEPT ![o] = new] \in [Objects -> Rows]
  BY <1>7
<1> HIDE DEF row
<1>8. CASE stage = "lock"
  <2>1. x = [task |-> [Rest(t, "wait") EXCEPT !.lock = o], objects |-> objects]
    BY <1>8 DEF Returned
  <2>2. Between([Rest(t, "wait") EXCEPT !.lock = o], g)
    BY <1>6 DEF Between, TaskStates
  <2>3. QED BY <2>1, <2>2
<1>9. CASE stage = "open"
  <2> DEFINE new == [At(t, "pick") EXCEPT !.resume = IF Created(t) THEN 0 ELSE row.meta]
  <2>1. x = [task |-> new, objects |-> objects]
    BY <1>9 DEF Returned, row
  <2>2. o # 0
    BY <1>9 DEF New
  <2>3. Between(new, g)
    BY <1>4, <1>5, <2>2 DEF Between, TaskStates
  <2>4. QED BY <2>1, <2>3
<1>10. CASE stage = "pick"
  <2>1. x = [task |-> Picked(t, row), objects |-> objects]
    BY <1>10 DEF Returned, row
  <2>2. Between(Picked(t, row), g)
    BY <1>3, PickedBetween
  <2>3. QED BY <2>1, <2>2
<1>11. ASSUME o # 0
       PROVE  Between(IF task[t].stale THEN At(t, "clear") ELSE Run(t, row.meta), g)
  <2>1. Between(At(t, "clear"), g)
    BY <1>5
  <2>2. Between(Run(t, row.meta), g)
    BY <1>4, <1>11, RunBetween
  <2>3. QED BY <2>1, <2>2
<1>12. CASE stage = "pin"
  <2>1. o # 0
    BY <1>12 DEF New
  <2>2. CASE row.pinned
    <3>1. x = [task |-> IF task[t].stale THEN At(t, "clear") ELSE Run(t, row.meta), objects |-> objects]
      BY <1>12, <2>2 DEF Returned, row
    <3>2. QED BY <1>11, <2>1, <3>1
  <2>3. CASE ~row.pinned
    <3> DEFINE new == [row EXCEPT !.pinned = TRUE]
               y == [At(t, "pinned") EXCEPT !.obj = o]
    <3>1. x = [task |-> y, objects |-> [objects EXCEPT ![o] = new]]
      BY <1>12, <2>3 DEF Returned, row
    <3>2. new \in Rows
      BY <1>4, <2>1 DEF Rows
    <3>3. "pinned" \in Stages
      BY StageNames
    <3>4. y = [task[t] EXCEPT !.stage = "pinned", !.step = "resolve", !.obj = o, !.got = NoRow]
      BY <1>1 DEF At, TaskStates
    <3>5. Between(y, g) /\ Writing(y)
      BY <1>1, <2>1, <3>3, <3>4 DEF Between, TaskStates, Steps, Writing, Persist
    <3>6. QED BY <1>7, <2>1, <3>1, <3>2, <3>5
  <2>4. QED BY <2>2, <2>3
<1>13. CASE stage = "pinned"
  <2>1. x = [task |-> IF task[t].stale THEN At(t, "clear") ELSE Run(t, row.meta), objects |-> objects]
    BY <1>13 DEF Returned, row
  <2>2. QED BY <1>11, <1>13, <2>1
<1>14. CASE stage = "clear"
  <2> DEFINE new == [row EXCEPT !.meta = 0]
  <2>1. x = [task |-> At(t, "cleared"), objects |-> [objects EXCEPT ![o] = new]]
    BY <1>14 DEF Returned, row
  <2>2. o # 0
    BY <1>14 DEF New
  <2>3. new \in Rows
    BY <1>4, <2>2 DEF Rows
  <2>4. Writing(At(t, "cleared"))
    BY <1>5 DEF Writing, Persist
  <2>5. QED BY <1>5, <1>7, <2>1, <2>2, <2>3, <2>4
<1>15. CASE stage = "cleared"
  <2>1. x = [task |-> Run(t, 0), objects |-> objects]
    BY <1>15 DEF Returned
  <2>2. QED BY <2>1, RunBetween
<1>16. CASE stage = "save"
  <2> DEFINE new == [row EXCEPT !.meta = task[t].mine, !.pinned = TRUE]
  <2>1. x = [task |-> At(t, "saved"), objects |-> [objects EXCEPT ![o] = new]]
    BY <1>16 DEF Returned, row
  <2>2. o # 0
    BY <1>16 DEF New
  <2>3. new \in Rows
    BY <1>1, <1>4, <2>2 DEF Rows, TaskStates
  <2>4. Writing(At(t, "saved"))
    BY <1>5 DEF Writing, Persist
  <2>5. QED BY <1>5, <1>7, <2>1, <2>2, <2>3, <2>4
<1>17. CASE stage \in {"saved", "fail", "read", "purge"}
  <2>1. x = [task |-> [Rest(t, "done") EXCEPT !.lock = 0], objects |-> objects]
    BY <1>17 DEF Returned
  <2>2. Between([Rest(t, "done") EXCEPT !.lock = 0], g)
    BY <1>6 DEF Between, TaskStates
  <2>3. QED BY <2>1, <2>2
<1>18. QED
  BY <1>2, <1>8, <1>9, <1>10, <1>12, <1>13, <1>14, <1>15, <1>16, <1>17

LEMMA FineLater ==
  ASSUME NEW g \in Nat, NEW g2 \in Nat, g <= g2, NEW x, Fine(x, g)
  PROVE  Fine(x, g2)
BY DEF Fine, Replies

\* What a step of coroutine t leaves, when the generation is then g.
TasksFine(g) == task' \in [Tasks -> TaskStates] /\ \A u \in Tasks : Fine(task'[u], g)

LEMMA TasksStep ==
  ASSUME Typed, NEW t \in Tasks, NEW g \in Nat, gen <= g, NEW x, Fine(x, g),
         task' = [task EXCEPT ![t] = x]
  PROVE  TasksFine(g)
<1>1. \A u \in Tasks : Fine(task[u], g)
  BY FineLater DEF Typed
<1>2. QED BY <1>1 DEF Typed, TasksFine, Fine

\* Object m of the objects, unless it has no history, is the row r of SQLite.
Matches(m, objects, r) ==
  m # 0 /\ objects[m].meta # 0 => r # NoRow /\ SameContent(r, objects[m])

\* Another coroutine of the process is about to write
OthersWrite(t) == \E u \in Tasks \ {t} : ProcOf[u] = ProcOf[t] /\ Writing(task[u])

Settled(t) == OthersWrite(t) \/ Matches(mem[ProcOf[t]], heap[ProcOf[t]], db[ProcOf[t]])

\* What a step of coroutine t leaves in the tiers and the coroutines.
After(t) ==
  /\ mem' \in [Procs -> Objects \cup {0}]
  /\ heap' \in [Procs -> [Objects -> Rows]]
  /\ db' \in [Procs -> Rows \cup {NoRow}]
  /\ TasksFine(gen')
  /\ \A q \in Procs \ {ProcOf[t]} : mem'[q] = mem[q] /\ heap'[q] = heap[q] /\ db'[q] = db[q]
  /\ \A u \in Tasks \ {t} : task'[u] = task[u]
  /\ \/ OthersWrite(t) \/ Writing(task'[t])
     \/ Matches(mem'[ProcOf[t]], heap'[ProcOf[t]], db'[ProcOf[t]])

LEMMA StepAfter ==
  ASSUME Typed, NEW t \in Tasks, gen' \in Nat, gen <= gen',
         NEW x, Fine(x, gen'), task' = [task EXCEPT ![t] = x],
         NEW objects \in [Objects -> Rows], heap' = [heap EXCEPT ![ProcOf[t]] = objects],
         NEW m \in Objects \cup {0}, mem' = [mem EXCEPT ![ProcOf[t]] = m],
         NEW r \in Rows \cup {NoRow}, db' = [db EXCEPT ![ProcOf[t]] = r],
         OthersWrite(t) \/ Writing(x) \/ Matches(m, objects, r)
  PROVE  After(t)
<1>1. ProcOf[t] \in Procs
  BY TiersAssumption
<1>2. /\ mem \in [Procs -> Objects \cup {0}] /\ heap \in [Procs -> [Objects -> Rows]]
      /\ db \in [Procs -> Rows \cup {NoRow}] /\ task \in [Tasks -> TaskStates]
  BY DEF Typed
<1>3. TasksFine(gen')
  BY TasksStep
<1>4. /\ mem'[ProcOf[t]] = m /\ heap'[ProcOf[t]] = objects /\ db'[ProcOf[t]] = r /\ task'[t] = x
  BY <1>1, <1>2
<1>5. QED BY <1>1, <1>2, <1>3, <1>4 DEF After

\* A step of coroutine t alone.
LEMMA OwnAfter ==
  ASSUME Typed, NEW t \in Tasks, Settled(t), UNCHANGED <<mem, heap, db, gen>>,
         NEW x, Fine(x, gen), task' = [task EXCEPT ![t] = x]
  PROVE  After(t)
<1> DEFINE p == ProcOf[t]
<1>1. p \in Procs
  BY TiersAssumption
<1>2. heap[p] \in [Objects -> Rows] /\ mem[p] \in Objects \cup {0} /\ db[p] \in Rows \cup {NoRow}
  BY <1>1 DEF Typed
<1>3. /\ heap' = [heap EXCEPT ![p] = heap[p]] /\ mem' = [mem EXCEPT ![p] = mem[p]]
      /\ db' = [db EXCEPT ![p] = db[p]]
  BY <1>1 DEF Typed
<1>4. gen' \in Nat /\ gen <= gen' /\ Fine(x, gen')
  BY DEF Typed
<1>5. OthersWrite(t) \/ Matches(mem[p], heap[p], db[p])
  BY DEF Settled
<1> HIDE DEF p
<1>6. QED
  <2>1. p = ProcOf[t]
    BY DEF p
  <2>2. QED BY <1>2, <1>3, <1>4, <1>5, <2>1, StepAfter

\* The end of a call of the store.
LEMMA ReturnAfter ==
  ASSUME Typed, NEW t \in Tasks, gen' \in Nat, gen <= gen',
         NEW o \in Objects \cup {0}, NEW objects \in [Objects -> Rows],
         task[t].stage \in DOMAIN Call,
         New(task[t].stage) \/ task[t].stage = "pinned" => o # 0,
         Return(t, o, objects),
         NEW m \in Objects \cup {0}, mem' = [mem EXCEPT ![ProcOf[t]] = m],
         NEW r \in Rows \cup {NoRow}, db' = [db EXCEPT ![ProcOf[t]] = r],
         OthersWrite(t) \/ Matches(m, objects, r)
  PROVE  After(t)
<1> DEFINE x == Returned(t, o, objects).task
           objects2 == Returned(t, o, objects).objects
<1>1. Between(x, gen') /\ objects2 \in [Objects -> Rows] /\ (objects2 = objects \/ Writing(x))
  BY ReturnedFine
<1>2. task' = [task EXCEPT ![t] = x] /\ heap' = [heap EXCEPT ![ProcOf[t]] = objects2]
  BY DEF Return
<1>3. Fine(x, gen')
  BY <1>1, BetweenFine
<1> HIDE DEF x, objects2
<1>4. QED BY <1>1, <1>2, <1>3, StepAfter

LEMMA EmptyRow == Empty \in Rows /\ Empty.meta = 0
BY DEF Empty, Rows

\* The memory, the objects and SQLite after a reply has been applied.
LEMMA SyncTyped ==
  ASSUME Typed, NEW t \in Tasks, NEW g \in Replies
  PROVE  LET p == ProcOf[t]
             s == Sync(t, g)
         IN  /\ p \in Procs
             /\ s.obj \in Objects \cup {0}
             /\ s.objects \in [Objects -> Rows]
             /\ s.db \in Rows \cup {NoRow}
             /\ KnownAfter(p, g) \in [Procs -> Nat]
             /\ s.obj # 0 /\ s.obj # mem[p] => mem[p] = 0
             /\ \/ s.obj = 0 /\ s.objects = heap[p] /\ s.db = db[p]
                \/ s.obj # 0 /\ s.obj = mem[p] /\ s.objects = heap[p] /\ s.db = db[p]
                \/ /\ s.obj # 0 /\ s.db = s.objects[s.obj] /\ s.db \in Rows
                   /\ s.db = g.row /\ (mem[p] # 0 => g.row.at >= heap[p][mem[p]].at /\ ~SameContent(g.row, heap[p][mem[p]]))
                \/ /\ s.obj # 0 /\ s.db = db[p] /\ s.objects[s.obj].meta = 0 /\ mem[p] = 0
<1> DEFINE p == ProcOf[t]
           s == Sync(t, g)
           dropped == g.row = NoRow /\ g.gen > known[p]
           o == IF mem[p] # 0 THEN mem[p] ELSE NewObject(p)
           current == IF mem[p] # 0 THEN heap[p][o] ELSE Empty
           newer == g.row.at >= current.at /\ ~SameContent(g.row, current)
           row == IF newer THEN g.row ELSE current
<1>1. p \in Procs
  BY TiersAssumption
<1>2. NewObject(p) \in Objects
  BY <1>1, FreeObject
<1>3. o \in Objects /\ o # 0
  BY <1>1, <1>2 DEF Typed, Objects
<1>4. g.row = NoRow \/ g.row \in Rows
  BY DEF Replies
<1>5. KnownAfter(p, g) \in [Procs -> Nat]
  BY <1>1 DEF KnownAfter, Typed, Replies
<1>6. heap[p] \in [Objects -> Rows] /\ mem[p] \in Objects \cup {0} /\ db[p] \in Rows \cup {NoRow}
  BY <1>1 DEF Typed
<1>7. CASE g.row = NoRow
  <2>1. s = [obj |-> IF dropped THEN 0 ELSE mem[p], objects |-> heap[p], db |-> db[p]]
    BY <1>7 DEF Sync
  <2>2. QED BY <1>1, <1>5, <1>6, <2>1
<1>8. CASE g.row # NoRow
  <2>1. s = [obj |-> o, objects |-> [heap[p] EXCEPT ![o] = row],
             db |-> IF newer THEN g.row ELSE db[p]]
    BY <1>8 DEF Sync, Upserted
  <2>2. g.row \in Rows
    BY <1>4, <1>8
  <2>3. current \in Rows
    BY <1>3, <1>6, EmptyRow
  <2>4. row \in Rows
    BY <2>2, <2>3
  <2>5. mem[p] # 0 => o = mem[p] /\ current = heap[p][mem[p]]
    OBVIOUS
  <2>6. mem[p] = 0 => current = Empty
    OBVIOUS
  <2>7. mem[p] = 0 /\ ~newer => row.meta = 0
    BY <2>6, EmptyRow
  <2>8. mem[p] # 0 /\ ~newer => [heap[p] EXCEPT ![o] = row] = heap[p]
    BY <1>3, <1>6, <2>5
  <2>9. newer => row = g.row /\ g.row.at >= current.at /\ ~SameContent(g.row, current)
    OBVIOUS
  <2>10. ~newer => row = current
    OBVIOUS
  <2> HIDE DEF p, s, o, current, newer, row
  <2>11. /\ s.obj = o /\ s.objects = [heap[p] EXCEPT ![o] = row]
         /\ newer => s.db = g.row
         /\ ~newer => s.db = db[p]
    BY <2>1
  <2>12. s.objects[s.obj] = row /\ s.objects \in [Objects -> Rows]
    BY <1>3, <1>6, <2>4, <2>11
  <2>13. /\ s.obj \in Objects \cup {0}
         /\ s.db \in Rows \cup {NoRow}
         /\ s.obj # 0 /\ s.obj # mem[p] => mem[p] = 0
    BY <1>3, <1>6, <2>2, <2>5, <2>11
  <2>14. CASE newer
    BY <1>1, <1>3, <1>5, <2>2, <2>5, <2>9, <2>11, <2>12, <2>13, <2>14 DEF p, s
  <2>15. CASE ~newer /\ mem[p] # 0
    BY <1>1, <1>3, <1>5, <2>5, <2>8, <2>11, <2>12, <2>13, <2>15 DEF p, s
  <2>16. CASE ~newer /\ mem[p] = 0
    BY <1>1, <1>3, <1>5, <2>7, <2>11, <2>12, <2>13, <2>16 DEF p, s
  <2>17. QED BY <2>14, <2>15, <2>16
<1>9. QED BY <1>7, <1>8

\* The coroutine steps of its own.
LEMMA HandleAfter ==
  ASSUME Typed, NEW t \in Tasks, Settled(t),
         Handle(t) \/ ResolvePurge(t) \/ Fetch(t) \/ PurgeFails(t)
  PROVE  After(t)
<1>1. task[t] \in TaskStates /\ Fine(task[t], gen) /\ gen \in Nat /\ turns \in Nat
  BY DEF Typed
<1>2. /\ hash \in Rows \cup {NoRow}
  BY DEF Typed
<1>3. UNCHANGED <<mem, heap, db, gen>>
  BY DEF Handle, Start, StartPurge, Acquire, Answer, Fail, ResolvePurge, Fetch, PurgeFails, local, redis
<1>4. {"lock", "read", "purge", "open", "save", "fail", "error"} \subseteq Stages \ {"pinned"}
  BY StageNames
<1>5. \A s \in {"lock", "read", "purge", "open", "save", "fail", "error"} :
        /\ At(t, s) \in TaskStates /\ Between(At(t, s), gen) /\ Between(Rest(t, s), gen)
        /\ At(t, s).stage = s /\ At(t, s).step = "resolve"
  BY <1>4, Betweens
<1>6. CASE Start(t) \/ Acquire(t) \/ Fail(t) \/ PurgeFails(t)
  <2>1. PICK x \in {At(t, "lock"), At(t, "read"), At(t, "open"), At(t, "fail"), Rest(t, "error")} :
          task' = [task EXCEPT ![t] = x]
    BY <1>6 DEF Start, Acquire, Fail, PurgeFails
  <2>2. Fine(x, gen)
    BY <1>5, BetweenFine
  <2>3. QED BY <1>3, <2>1, <2>2, OwnAfter
<1>7. CASE Answer(t)
  <2> DEFINE x == [At(t, "save") EXCEPT !.mine = turns + 1]
  <2>1. task' = [task EXCEPT ![t] = x]
    BY <1>7 DEF Answer
  <2>2. Between(x, gen)
    BY <1>1, <1>5 DEF Between, TaskStates
  <2> HIDE DEF x
  <2>3. QED BY <1>3, <2>1, <2>2, BetweenFine, OwnAfter
<1>8. CASE StartPurge(t)
  <2> DEFINE row == IF mem[ProcOf[t]] # 0 THEN heap[ProcOf[t]][mem[ProcOf[t]]] ELSE hash
             x == [At(t, "purge") EXCEPT !.got = row]
  <2>1. task' = [task EXCEPT ![t] = x]
    BY <1>8 DEF StartPurge
  <2>2. row \in Rows \cup {NoRow}
    BY <1>2, TiersAssumption DEF Typed
  <2> HIDE DEF row
  <2>3. Between(x, gen)
    BY <1>1, <1>5, <2>2 DEF Between, TaskStates
  <2> HIDE DEF x
  <2>4. QED BY <1>3, <2>1, <2>3, BetweenFine, OwnAfter
<1>9. CASE ResolvePurge(t)
  <2> DEFINE x == [task[t] EXCEPT !.step = "cas"]
  <2>1. task' = [task EXCEPT ![t] = x]
    BY <1>1, <1>9 DEF ResolvePurge, TaskStates
  <2>2. task[t].stage = "purge"
    BY <1>9, Callings DEF ResolvePurge, Resolving
  <2>3. x \in TaskStates /\ x.stage = "purge" /\ x.step = "cas"
    BY <1>1, <2>2 DEF TaskStates, Steps
  <2> HIDE DEF x
  <2>4. Fine(x, gen)
    BY <2>3 DEF Fine
  <2>5. QED BY <1>3, <2>1, <2>4, OwnAfter
<1>10. CASE Fetch(t)
  <2> DEFINE reply == [gen |-> gen, row |-> hash]
             x == [task[t] EXCEPT !.step = IF @ = "fetch" THEN "apply" ELSE "reapply", !.got = reply]
  <2>1. task' = [task EXCEPT ![t] = x]
    BY <1>1, <1>10 DEF Fetch, TaskStates
  <2>2. reply \in Replies /\ reply.gen = gen
    BY <1>1, <1>2 DEF Replies
  <2>3. task[t].step \in {"fetch", "refetch"}
    BY <1>10 DEF Fetch
  <2> HIDE DEF reply
  <2>4. /\ x \in TaskStates /\ x.got = reply /\ x.stage = task[t].stage /\ x.obj = task[t].obj
        /\ x.step = IF task[t].step = "fetch" THEN "apply" ELSE "reapply"
    BY <1>1, <2>2, <2>3 DEF TaskStates, Steps
  <2> HIDE DEF x
  <2>5. CASE task[t].step = "fetch"
    <3>1. Fine(x, gen)
      BY <1>1, <2>2, <2>4, <2>5 DEF Fine
    <3>2. QED BY <1>3, <2>1, <3>1, OwnAfter
  <2>6. CASE task[t].step = "refetch"
    <3>1. Fine(x, gen)
      BY <1>1, <2>2, <2>4, <2>6 DEF Fine
    <3>2. QED BY <1>3, <2>1, <3>1, OwnAfter
  <2>7. QED BY <2>3, <2>5, <2>6
<1>11. QED BY <1>6, <1>7, <1>8, <1>9, <1>10 DEF Handle

\* A step within a call.
LEMMA GotoFine ==
  ASSUME Typed, NEW t \in Tasks, NEW step \in Steps, NEW o \in Objects \cup {0},
         NEW got \in Rows \cup {NoRow},
         step \in {"fetch", "check", "put", "delete"},
         step \in {"check", "put"} => got \in Rows,
         step = "check" => New(task[t].stage) /\ o # 0,
         step = "put" => Persist(task[t].stage),
         step = "fetch" => New(task[t].stage) \/ task[t].stage \in {"pick", "read", "fail"},
         step = "delete" => task[t].stage \in {"fail", "purge"},
         task[t].stage = "pinned" => o # 0
  PROVE  Fine([task[t] EXCEPT !.step = step, !.obj = o, !.got = got], gen)
<1>1. task[t] \in TaskStates
  BY DEF Typed
<1>2. QED BY <1>1 DEF Fine, TaskStates, New, Persist

\* _resolve_async and what get_or_new, get, drop_if_fresh and persist do next.
LEMMA ResolveAfter ==
  ASSUME Typed, NEW t \in Tasks, Settled(t) \/ ResolvePersist(t),
         ResolveNew(t) \/ ResolveGet(t) \/ ResolvePersist(t)
  PROVE  After(t)
<1> DEFINE p == ProcOf[t]
<1>1. p \in Procs
  BY TiersAssumption
<1>2. /\ task[t] \in TaskStates /\ Fine(task[t], gen) /\ gen \in Nat /\ now \in Nat
      /\ heap[p] \in [Objects -> Rows] /\ mem[p] \in Objects \cup {0} /\ db[p] \in Rows \cup {NoRow}
  BY <1>1 DEF Typed
<1>3. gen' = gen /\ mem' = mem
  BY DEF ResolveNew, ResolveGet, ResolvePersist, redis
<1>4. mem' = [mem EXCEPT ![p] = mem[p]]
  BY <1>1, <1>3 DEF Typed
<1>5. db' = db => db' = [db EXCEPT ![p] = db[p]]
  BY <1>1 DEF Typed
<1>6. Settled(t) <=> OthersWrite(t) \/ Matches(mem[p], heap[p], db[p])
  BY DEF Settled
<1>7. ASSUME NEW o \in Objects \cup {0}, NEW r \in Rows \cup {NoRow},
             task[t].stage \in DOMAIN Call,
             New(task[t].stage) \/ task[t].stage = "pinned" => o # 0,
             Return(t, o, heap[p]), db' = [db EXCEPT ![p] = r],
             OthersWrite(t) \/ Matches(mem[p], heap[p], r)
      PROVE  After(t)
  <2> HIDE DEF p
  <2>1. p = ProcOf[t] /\ gen' \in Nat /\ gen <= gen'
    BY <1>2, <1>3 DEF p
  <2>2. QED BY <1>2, <1>4, <1>7, <2>1, ReturnAfter
<1>8. ASSUME NEW x, Fine(x, gen), task' = [task EXCEPT ![t] = x],
             NEW objects \in [Objects -> Rows], heap' = [heap EXCEPT ![p] = objects],
             NEW r \in Rows \cup {NoRow}, db' = [db EXCEPT ![p] = r],
             OthersWrite(t) \/ Matches(mem[p], objects, r)
      PROVE  After(t)
  <2> HIDE DEF p
  <2>1. p = ProcOf[t] /\ gen' \in Nat /\ gen <= gen' /\ Fine(x, gen')
    BY <1>2, <1>3, <1>8 DEF p
  <2>2. QED BY <1>2, <1>4, <1>8, <2>1, StepAfter
<1>9. heap' = heap => heap' = [heap EXCEPT ![p] = heap[p]]
  BY <1>1 DEF Typed
<1>10. task[t].step = "resolve"
  BY DEF ResolveNew, ResolveGet, ResolvePersist, Resolving
<1>11. task[t].stage \in DOMAIN Call
  BY DEF ResolveNew, ResolveGet, ResolvePersist, Resolving, Calling
<1>12. CASE ResolveNew(t)
  <2>1. New(task[t].stage) /\ db' = db
    BY <1>12, Callings DEF ResolveNew, Resolving
  <2>2. Settled(t)
    BY <1>12, <2>1, Callings DEF ResolvePersist, Resolving, New, Persist
  <2>3. CASE mem[p] # 0 /\ Return(t, mem[p], heap[p])
    BY <1>2, <1>5, <1>6, <1>7, <1>11, <2>1, <2>2, <2>3
  <2>4. CASE Goto(t, "fetch", 0, NoRow) /\ UNCHANGED heap
    <3> DEFINE x == [task[t] EXCEPT !.step = "fetch", !.obj = 0, !.got = NoRow]
    <3>1. task' = [task EXCEPT ![t] = x]
      BY <2>4 DEF Goto, Typed, TaskStates
    <3>2. Fine(x, gen)
      BY <1>2, <2>1, GotoFine DEF Steps, New
    <3> HIDE DEF x
    <3>3. QED BY <1>2, <1>5, <1>6, <1>8, <1>9, <2>1, <2>2, <2>4, <3>1, <3>2
  <2>5. QED BY <1>12, <2>3, <2>4 DEF ResolveNew
<1>13. CASE ResolveGet(t)
  <2>1. task[t].stage \in {"pick", "read", "fail"} /\ db' = db
    BY <1>13, Callings DEF ResolveGet, Resolving
  <2>2. Settled(t)
    BY <1>13, <2>1, Callings DEF ResolvePersist, Resolving, New, Persist
  <2>3. CASE Return(t, 0, heap[p])
    BY <1>2, <1>5, <1>6, <1>7, <1>11, <2>1, <2>2, <2>3 DEF New
  <2>4. CASE Goto(t, "fetch", mem[p], NoRow) /\ UNCHANGED heap
    <3> DEFINE x == [task[t] EXCEPT !.step = "fetch", !.obj = mem[p], !.got = NoRow]
    <3>1. task' = [task EXCEPT ![t] = x]
      BY <2>4 DEF Goto, Typed, TaskStates
    <3>2. Fine(x, gen)
      BY <1>2, <2>1, GotoFine DEF Steps
    <3> HIDE DEF x
    <3>3. QED BY <1>2, <1>5, <1>6, <1>8, <1>9, <2>1, <2>2, <2>4, <3>1, <3>2
  <2>5. QED BY <1>13, <2>3, <2>4 DEF ResolveGet
<1>14. CASE ResolvePersist(t)
  <2>1. Persist(task[t].stage) /\ task[t].stage \notin {"lock", "open", "pin", "clear", "save"}
    BY <1>14, Callings DEF ResolvePersist, Resolving, Persist
  <2>2. CASE mem[p] = 0
    <3>1. Return(t, task[t].obj, heap[p]) /\ db' = db
      BY <1>14, <2>2 DEF ResolvePersist
    <3>2. Matches(mem[p], heap[p], db[p])
      BY <2>2 DEF Matches
    <3>3. task[t].obj \in Objects \cup {0} /\ (task[t].stage = "pinned" => task[t].obj # 0)
      BY <1>2 DEF Fine, TaskStates
    <3>4. QED BY <1>2, <1>5, <1>7, <1>11, <2>1, <3>1, <3>2, <3>3 DEF New
  <2>3. CASE mem[p] # 0
    <3> DEFINE row == [heap[p][mem[p]] EXCEPT !.at = now']
               objects == [heap[p] EXCEPT ![mem[p]] = row]
               x == [task[t] EXCEPT !.step = "put", !.obj = task[t].obj, !.got = row]
    <3>1. now' \in Nat
      BY <1>2, <1>14 DEF ResolvePersist
    <3>2. heap[p][mem[p]] \in Rows
      BY <1>2, <2>3
    <3>3. row \in Rows
      BY <3>1, <3>2 DEF Rows
    <3>4. objects \in [Objects -> Rows] /\ objects[mem[p]] = row
      BY <1>2, <2>3, <3>3
    <3>5. heap' = [heap EXCEPT ![p][mem[p]] = row] /\ db' = [db EXCEPT ![p] = row] /\ Goto(t, "put", task[t].obj, row)
      BY <1>14, <2>3 DEF ResolvePersist
    <3>6. heap' = [heap EXCEPT ![p] = objects]
      BY <3>5
    <3>7. row \in Rows \cup {NoRow} /\ row # NoRow
      BY <3>3, TiersAssumption DEF Rows
    <3> HIDE DEF row
    <3>8. task' = [task EXCEPT ![t] = x]
      BY <3>5 DEF Goto, Typed, TaskStates
    <3>9. task[t].obj \in Objects \cup {0} /\ (task[t].stage = "pinned" => task[t].obj # 0)
      BY <1>2 DEF Fine, TaskStates
    <3>10. Fine(x, gen)
      BY <2>1, <3>3, <3>7, <3>9, GotoFine DEF Steps
    <3>11. Matches(mem[p], objects, row)
      BY <3>4, <3>7 DEF Matches, SameContent
    <3> HIDE DEF x, objects
    <3>12. QED BY <1>8, <3>4, <3>5, <3>6, <3>7, <3>8, <3>10, <3>11
  <2>4. QED BY <2>2, <2>3
<1>15. QED BY <1>12, <1>13, <1>14

\* get_or_new makes a row, or takes that of SQLite.
LEMMA CreateAfter ==
  ASSUME Typed, NEW t \in Tasks, gen' = gen, New(task[t].stage), task[t].stage \in DOMAIN Call,
         Create(t, ProcOf[t])
  PROVE  After(t)
<1> DEFINE p == ProcOf[t]
           o == NewObject(p)
           row == IF db[p] # NoRow THEN db[p] ELSE [Empty EXCEPT !.at = now]
           objects == [heap[p] EXCEPT ![o] = row]
<1>1. p \in Procs
  BY TiersAssumption
<1>2. o \in Objects /\ o # 0
  BY <1>1, FreeObject DEF Objects
<1>3. /\ heap[p] \in [Objects -> Rows] /\ db[p] \in Rows \cup {NoRow} /\ now \in Nat /\ gen \in Nat
  BY <1>1 DEF Typed
<1>4. row \in Rows /\ row # NoRow
  <2>1. [Empty EXCEPT !.at = now] \in Rows
    BY <1>3 DEF Empty, Rows
  <2>2. row \in Rows
    BY <1>3, <2>1
  <2>3. QED BY <2>2, TiersAssumption DEF Rows
<1> HIDE DEF o, row
<1>5. objects \in [Objects -> Rows] /\ objects[o] = row
  BY <1>2, <1>3, <1>4
<1>6. Matches(o, objects, row)
  BY <1>4, <1>5 DEF Matches, SameContent
<1>7. /\ mem' = [mem EXCEPT ![p] = o] /\ db' = [db EXCEPT ![p] = row]
      /\ \/ Return(t, o, objects)
         \/ Goto(t, "check", o, row) /\ heap' = [heap EXCEPT ![p] = objects]
  BY DEF Create, o, row
<1> HIDE DEF objects
<1>8. gen' \in Nat /\ gen <= gen'
  BY <1>3
<1>9. CASE Return(t, o, objects)
  <2> HIDE DEF p
  <2>1. p = ProcOf[t]
    BY DEF p
  <2>2. QED BY <1>2, <1>4, <1>5, <1>6, <1>7, <1>8, <1>9, <2>1, ReturnAfter
<1>10. CASE Goto(t, "check", o, row) /\ heap' = [heap EXCEPT ![p] = objects]
  <2> DEFINE x == [task[t] EXCEPT !.step = "check", !.obj = o, !.got = row]
  <2>1. task' = [task EXCEPT ![t] = x]
    BY <1>10 DEF Goto, Typed, TaskStates
  <2>2. Fine(x, gen')
    BY <1>2, <1>4, GotoFine DEF Steps
  <2> HIDE DEF p, x
  <2>3. p = ProcOf[t]
    BY DEF p
  <2>4. QED BY <1>2, <1>4, <1>5, <1>6, <1>7, <1>8, <1>10, <2>1, <2>2, <2>3, StepAfter
<1>11. QED BY <1>7, <1>9, <1>10

\* What a reply leaves matches when it did before.
LEMMA SyncMatches ==
  ASSUME Typed, NEW t \in Tasks, NEW g \in Replies,
         Matches(mem[ProcOf[t]], heap[ProcOf[t]], db[ProcOf[t]])
  PROVE  Matches(Sync(t, g).obj, Sync(t, g).objects, Sync(t, g).db)
<1> DEFINE s == Sync(t, g)
           p == ProcOf[t]
<1>1. /\ \/ s.obj = 0
         \/ s.obj = mem[p] /\ s.objects = heap[p] /\ s.db = db[p]
         \/ s.db = s.objects[s.obj] /\ s.db \in Rows
         \/ s.objects[s.obj].meta = 0
  BY SyncTyped
<1> HIDE DEF s, p
<1>2. Matches(s.obj, s.objects, s.db)
  BY <1>1, TiersAssumption DEF Matches, SameContent, p, Rows
<1>3. QED BY <1>2 DEF s

\* get_or_new, get and the second sync of get_or_new after the reply.
LEMMA ApplyAfter ==
  ASSUME Typed, NEW t \in Tasks, Settled(t), ApplyGet(t) \/ ApplyNew(t)
  PROVE  After(t)
<1> DEFINE p == ProcOf[t]
           g == task[t].got
           s == Sync(t, g)
<1>1. /\ task[t] \in TaskStates /\ Fine(task[t], gen) /\ gen \in Nat
  BY DEF Typed
<1>2. g \in Replies
  BY <1>1 DEF Fine, ApplyGet, ApplyNew
<1>3. /\ s.obj \in Objects \cup {0} /\ s.objects \in [Objects -> Rows] /\ s.db \in Rows \cup {NoRow}
  BY <1>2, SyncTyped
<1>4. OthersWrite(t) \/ Matches(s.obj, s.objects, s.db)
  BY <1>2, SyncMatches DEF Settled
<1>5. gen' = gen
  BY DEF ApplyGet, ApplyNew, redis
<1> HIDE DEF g, s
<1>6. CASE ApplyGet(t)
  <2> DEFINE o == IF task[t].step = "apply" THEN s.obj ELSE task[t].obj
  <2>1. /\ Return(t, o, s.objects) /\ mem' = [mem EXCEPT ![p] = s.obj] /\ db' = [db EXCEPT ![p] = s.db]
    BY <1>6 DEF ApplyGet, s, g
  <2>2. o \in Objects \cup {0}
    BY <1>1, <1>3 DEF TaskStates
  <2>3. \/ task[t].step = "apply" /\ task[t].stage \in {"pick", "read"}
        \/ task[t].step = "reapply" /\ New(task[t].stage) /\ task[t].obj # 0
    BY <1>1, <1>6, Callings DEF ApplyGet, Fine
  <2>4. task[t].stage \in DOMAIN Call
    BY <2>3 DEF New, Call
  <2>5. New(task[t].stage) \/ task[t].stage = "pinned" => o # 0
    BY <2>3 DEF New
  <2> HIDE DEF o, p
  <2>6. p = ProcOf[t] /\ gen' \in Nat /\ gen <= gen'
    BY <1>1, <1>5 DEF p
  <2>7. QED BY <1>3, <1>4, <2>1, <2>2, <2>4, <2>5, <2>6, ReturnAfter
<1>7. CASE ApplyNew(t)
  <2>1. New(task[t].stage) /\ task[t].stage \in DOMAIN Call
    BY <1>7, Callings DEF ApplyNew, New, Call
  <2>2. CASE s.obj = 0
    <3>1. Create(t, p)
      BY <1>7, <2>2 DEF ApplyNew, s, g
    <3>2. QED BY <1>5, <2>1, <3>1, CreateAfter
  <2>3. CASE s.obj # 0
    <3>1. /\ Return(t, s.obj, s.objects) /\ mem' = [mem EXCEPT ![p] = s.obj] /\ db' = [db EXCEPT ![p] = s.db]
      BY <1>7, <2>3 DEF ApplyNew, s, g
    <3> HIDE DEF p
    <3>2. p = ProcOf[t] /\ gen' \in Nat /\ gen <= gen'
      BY <1>1, <1>5 DEF p
    <3>3. QED BY <1>3, <1>4, <2>1, <2>3, <3>1, <3>2, ReturnAfter
  <2>4. QED BY <2>2, <2>3
<1>8. QED BY <1>6, <1>7

\* drop_if_fresh, with what the process can tell.
LEMMA DropFreshAfter ==
  ASSUME Typed, NEW t \in Tasks, gen' = gen, task[t].stage = "fail",
         NEW o \in Objects \cup {0}, NEW held \in Objects \cup {0},
         NEW objects \in [Objects -> Rows], NEW sqlite \in Rows \cup {NoRow},
         OthersWrite(t) \/ Matches(held, objects, sqlite),
         DropFresh(t, o, held, objects, sqlite)
  PROVE  After(t)
<1> DEFINE p == ProcOf[t]
<1>1. gen' \in Nat /\ gen <= gen' /\ task[t].stage \in DOMAIN Call /\ task[t].stage \notin {"pinned"}
  BY DEF Typed, Call
<1>2. ~New(task[t].stage)
  BY DEF New
<1>3. CASE /\ Return(t, 0, objects)
           /\ mem' = [mem EXCEPT ![p] = held] /\ db' = [db EXCEPT ![p] = sqlite]
  <2> HIDE DEF p
  <2>1. p = ProcOf[t]
    BY DEF p
  <2>2. QED BY <1>1, <1>2, <1>3, <2>1, ReturnAfter
<1>4. CASE /\ mem' = [mem EXCEPT ![p] = 0] /\ db' = [db EXCEPT ![p] = NoRow]
           /\ heap' = [heap EXCEPT ![p] = objects]
           /\ Goto(t, "delete", 0, NoRow)
  <2> DEFINE x == [task[t] EXCEPT !.step = "delete", !.obj = 0, !.got = NoRow]
  <2>1. task' = [task EXCEPT ![t] = x]
    BY <1>4 DEF Goto, Typed, TaskStates
  <2>2. Fine(x, gen')
    BY GotoFine DEF Steps
  <2>3. Matches(0, objects, NoRow)
    BY DEF Matches
  <2> HIDE DEF p, x
  <2>4. p = ProcOf[t]
    BY DEF p
  <2>5. QED BY <1>1, <1>4, <2>1, <2>2, <2>3, <2>4, StepAfter
<1>5. QED BY <1>3, <1>4 DEF DropFresh

LEMMA FreshAfter ==
  ASSUME Typed, NEW t \in Tasks, Settled(t), ApplyFresh(t) \/ FetchFails(t)
  PROVE  After(t)
<1> DEFINE p == ProcOf[t]
           g == task[t].got
           s == Sync(t, g)
<1>1. /\ task[t] \in TaskStates /\ Fine(task[t], gen) /\ gen \in Nat /\ p \in Procs
  BY TiersAssumption DEF Typed
<1>2. gen' = gen
  BY DEF ApplyFresh, FetchFails, redis
<1>3. CASE ApplyFresh(t)
  <2>1. g \in Replies /\ task[t].stage = "fail"
    BY <1>1, <1>3, Callings DEF Fine, ApplyFresh
  <2>2. /\ s.obj \in Objects \cup {0} /\ s.objects \in [Objects -> Rows] /\ s.db \in Rows \cup {NoRow}
    BY <2>1, SyncTyped
  <2>3. OthersWrite(t) \/ Matches(s.obj, s.objects, s.db)
    BY <2>1, SyncMatches DEF Settled
  <2>4. DropFresh(t, s.obj, s.obj, s.objects, s.db)
    BY <1>3 DEF ApplyFresh
  <2> HIDE DEF g, s
  <2>5. QED BY <1>2, <2>1, <2>2, <2>3, <2>4, DropFreshAfter
<1>4. CASE FetchFails(t)
  <2> DEFINE objects == heap[p]
             held == mem[p]
             sqlite == db[p]
             o == task[t].obj
  <2>1. /\ objects \in [Objects -> Rows] /\ held \in Objects \cup {0} /\ sqlite \in Rows \cup {NoRow}
        /\ o \in Objects \cup {0}
    BY <1>1 DEF Typed, TaskStates
  <2>2. OthersWrite(t) \/ Matches(held, objects, sqlite)
    BY DEF Settled
  <2>3. UNCHANGED <<mem, db>> => mem' = [mem EXCEPT ![p] = held] /\ db' = [db EXCEPT ![p] = sqlite]
    BY <1>1 DEF Typed
  <2>4. \/ task[t].step = "refetch" /\ New(task[t].stage) /\ o # 0
        \/ task[t].step = "fetch" /\ (New(task[t].stage) \/ task[t].stage \in {"pick", "read", "fail"})
    BY <1>1, <1>4 DEF FetchFails, Fine
  <2>5. task[t].stage \in DOMAIN Call /\ task[t].stage # "pinned"
    BY <2>4 DEF New, Call
  <2>6. gen' \in Nat /\ gen <= gen'
    BY <1>1, <1>2
  <2>7. CASE task[t].step = "fetch" /\ New(task[t].stage)
    <3>1. \/ held # 0 /\ Return(t, held, objects) /\ UNCHANGED <<mem, db>>
          \/ Create(t, p)
      BY <1>4, <2>7, Callings DEF FetchFails
    <3>2. CASE held # 0 /\ Return(t, held, objects) /\ UNCHANGED <<mem, db>>
      <4> HIDE DEF objects, held, sqlite, o, p
      <4>1. p = ProcOf[t]
        BY DEF p
      <4>2. QED BY <2>1, <2>2, <2>3, <2>5, <2>6, <3>2, <4>1, ReturnAfter
    <3>3. CASE Create(t, p)
      BY <1>2, <2>5, <2>7, <3>3, CreateAfter
    <3>4. QED BY <3>1, <3>2, <3>3
  <2>8. CASE task[t].stage = "fail"
    <3>1. DropFresh(t, o, held, objects, sqlite)
      BY <1>4, <2>8, Callings DEF FetchFails, New
    <3> HIDE DEF objects, held, sqlite, o
    <3>2. QED BY <1>2, <2>1, <2>2, <2>8, <3>1, DropFreshAfter
  <2>9. CASE task[t].stage # "fail" /\ ~(task[t].step = "fetch" /\ New(task[t].stage))
    <3>1. Return(t, o, objects) /\ UNCHANGED <<mem, db>>
      BY <1>4, <2>9, Callings DEF FetchFails
    <3>2. New(task[t].stage) \/ task[t].stage = "pinned" => o # 0
      BY <2>4, <2>5, <2>9
    <3> HIDE DEF objects, held, sqlite, o, p
    <3>3. p = ProcOf[t]
      BY DEF p
    <3>4. QED BY <2>1, <2>2, <2>3, <2>5, <2>6, <3>1, <3>2, <3>3, ReturnAfter
  <2>10. QED BY <2>7, <2>8, <2>9
<1>5. QED BY <1>3, <1>4

\* The writes to Redis.
LEMMA WriteAfter ==
  ASSUME Typed, NEW t \in Tasks, Settled(t),
         Check(t) \/ Put(t) \/ Delete(t) \/ Gen(t) \/ Cas(t) \/ CasGen(t) \/ WriteFails(t)
  PROVE  After(t)
<1> DEFINE p == ProcOf[t]
           objects == heap[p]
           held == mem[p]
           sqlite == db[p]
           o == task[t].obj
<1>1. /\ task[t] \in TaskStates /\ Fine(task[t], gen) /\ gen \in Nat /\ p \in Procs
  BY TiersAssumption DEF Typed
<1>2. gen' \in Nat /\ gen <= gen'
  BY <1>1 DEF Check, Put, Delete, Gen, Cas, CasGen, WriteFails, redis
<1>3. /\ objects \in [Objects -> Rows] /\ held \in Objects \cup {0} /\ sqlite \in Rows \cup {NoRow}
      /\ o \in Objects \cup {0} /\ 0 \in Objects \cup {0}
  BY <1>1 DEF Typed, TaskStates
<1>4. OthersWrite(t) \/ Matches(held, objects, sqlite)
  BY DEF Settled
<1>5. /\ mem' = mem => mem' = [mem EXCEPT ![p] = held]
      /\ db' = db => db' = [db EXCEPT ![p] = sqlite]
      /\ heap' = heap => heap' = [heap EXCEPT ![p] = objects]
  BY <1>1 DEF Typed
<1>6. /\ task[t].step \in {"check", "put", "delete", "gen", "cas", "casgen"}
      /\ task[t].step = "check" => New(task[t].stage) /\ o # 0
      /\ task[t].step = "put" => Persist(task[t].stage) \/ (New(task[t].stage) /\ o # 0)
      /\ task[t].step \in {"delete", "gen", "cas", "casgen"} => task[t].stage \in {"fail", "purge"}
      /\ task[t].stage = "pinned" => o # 0
  BY <1>1 DEF Check, Put, Delete, Gen, Cas, CasGen, WriteFails, Fine
<1>7. task[t].stage \in DOMAIN Call
  BY <1>6 DEF New, Persist, Call
<1>8. New(task[t].stage) \/ task[t].stage = "pinned" => o # 0
  BY <1>6 DEF New, Persist
<1>9. ASSUME NEW oo \in Objects \cup {0}, Return(t, oo, objects), UNCHANGED <<mem, db>>,
             New(task[t].stage) \/ task[t].stage = "pinned" => oo # 0
      PROVE  After(t)
  <2> HIDE DEF p, objects, held, sqlite, o
  <2>1. p = ProcOf[t]
    BY DEF p
  <2>2. QED BY <1>2, <1>3, <1>4, <1>5, <1>7, <1>9, <2>1, ReturnAfter
<1>10. ASSUME NEW step \in Steps, task' = [task EXCEPT ![t].step = step], UNCHANGED <<heap>>,
              NEW m \in Objects \cup {0}, mem' = [mem EXCEPT ![p] = m],
              NEW r \in Rows \cup {NoRow}, db' = [db EXCEPT ![p] = r],
              (m = held /\ r = sqlite) \/ Matches(m, objects, r),
              \/ step = "put" /\ task[t].step = "check"
              \/ step = "delete" /\ task[t].stage = "purge"
              \/ step = "gen" /\ task[t].step = "delete"
              \/ step = "casgen" /\ task[t].step = "cas"
       PROVE  After(t)
  <2> DEFINE x == [task[t] EXCEPT !.step = step]
  <2>1. task' = [task EXCEPT ![t] = x]
    BY <1>1, <1>10 DEF TaskStates
  <2>2. /\ x \in TaskStates /\ x.step = step /\ x.stage = task[t].stage /\ x.obj = task[t].obj /\ x.got = task[t].got
    BY <1>1 DEF TaskStates
  <2> HIDE DEF x
  <2>3. Fine(x, gen')
    <3>1. CASE step = "put" /\ task[t].step = "check"
      BY <1>1, <1>6, <2>2, <3>1 DEF Fine
    <3>2. CASE step = "delete" /\ task[t].stage = "purge"
      BY <1>1, <1>6, <2>2, <3>2 DEF Fine
    <3>3. CASE step = "gen" /\ task[t].step = "delete"
      BY <1>1, <1>6, <2>2, <3>3 DEF Fine
    <3>4. CASE step = "casgen" /\ task[t].step = "cas"
      BY <1>1, <1>6, <2>2, <3>4 DEF Fine
    <3>5. QED BY <1>10, <3>1, <3>2, <3>3, <3>4
  <2>4. OthersWrite(t) \/ Matches(m, objects, r)
    BY <1>4, <1>10
  <2> HIDE DEF p, objects, held, sqlite, o
  <2>5. p = ProcOf[t]
    BY DEF p
  <2>6. QED BY <1>2, <1>3, <1>5, <1>10, <2>1, <2>3, <2>4, <2>5, StepAfter
<1>11. Matches(0, objects, NoRow) /\ Matches(0, objects, sqlite)
  BY DEF Matches
<1> HIDE DEF o
<1>12. CASE Check(t)
  <2>1. task[t].step = "check" /\ UNCHANGED <<heap, db>>
    BY <1>12 DEF Check
  <2>2. CASE Existing(p)
    <3> DEFINE x == [task[t] EXCEPT !.step = "refetch", !.got = NoRow]
               m == IF held # 0 /\ objects[held].meta = 0 THEN 0 ELSE held
    <3>1. task' = [task EXCEPT ![t] = x]
      BY <1>1, <1>12, <2>2 DEF Check, TaskStates
    <3>2. mem' = [mem EXCEPT ![p] = m]
      BY <1>12, <2>2 DEF Check
    <3>3. m \in Objects \cup {0} /\ (OthersWrite(t) \/ Matches(m, objects, sqlite))
      BY <1>3, <1>4, <1>11
    <3>4. x \in TaskStates /\ x.step = "refetch" /\ x.stage = task[t].stage /\ x.obj = task[t].obj
      BY <1>1 DEF TaskStates, Steps
    <3> HIDE DEF x, m
    <3>5. Fine(x, gen')
      BY <1>6, <2>1, <3>4 DEF Fine, New, o
    <3> HIDE DEF p, objects, held, sqlite
    <3>6. p = ProcOf[t]
      BY DEF p
    <3>7. QED BY <1>2, <1>3, <1>5, <2>1, <3>1, <3>2, <3>3, <3>5, <3>6, StepAfter
  <2>3. CASE ~Existing(p)
    <3>1. task' = [task EXCEPT ![t].step = "put"] /\ mem' = mem
      BY <1>12, <2>3 DEF Check
    <3>2. QED BY <1>3, <1>5, <1>10, <2>1, <3>1 DEF Steps
  <2>4. QED BY <2>2, <2>3
<1>13. CASE Put(t)
  <2>1. Return(t, o, objects) /\ UNCHANGED <<mem, db>>
    BY <1>13 DEF Put, o
  <2>2. QED BY <1>3, <1>8, <1>9, <2>1
<1>14. CASE WriteFails(t)
  <2>1. Return(t, o, objects) /\ UNCHANGED <<mem, db>>
    BY <1>14 DEF WriteFails, o
  <2>2. QED BY <1>3, <1>8, <1>9, <2>1
<1>15. CASE Delete(t)
  <2>1. task[t].step = "delete" /\ task' = [task EXCEPT ![t].step = "gen"] /\ UNCHANGED <<mem, heap, db>>
    BY <1>15 DEF Delete, local
  <2>2. QED BY <1>3, <1>5, <1>10, <2>1 DEF Steps
<1>16. ASSUME task[t].step \in {"gen", "cas", "casgen"}
       PROVE  ~New(task[t].stage) /\ task[t].stage # "pinned"
  BY <1>6, <1>16 DEF New
<1>17. CASE Gen(t)
  <2>1. Return(t, 0, objects) /\ UNCHANGED <<mem, db>> /\ task[t].step = "gen"
    BY <1>17 DEF Gen
  <2>2. QED BY <1>3, <1>9, <1>16, <2>1
<1>18. CASE Cas(t)
  <2>1. UNCHANGED <<mem, db>> /\ task[t].step = "cas"
    BY <1>18 DEF Cas
  <2>2. CASE Return(t, 0, objects)
    BY <1>3, <1>9, <1>16, <2>1, <2>2
  <2>3. CASE task' = [task EXCEPT ![t].step = "casgen"] /\ UNCHANGED heap
    BY <1>3, <1>5, <1>10, <2>1, <2>3 DEF Steps
  <2>4. QED BY <1>18, <2>2, <2>3 DEF Cas
<1>19. CASE CasGen(t)
  <2>1. task[t].step = "casgen" /\ task[t].stage = "purge"
    BY <1>1, <1>19 DEF CasGen, Fine
  <2>2. CASE Return(t, 0, objects) /\ UNCHANGED <<mem, db>>
    BY <1>3, <1>9, <1>16, <2>1, <2>2
  <2>3. CASE /\ mem' = [mem EXCEPT ![p] = 0] /\ db' = [db EXCEPT ![p] = NoRow]
             /\ task' = [task EXCEPT ![t].step = "delete"] /\ UNCHANGED heap
    BY <1>3, <1>10, <1>11, <2>1, <2>3 DEF Steps
  <2>4. QED BY <1>19, <2>2, <2>3 DEF CasGen
<1>20. QED BY <1>12, <1>13, <1>14, <1>15, <1>17, <1>18, <1>19

\* The process boots again with what SQLite has.
LEMMA RestartAfter ==
  ASSUME Typed, WrittenThrough, NEW p \in Procs, Restart(p)
  PROVE  /\ mem' \in [Procs -> Objects \cup {0}]
         /\ heap' \in [Procs -> [Objects -> Rows]]
         /\ db' \in [Procs -> Rows \cup {NoRow}]
         /\ TasksFine(gen') /\ WrittenThrough'
<1> DEFINE objects == [o \in Objects |-> IF o = 1 /\ db[p] # NoRow THEN db[p] ELSE Empty]
           m == IF db[p] = NoRow THEN 0 ELSE 1
<1>1. /\ mem' = [mem EXCEPT ![p] = m] /\ heap' = [heap EXCEPT ![p] = objects]
      /\ db' = db /\ gen' = gen
      /\ task' = [t \in Tasks |->
                     IF ProcOf[t] = p /\ task[t].stage \notin {"todo", "absent"}
                     THEN [Rest(t, "done") EXCEPT !.lock = 0] ELSE task[t]]
  BY DEF Restart, redis
<1>2. db[p] \in Rows \cup {NoRow}
  BY DEF Typed
<1>3. 1 \in Objects
  <2>1. Cardinality(Tasks) \in Nat
    BY TiersAssumption, FS_CardinalityType
  <2>2. QED BY <2>1 DEF Objects
<1>4. objects \in [Objects -> Rows] /\ m \in Objects \cup {0} /\ objects[1] = IF db[p] # NoRow THEN db[p] ELSE Empty
  BY <1>2, <1>3, EmptyRow
<1>5. Matches(m, objects, db[p])
  BY <1>2, <1>4 DEF Matches, SameContent
<1>6. \A t \in Tasks : Between([Rest(t, "done") EXCEPT !.lock = 0], gen)
  BY StageNames, Betweens DEF Between, TaskStates
<1>7. \A t \in Tasks : Fine(task'[t], gen)
  BY <1>1, <1>6, BetweenFine DEF Typed
<1>8. TasksFine(gen')
  BY <1>1, <1>7 DEF TasksFine, Fine
<1>9. WrittenThrough'
  <2> SUFFICES ASSUME NEW q \in Procs, \A t \in Tasks : ~(ProcOf[t] = q /\ Resolving(t, "persist")')
               PROVE  Matches(mem'[q], heap'[q], db'[q])
    BY DEF WrittenThrough, Matches, Dirty
  <2> HIDE DEF objects, m
  <2>1. CASE q = p
    BY <1>1, <1>4, <1>5, <2>1 DEF Typed
  <2>2. CASE q # p
    <3>1. \A t \in Tasks : ProcOf[t] = q => task'[t] = task[t]
      BY <1>1, <2>2
    <3>2. ~Dirty(q)
      BY <3>1 DEF Dirty, Resolving, Calling
    <3>3. Matches(mem[q], heap[q], db[q])
      BY <3>2 DEF WrittenThrough, Matches
    <3>4. QED BY <1>1, <2>2, <3>3 DEF Typed
  <2>3. QED BY <2>1, <2>2
<1>10. QED BY <1>1, <1>4, <1>8, <1>9 DEF Typed

\* What the tiers and the coroutines do not show.
LEMMA NumbersStep ==
  ASSUME Typed, [Next]_vars
  PROVE  /\ known' \in [Procs -> Nat] /\ gen' \in Nat /\ gen <= gen' /\ now' \in Nat /\ turns' \in Nat
         /\ hash' \in Rows \cup {NoRow}
<1> DEFINE Good == /\ known' \in [Procs -> Nat] /\ gen' \in Nat /\ gen <= gen' /\ now' \in Nat /\ turns' \in Nat
                   /\ hash' \in Rows \cup {NoRow}
<1>1. /\ known \in [Procs -> Nat] /\ gen \in Nat /\ now \in Nat /\ turns \in Nat /\ hash \in Rows \cup {NoRow}
  BY DEF Typed
<1>2. \A t \in Tasks : ProcOf[t] \in Procs /\ Fine(task[t], gen)
  BY TiersAssumption DEF Typed
<1>3. ASSUME NEW t \in Tasks, Handle(t) PROVE Good
  BY <1>1, <1>3 DEF Handle, Start, StartPurge, Acquire, Answer, Fail, local, redis
<1>4. ASSUME NEW t \in Tasks, ApplyGet(t) \/ ApplyNew(t) \/ ApplyFresh(t) PROVE Good
  <2>1. task[t].got \in Replies
    BY <1>2, <1>4 DEF Fine, ApplyGet, ApplyNew, ApplyFresh
  <2>2. KnownAfter(ProcOf[t], task[t].got) \in [Procs -> Nat]
    BY <2>1, SyncTyped
  <2>3. /\ known' = KnownAfter(ProcOf[t], task[t].got) /\ UNCHANGED <<gen, hash, now, turns>>
    BY <1>4 DEF ApplyGet, ApplyNew, ApplyFresh, redis
  <2>4. QED BY <1>1, <2>2, <2>3
<1>5. ASSUME NEW t \in Tasks, Put(t) PROVE Good
  <2>1. task[t].got \in Rows
    BY <1>2, <1>5 DEF Fine, Put
  <2>2. QED BY <1>1, <1>5, <2>1 DEF Put
<1>6. ASSUME NEW t \in Tasks, ResolveNew(t) \/ ResolveGet(t) \/ ResolvePersist(t) \/ ResolvePurge(t) \/ Fetch(t) PROVE Good
  BY <1>1, <1>6 DEF ResolveNew, ResolveGet, ResolvePersist, ResolvePurge, Fetch, local, redis
<1>7. ASSUME NEW t \in Tasks, Check(t) \/ Delete(t) \/ Gen(t) \/ Cas(t) \/ CasGen(t) PROVE Good
  BY <1>1, <1>2, <1>7 DEF Check, Delete, Gen, Cas, CasGen, local, redis
<1>8. ASSUME NEW t \in Tasks, Fault(t) PROVE Good
  BY <1>1, <1>8 DEF Fault, FetchFails, WriteFails, PurgeFails, local, redis
<1>9. ASSUME NEW p \in Procs, Restart(p) PROVE Good
  BY <1>1, <1>9 DEF Restart, redis
<1>10. CASE UNCHANGED vars
  BY <1>1, <1>10 DEF vars
<1>11. QED BY <1>3, <1>4, <1>5, <1>6, <1>7, <1>8, <1>9, <1>10 DEF Next, Store

\* Every step of a coroutine, from tiers in which the other coroutines of its
\* process, or the tiers themselves, account for the row.
LEMMA TaskAfter ==
  ASSUME Typed, NEW t \in Tasks, Settled(t) \/ ResolvePersist(t), Handle(t) \/ Store(t) \/ Fault(t)
  PROVE  After(t)
<1>1. CASE Settled(t)
  BY <1>1, HandleAfter, ResolveAfter, ApplyAfter, FreshAfter, WriteAfter DEF Store, Fault
<1>2. CASE ResolvePersist(t)
  BY <1>2, ResolveAfter
<1>3. QED BY <1>1, <1>2

LEMMA WritingIs ==
  ASSUME Typed, NEW t \in Tasks
  PROVE  Resolving(t, "persist") <=> Writing(task[t])
BY Callings DEF Resolving, Writing

LEMMA StepsAfter ==
  ASSUME Typed, WrittenThrough, NEW t \in Tasks, Handle(t) \/ Store(t) \/ Fault(t)
  PROVE  After(t)
<1> SUFFICES ASSUME ~Settled(t) PROVE ResolvePersist(t)
  BY TaskAfter
<1>1. ProcOf[t] \in Procs
  BY TiersAssumption
<1>2. Dirty(ProcOf[t])
  BY <1>1 DEF Settled, WrittenThrough, Matches
<1>3. Writing(task[t])
  BY <1>2, WritingIs DEF Dirty, Settled, OthersWrite
<1>4. task[t].step = "resolve" /\ Persist(task[t].stage)
  BY <1>3 DEF Writing
<1>5. QED
  BY <1>4, Callings DEF Handle, Store, Fault, Start, StartPurge, Acquire, Answer, Fail,
     ResolveNew, ResolveGet, ResolvePurge, Resolving, Fetch, ApplyGet, ApplyNew, ApplyFresh,
     Check, Put, Delete, Gen, Cas, CasGen, FetchFails, WriteFails, PurgeFails, New, Persist

LEMMA TypedKept ==
  ASSUME Typed, WrittenThrough, [Next]_vars
  PROVE  Typed' /\ WrittenThrough'
<1>1. /\ known' \in [Procs -> Nat] /\ gen' \in Nat /\ now' \in Nat /\ turns' \in Nat
      /\ hash' \in Rows \cup {NoRow}
  BY NumbersStep
<1>2. ASSUME NEW t \in Tasks, Handle(t) \/ Store(t) \/ Fault(t)
      PROVE  Typed' /\ WrittenThrough'
  <2>2. After(t)
    BY <1>2, StepsAfter
  <2>3. Typed'
    BY <1>1, <2>2 DEF After, TasksFine, Typed
  <2>4. WrittenThrough'
    <3> SUFFICES ASSUME NEW p \in Procs, \A u \in Tasks : ~(ProcOf[u] = p /\ Resolving(u, "persist")')
                 PROVE  Matches(mem'[p], heap'[p], db'[p])
      BY DEF WrittenThrough, Matches, Dirty
    <3>1. \A u \in Tasks : Resolving(u, "persist")' <=> Writing(task'[u])
      BY <2>3 DEF Resolving, Calling, Writing, Persist, Call, Typed, TaskStates, Stages
    <3>2. CASE p = ProcOf[t]
      <4>1. ~OthersWrite(t)
        BY <2>2, <3>1, <3>2 DEF OthersWrite, After
      <4>2. QED BY <2>2, <3>1, <3>2, <4>1 DEF After
    <3>3. CASE p # ProcOf[t]
      <4>1. \A u \in Tasks : ProcOf[u] = p => task'[u] = task[u]
        BY <2>2, <3>3 DEF After
      <4>2. ~Dirty(p)
        BY <3>1, <4>1, WritingIs DEF Dirty
      <4>3. Matches(mem[p], heap[p], db[p])
        BY <4>2 DEF WrittenThrough, Matches
      <4>4. QED BY <2>2, <3>3, <4>3 DEF After
    <3>4. QED BY <3>2, <3>3
  <2>5. QED BY <2>3, <2>4
<1>3. ASSUME NEW p \in Procs, Restart(p)
      PROVE  Typed' /\ WrittenThrough'
  BY <1>1, <1>3, RestartAfter DEF TasksFine, Typed
<1>4. CASE UNCHANGED vars
  <2>1. Typed'
    BY <1>4 DEF vars, Typed
  <2>2. WrittenThrough'
    BY <1>4 DEF vars, WrittenThrough, Dirty, Resolving, Calling
  <2>3. QED BY <2>1, <2>2
<1>5. QED BY <1>2, <1>3, <1>4 DEF Next

LEMMA TypedInit == Init => Typed /\ WrittenThrough
<1> SUFFICES ASSUME Init PROVE Typed /\ WrittenThrough
  OBVIOUS
<1>1. PICK scene \in Scenes, holders \in Holders :
        LET row == [meta |-> 1, pinned |-> TRUE, at |-> 0]
            first == IF holders = {} THEN 0 ELSE 1
        IN  /\ mem = [p \in Procs |-> IF p \in holders THEN 1 ELSE 0]
            /\ heap = [p \in Procs |-> [o \in Objects |-> IF o = mem[p] THEN row ELSE Empty]]
            /\ known = [p \in Procs |-> 0]
            /\ db = [p \in Procs |-> IF p \in holders THEN row ELSE NoRow]
            /\ hash = (IF holders = {} THEN NoRow ELSE row) /\ gen = 0 /\ now = 0
            /\ task = [t \in Tasks |->
                         [stage |-> IF t \in scene THEN "todo" ELSE "absent", step |-> "none",
                          lock |-> 0, obj |-> 0, got |-> NoRow, resume |-> 0, base |-> 0,
                          mine |-> 0, stale |-> FALSE]]
            /\ turns = first
  BY DEF Init
<1> DEFINE row == [meta |-> 1, pinned |-> TRUE, at |-> 0]
<1>2. row \in Rows /\ row # NoRow
  <2>1. row \in Rows
    BY DEF Rows
  <2> HIDE DEF row
  <2>2. QED BY <2>1, TiersAssumption DEF Rows
<1>3. 1 \in Objects
  <2>1. Cardinality(Tasks) \in Nat
    BY TiersAssumption, FS_CardinalityType
  <2>2. QED BY <2>1 DEF Objects
<1> HIDE DEF row
<1>4. /\ mem \in [Procs -> Objects \cup {0}] /\ known \in [Procs -> Nat] /\ gen \in Nat /\ now \in Nat /\ turns \in Nat
  BY <1>1, <1>3
<1>5. /\ heap \in [Procs -> [Objects -> Rows]] /\ db \in [Procs -> Rows \cup {NoRow}] /\ hash \in Rows \cup {NoRow}
  BY <1>1, <1>2, EmptyRow DEF row
<1>6. \A t \in Tasks : Between(task[t], gen)
  BY <1>1, StageNames DEF Between, TaskStates, Steps
<1>7. task \in [Tasks -> TaskStates] /\ \A t \in Tasks : Fine(task[t], gen)
  BY <1>1, <1>6, BetweenFine DEF Fine
<1>8. \A p \in Procs : Matches(mem[p], heap[p], db[p])
  <2> SUFFICES ASSUME NEW p \in Procs, mem[p] # 0 PROVE db[p] # NoRow /\ SameContent(db[p], heap[p][mem[p]])
    BY DEF Matches
  <2>1. mem[p] = 1 /\ db[p] = row /\ heap[p][mem[p]] = row
    BY <1>1, <1>3 DEF row
  <2>2. QED BY <1>2, <2>1 DEF SameContent
<1>9. QED BY <1>4, <1>5, <1>7, <1>8 DEF Typed, WrittenThrough, Matches

\* What memory holds, a restart loads: whatever coroutines of whatever processes
\* do with the row, each assignment is followed by the write of persist, and each
\* refresh from Redis writes SQLite in the same step.
THEOREM RowsWrittenThrough == Spec => []WrittenThrough
<1>1. QED BY TypedInit, TypedKept, PTL DEF Spec

-----------------------------------------------------------------------------
(* One conversation in the process that knows it *)

\* Turns alone run, in a process that has the row at first.
Conversation(scene) ==
  /\ scene # {}
  /\ \A t, u \in scene : KindOf[t] = "turn" /\ ProcOf[t] = ProcOf[u]
  /\ \A h \in Holders : \A t \in scene : ProcOf[t] \in h

\* A row in Redis, or on its way there or back, is older than that of SQLite, or
\* the same.
NoNewer(r, d) == r \in Rows /\ r.at <= d.at /\ (r.at = d.at => SameContent(r, d))

Idling == {"todo", "absent", "wait", "run", "done"}

\* A turn whose process has object h in memory and row d in SQLite, when the
\* last answer persisted is that of turn hd.
Turn(x, d, h, hd) ==
  /\ x.stage \in Idling \cup {"lock", "open", "pick", "save", "saved", "fail"}
  /\ x.stage \in Idling <=> x.step = "none"
  /\ x.stage \in {"lock", "open", "save", "fail"} => x.step = "resolve"
  /\ x.stage = "pick" => x.step \in {"resolve", "fetch", "apply"} /\ x.resume = hd
  /\ x.stage = "saved" => x.step \in {"resolve", "put"}
  /\ x.step \in {"fetch", "apply"} => x.obj = 1
  /\ x.stage \in Locked \cup {"wait"} => x.lock = 1
  /\ ~x.stale
  /\ x.stage = "run" => x.base = hd
  /\ x.step = "put" => NoNewer(x.got, d)
  /\ x.step = "apply" => NoNewer(x.got.row, d)
  /\ x.stage \in {"save", "saved"} => x.mine # 0
  /\ Writing(x) => h.meta = x.mine

TiersOfChat(p) ==
  /\ mem[p] = 1 /\ db[p] \in Rows /\ db[p].meta = head /\ head # 0 /\ db[p].pinned
  /\ db[p].at <= now /\ heap[p][1].pinned /\ heap[p][1].at = db[p].at
  /\ NoNewer(hash, db[p])
  /\ (\A t \in Tasks : ~Writing(task[t])) => SameContent(heap[p][1], db[p])

TurnsOfChat(p) ==
  /\ \A t \in Tasks : Turn(task[t], db[p], heap[p][1], head)
  /\ \A t \in Present : ProcOf[t] = p /\ KindOf[t] = "turn"
  /\ \A t, u \in Tasks : task[t].stage \in Locked /\ task[u].stage \in Locked => t = u

Chat(p) == TiersOfChat(p) /\ TurnsOfChat(p)

\* A turn that does not hold the lock depends on no tier.
LEMMA TurnApart ==
  ASSUME NEW x, NEW d, NEW h, NEW hd, NEW d2, NEW h2, NEW hd2,
         Turn(x, d, h, hd), x.stage \notin Locked
  PROVE  Turn(x, d2, h2, hd2)
<1>1. x.stage \in {"todo", "absent", "wait", "done", "lock"}
  BY DEF Turn, Idling, Locked
<1>2. x.step \in {"none", "resolve"} /\ ~Writing(x)
  BY <1>1 DEF Turn, Idling, Writing, Persist
<1>3. QED BY <1>1, <1>2 DEF Turn, Locked

\* The step of one turn: it holds the lock, or the tiers stay.
LEMMA ChatStep ==
  ASSUME Typed, NEW p \in Procs, Chat(p), NEW t \in Tasks, task[t].stage # "absent",
         NEW x, task' = [task EXCEPT ![t] = x], x.stage # "absent",
         Turn(x, db'[p], heap'[p][1], head'),
         task[t].stage \in Locked \/ (db'[p] = db[p] /\ heap'[p] = heap[p] /\ head' = head),
         x.stage \in Locked => \A u \in Tasks \ {t} : task[u].stage \notin Locked,
         TiersOfChat(p)'
  PROVE  Chat(p)'
<1>1. task \in [Tasks -> TaskStates]
  BY DEF Typed
<1>2. \A u \in Tasks \ {t} : task'[u] = task[u]
  BY <1>1
<1>3. task'[t] = x
  BY <1>1
<1>4. ASSUME NEW u \in Tasks PROVE Turn(task'[u], db'[p], heap'[p][1], head')
  <2>1. CASE u = t
    BY <1>3, <2>1
  <2>2. CASE u # t /\ task[u].stage \in Locked
    <3>1. db'[p] = db[p] /\ heap'[p] = heap[p] /\ head' = head
      BY <2>2 DEF Chat, TurnsOfChat
    <3>2. QED BY <1>2, <2>2, <3>1 DEF Chat, TurnsOfChat
  <2>3. CASE u # t /\ task[u].stage \notin Locked
    BY <1>2, <2>3, TurnApart DEF Chat, TurnsOfChat
  <2>4. QED BY <2>1, <2>2, <2>3
<1>5. \A u \in Tasks : task'[u].stage # "absent" => ProcOf[u] = p /\ KindOf[u] = "turn"
  BY <1>2, <1>3 DEF Chat, TurnsOfChat, Present
<1>6. \A u, v \in Tasks : task'[u].stage \in Locked /\ task'[v].stage \in Locked => u = v
  BY <1>2, <1>3 DEF Chat, TurnsOfChat
<1>7. TurnsOfChat(p)'
  BY <1>4, <1>5, <1>6 DEF TurnsOfChat, Present
<1>8. QED BY <1>7 DEF Chat

\* What a turn can do at each stage.
LEMMA Acts ==
  ASSUME Typed, NEW p \in Procs, Chat(p), NEW t \in Tasks, Handle(t) \/ Store(t) \/ Fault(t)
  PROVE  /\ task[t].stage # "absent" /\ ProcOf[t] = p
         /\ \/ task[t].stage = "todo" /\ Start(t)
            \/ task[t].stage = "wait" /\ Acquire(t)
            \/ task[t].stage = "run" /\ (Answer(t) \/ Fail(t))
            \/ task[t].stage \in {"lock", "open", "save"} /\ ResolveNew(t)
            \/ task[t].stage \in {"pick", "fail"} /\ ResolveGet(t)
            \/ task[t].stage = "pick" /\ task[t].step = "fetch" /\ (Fetch(t) \/ FetchFails(t))
            \/ task[t].stage = "pick" /\ task[t].step = "apply" /\ ApplyGet(t)
            \/ task[t].stage = "saved" /\ task[t].step = "resolve" /\ ResolvePersist(t)
            \/ task[t].stage = "saved" /\ task[t].step = "put" /\ (Put(t) \/ WriteFails(t))
<1>1. Turn(task[t], db[p], heap[p][1], head)
  BY DEF Chat, TurnsOfChat
<1>2. task[t].stage # "absent"
  BY <1>1 DEF Turn, Idling, Handle, Start, StartPurge, Acquire, Answer, Fail, Store, Fault,
     ResolveNew, ResolveGet, ResolvePersist, ResolvePurge, Resolving, Fetch, ApplyGet, ApplyNew, ApplyFresh,
     Check, Put, Delete, Gen, Cas, CasGen, FetchFails, WriteFails, PurgeFails
<1>3. ProcOf[t] = p /\ KindOf[t] = "turn"
  BY <1>2 DEF Chat, TurnsOfChat, Present
<1>4. CASE Handle(t)
  BY <1>2, <1>3, <1>4 DEF Handle, Start, StartPurge, Acquire, Answer, Fail
<1>5. CASE ResolveNew(t) \/ ResolveGet(t) \/ ResolvePersist(t) \/ ResolvePurge(t)
  <2>1. task[t].step = "resolve"
    BY <1>5 DEF ResolveNew, ResolveGet, ResolvePersist, ResolvePurge, Resolving
  <2>2. task[t].stage \in {"lock", "open", "pick", "save", "saved", "fail"}
    BY <1>1, <2>1 DEF Turn, Idling
  <2>3. QED BY <1>2, <1>3, <1>5, <2>1, <2>2, Callings
     DEF ResolveNew, ResolveGet, ResolvePersist, ResolvePurge, Resolving, New, Persist
<1>6. CASE /\ ~Handle(t)
           /\ Fetch(t) \/ ApplyGet(t) \/ ApplyNew(t) \/ ApplyFresh(t) \/ Check(t) \/ Put(t) \/ Delete(t)
              \/ Gen(t) \/ Cas(t) \/ CasGen(t) \/ FetchFails(t) \/ WriteFails(t) \/ PurgeFails(t)
  <2>1. task[t].step \notin {"none", "resolve"}
    BY <1>6 DEF Fetch, ApplyGet, ApplyNew, ApplyFresh, Check, Put, Delete, Gen, Cas, CasGen,
       FetchFails, WriteFails, PurgeFails
  <2>2. \/ task[t].stage = "pick" /\ task[t].step \in {"fetch", "apply"}
        \/ task[t].stage = "saved" /\ task[t].step = "put"
    BY <1>1, <2>1 DEF Turn, Idling
  <2>3. QED BY <1>2, <1>3, <1>6, <2>2, Callings
     DEF Fetch, ApplyGet, ApplyNew, ApplyFresh, Check, Put, Delete, Gen, Cas, CasGen,
         FetchFails, WriteFails, PurgeFails, New, Persist
<1>7. QED BY <1>4, <1>5, <1>6 DEF Store, Fault

\* The holder of the lock finds the row of SQLite in memory, unless it has
\* just assigned to it.
LEMMA HolderReads ==
  ASSUME Typed, NEW p \in Procs, Chat(p), NEW t \in Tasks, task[t].stage \in Locked
  PROVE  /\ ~Writing(task[t]) => /\ SameContent(heap[p][1], db[p]) /\ heap[p][1].meta = head
         /\ \A u \in Tasks \ {t} : task[u].stage \notin Locked /\ ~Writing(task[u])
<1>1. \A u \in Tasks \ {t} : task[u].stage \notin Locked
  BY DEF Chat, TurnsOfChat
<1>2. \A u \in Tasks \ {t} : ~Writing(task[u])
  BY <1>1 DEF Writing, Persist, Locked
<1>3. QED BY <1>1, <1>2 DEF Chat, TiersOfChat, SameContent

\* A step that leaves the tiers, of a turn that assigns nothing.
LEMMA QuietStep ==
  ASSUME Typed, NEW p \in Procs, Chat(p), NEW t \in Tasks, task[t].stage # "absent",
         NEW x, task' = [task EXCEPT ![t] = x], x.stage # "absent",
         Turn(x, db[p], heap[p][1], head), ~Writing(x),
         mem' = mem, db' = db, heap' = heap, head' = head, now' = now,
         NoNewer(hash', db[p]),
         Writing(task[t]) => FALSE,
         x.stage \in Locked => \A u \in Tasks \ {t} : task[u].stage \notin Locked
  PROVE  Chat(p)'
<1>1. task \in [Tasks -> TaskStates]
  BY DEF Typed
<1>2. (\A u \in Tasks : ~Writing(task'[u])) => \A u \in Tasks : ~Writing(task[u])
  BY <1>1
<1>3. TiersOfChat(p)'
  BY <1>2 DEF Chat, TiersOfChat
<1>4. QED BY <1>3, ChatStep

LEMMA StartChat ==
  ASSUME Typed, NEW p \in Procs, Chat(p), NEW t \in Tasks, ProcOf[t] = p,
         \/ task[t].stage = "todo" /\ Start(t)
         \/ task[t].stage = "wait" /\ Acquire(t)
         \/ task[t].stage = "run" /\ (Answer(t) \/ Fail(t))
  PROVE  Chat(p)'
<1>1. task[t] \in TaskStates /\ Turn(task[t], db[p], heap[p][1], head) /\ turns \in Nat
  BY DEF Typed, Chat, TurnsOfChat
<1>2. /\ mem' = mem /\ db' = db /\ heap' = heap /\ head' = head /\ now' = now /\ hash' = hash
      /\ NoNewer(hash', db[p])
  BY DEF Start, Acquire, Answer, Fail, local, redis, Chat, TiersOfChat
<1>3. ~Writing(task[t]) /\ task[t].stage # "absent"
  BY DEF Writing, Persist
<1>4. CASE task[t].stage = "todo" /\ Start(t)
  <2> DEFINE x == At(t, "lock")
  <2>1. KindOf[t] = "turn"
    BY <1>3 DEF Chat, TurnsOfChat, Present
  <2>2. task' = [task EXCEPT ![t] = x]
    BY <1>4, <2>1 DEF Start
  <2>3. x.stage = "lock" /\ x.step = "resolve" /\ x.stale = task[t].stale
    BY <1>1 DEF At, TaskStates
  <2> HIDE DEF x
  <2>4. Turn(x, db[p], heap[p][1], head) /\ ~Writing(x)
    BY <1>1, <2>3 DEF Turn, Idling, Locked, Writing, Persist
  <2>5. QED BY <1>2, <1>3, <2>2, <2>3, <2>4, QuietStep DEF Locked
<1>5. CASE task[t].stage = "wait" /\ Acquire(t)
  <2> DEFINE x == At(t, "open")
  <2>1. task' = [task EXCEPT ![t] = x]
    BY <1>5 DEF Acquire
  <2>2. x.stage = "open" /\ x.step = "resolve" /\ x.stale = task[t].stale /\ x.lock = task[t].lock
    BY <1>1 DEF At, TaskStates
  <2> HIDE DEF x
  <2>3. task[t].lock = 1
    BY <1>1, <1>5 DEF Turn
  <2>4. Turn(x, db[p], heap[p][1], head) /\ ~Writing(x)
    BY <1>1, <2>2, <2>3 DEF Turn, Idling, Locked, Writing, Persist
  <2>5. ASSUME NEW u \in Tasks \ {t}, task[u].stage \in Locked PROVE FALSE
    <3>1. task[u].lock = 1 /\ task[u].stage # "absent"
      BY <2>5 DEF Chat, TurnsOfChat, Turn, Locked
    <3>2. ProcOf[u] = p
      BY <3>1 DEF Chat, TurnsOfChat, Present
    <3>3. QED BY <1>5, <2>3, <2>5, <3>1, <3>2 DEF Acquire, LockTaken
  <2>6. QED BY <1>2, <1>3, <2>1, <2>2, <2>4, <2>5, QuietStep
<1>6. CASE task[t].stage = "run" /\ (Answer(t) \/ Fail(t))
  <2> DEFINE x == IF Answer(t) THEN [At(t, "save") EXCEPT !.mine = turns + 1] ELSE At(t, "fail")
  <2>1. task' = [task EXCEPT ![t] = x]
    BY <1>6 DEF Answer, Fail
  <2>2. /\ x.stage \in {"save", "fail"} /\ x.step = "resolve" /\ x.stale = task[t].stale
        /\ x.lock = task[t].lock /\ (x.stage = "save" => x.mine # 0)
    BY <1>1 DEF At, TaskStates
  <2> HIDE DEF x
  <2>3. task[t].lock = 1 /\ task[t].stage \in Locked
    BY <1>1, <1>6 DEF Turn, Locked
  <2>4. Turn(x, db[p], heap[p][1], head) /\ ~Writing(x)
    BY <1>1, <2>2, <2>3 DEF Turn, Idling, Locked, Writing, Persist
  <2>5. x.stage # "absent" /\ \A u \in Tasks \ {t} : task[u].stage \notin Locked
    BY <2>2, <2>3, HolderReads
  <2>6. QED BY <1>2, <1>3, <2>1, <2>4, <2>5, QuietStep
<1>7. QED BY <1>4, <1>5, <1>6

\* A call has returned the row of memory, and its caller only reads it.
LEMMA ReturnChat ==
  ASSUME Typed, NEW p \in Procs, Chat(p), NEW t \in Tasks, ProcOf[t] = p, ~Writing(task[t]),
         NEW o \in {0, 1}, Return(t, o, heap[p]),
         \/ task[t].stage \in {"lock", "open"} /\ task[t].step = "resolve" /\ o = 1
         \/ task[t].stage = "pick" /\ o = 1
         \/ task[t].stage \in {"saved", "fail"},
         mem' = mem, db' = db, head' = head, now' = now, NoNewer(hash', db[p])
  PROVE  Chat(p)'
<1> DEFINE x == Returned(t, o, heap[p]).task
           row == heap[p][1]
<1>1. task[t] \in TaskStates /\ Turn(task[t], db[p], row, head)
  BY DEF Typed, Chat, TurnsOfChat
<1>2. Returned(t, o, heap[p]).objects = heap[p]
  BY DEF Returned
<1>3. task' = [task EXCEPT ![t] = x] /\ heap' = heap
  BY <1>2 DEF Return, Typed
<1>4. x.stage \in Locked => \A u \in Tasks \ {t} : task[u].stage \notin Locked
  <2>1. CASE task[t].stage = "lock"
    BY <2>1 DEF Returned, Rest, At, Locked, Typed, TaskStates
  <2>2. CASE task[t].stage # "lock"
    BY <2>2, HolderReads DEF Locked
  <2>3. QED BY <2>1, <2>2
<1>5. CASE task[t].stage = "lock"
  <2>1. x = [Rest(t, "wait") EXCEPT !.lock = 1]
    BY <1>5 DEF Returned
  <2>2. x.stage = "wait" /\ x.step = "none" /\ x.lock = 1 /\ x.stale = task[t].stale
    BY <1>1, <2>1 DEF Rest, At, TaskStates
  <2> HIDE DEF x
  <2>3. Turn(x, db[p], row, head) /\ ~Writing(x) /\ task[t].stage # "absent" /\ x.stage # "absent"
    BY <1>1, <1>5, <2>2 DEF Turn, Idling, Locked, Writing, Persist
  <2>4. QED BY <1>3, <1>4, <2>3, QuietStep
<1>6. CASE task[t].stage = "open"
  <2>1. x = [At(t, "pick") EXCEPT !.resume = row.meta]
    BY <1>6 DEF Returned, Created
  <2>2. x.stage = "pick" /\ x.step = "resolve" /\ x.lock = task[t].lock /\ x.stale = task[t].stale /\ x.resume = row.meta
    BY <1>1, <2>1 DEF At, TaskStates
  <2>3. row.meta = head /\ task[t].lock = 1
    BY <1>1, <1>6, HolderReads DEF Turn, Locked
  <2> HIDE DEF x
  <2>4. Turn(x, db[p], row, head) /\ ~Writing(x) /\ task[t].stage # "absent" /\ x.stage # "absent"
    BY <1>1, <1>6, <2>2, <2>3 DEF Turn, Idling, Locked, Writing, Persist
  <2>5. QED BY <1>3, <1>4, <2>4, QuietStep
<1>7. CASE task[t].stage = "pick"
  <2>1. /\ row.meta = head /\ head # 0 /\ row.pinned /\ task[t].lock = 1 /\ task[t].resume = head /\ ~task[t].stale
    BY <1>1, <1>7, HolderReads DEF Turn, Locked, Chat, TiersOfChat
  <2>2. row \in Rows /\ row # NoRow
    <3>1. 1 \in Objects
      BY DEF Chat, TiersOfChat, Typed, Objects
    <3>2. row \in Rows
      BY <3>1 DEF Typed
    <3>3. QED BY <3>2, TiersAssumption DEF Rows
  <2>3. x = Run(t, head)
    BY <1>7, <2>1, <2>2 DEF Returned, Picked
  <2>4. x.stage = "run" /\ x.step = "none" /\ x.base = head /\ x.lock = task[t].lock /\ x.stale = task[t].stale
    BY <1>1, <2>3 DEF Run, Rest, At, TaskStates
  <2> HIDE DEF x
  <2>5. Turn(x, db[p], row, head) /\ ~Writing(x) /\ task[t].stage # "absent" /\ x.stage # "absent"
    BY <1>1, <1>7, <2>1, <2>4 DEF Turn, Idling, Locked, Writing, Persist
  <2>6. QED BY <1>3, <1>4, <2>5, QuietStep
<1>8. CASE task[t].stage \in {"saved", "fail"}
  <2>1. x = [Rest(t, "done") EXCEPT !.lock = 0]
    BY <1>8 DEF Returned
  <2>2. x.stage = "done" /\ x.step = "none" /\ x.stale = task[t].stale
    BY <1>1, <2>1 DEF Rest, At, TaskStates
  <2> HIDE DEF x
  <2>3. Turn(x, db[p], row, head) /\ ~Writing(x) /\ task[t].stage # "absent" /\ x.stage # "absent"
    BY <1>1, <1>8, <2>2 DEF Turn, Idling, Locked, Writing, Persist
  <2>4. QED BY <1>3, <1>4, <2>3, QuietStep
<1>9. QED BY <1>5, <1>6, <1>7, <1>8

\* _save_state assigns the continuation to the row in memory.
LEMMA SaveChat ==
  ASSUME Typed, NEW p \in Procs, Chat(p), NEW t \in Tasks, ProcOf[t] = p,
         task[t].stage = "save", ResolveNew(t)
  PROVE  Chat(p)'
<1> DEFINE row == heap[p][1]
           new == [row EXCEPT !.meta = task[t].mine, !.pinned = TRUE]
           x == At(t, "saved")
<1>1. task[t] \in TaskStates /\ Turn(task[t], db[p], row, head)
  BY DEF Typed, Chat, TurnsOfChat
<1>2. mem[p] = 1 /\ 1 \in Objects /\ row \in Rows
  <2>1. mem[p] = 1
    BY DEF Chat, TiersOfChat
  <2>2. 1 \in Objects
    BY <2>1 DEF Typed, Objects
  <2>3. QED BY <2>1, <2>2 DEF Typed
<1>3. /\ Return(t, 1, heap[p]) /\ mem' = mem /\ db' = db /\ head' = head /\ now' = now /\ hash' = hash
  BY <1>2 DEF ResolveNew, redis
<1>4. Returned(t, 1, heap[p]) = [task |-> x, objects |-> [heap[p] EXCEPT ![1] = new]]
  BY DEF Returned
<1>5. task' = [task EXCEPT ![t] = x] /\ heap' = [heap EXCEPT ![p] = [heap[p] EXCEPT ![1] = new]]
  <2> DEFINE objects == [heap[p] EXCEPT ![1] = new]
  <2>1. Returned(t, 1, heap[p]) = [task |-> x, objects |-> objects]
    BY <1>4
  <2> HIDE DEF x, objects, new
  <2>2. Returned(t, 1, heap[p]).task = x /\ Returned(t, 1, heap[p]).objects = objects
    BY <2>1
  <2>3. task' = [task EXCEPT ![t] = x] /\ heap' = [heap EXCEPT ![p] = objects]
    BY <1>3, <2>2 DEF Return
  <2>4. QED BY <2>3 DEF objects
<1>6. new.meta = task[t].mine /\ new.pinned /\ new.at = row.at
  BY <1>2 DEF Rows
<1> HIDE DEF new
<1>7. heap'[p][1] = new
  BY <1>2, <1>5 DEF Typed
<1>8. x.stage = "saved" /\ x.step = "resolve" /\ x.lock = task[t].lock /\ x.mine = task[t].mine /\ x.stale = task[t].stale
  BY <1>1 DEF At, TaskStates
<1> HIDE DEF x
<1>9. Turn(x, db'[p], heap'[p][1], head') /\ Writing(x)
  BY <1>1, <1>3, <1>6, <1>7, <1>8 DEF Turn, Idling, Locked, Writing, Persist
<1>10. TiersOfChat(p)'
  <2>1. ~(\A u \in Tasks : ~Writing(task'[u]))
    BY <1>5, <1>9 DEF Typed
  <2>2. QED BY <1>3, <1>6, <1>7, <2>1 DEF Chat, TiersOfChat
<1>11. task[t].stage \in Locked /\ \A u \in Tasks \ {t} : task[u].stage \notin Locked
  <2>1. task[t].stage \in Locked
    BY DEF Locked
  <2>2. QED BY <2>1, HolderReads
<1>12. QED BY <1>5, <1>8, <1>9, <1>10, <1>11, ChatStep

\* _pick_account_for_turns looks at the row, and finds that of SQLite.
LEMMA PickChat ==
  ASSUME Typed, NEW p \in Procs, Chat(p), NEW t \in Tasks, ProcOf[t] = p,
         \/ task[t].stage \in {"pick", "fail"} /\ ResolveGet(t)
         \/ task[t].stage = "pick" /\ task[t].step = "fetch" /\ (Fetch(t) \/ FetchFails(t))
         \/ task[t].stage = "pick" /\ task[t].step = "apply" /\ ApplyGet(t)
  PROVE  Chat(p)'
<1> DEFINE row == heap[p][1]
<1>1. task[t] \in TaskStates /\ Turn(task[t], db[p], row, head) /\ Fine(task[t], gen)
  BY DEF Typed, Chat, TurnsOfChat
<1>2. mem[p] = 1 /\ 1 \in Objects /\ row \in Rows
  <2>1. mem[p] = 1
    BY DEF Chat, TiersOfChat
  <2>2. 1 \in Objects
    BY <2>1 DEF Typed, Objects
  <2>3. QED BY <2>1, <2>2 DEF Typed
<1>3. task[t].stage \in Locked /\ ~Writing(task[t]) /\ task[t].lock = 1 /\ ~task[t].stale
  BY <1>1 DEF Locked, Writing, Persist, Turn
<1>4. /\ row.meta = head /\ SameContent(row, db[p]) /\ head # 0
      /\ \A u \in Tasks \ {t} : task[u].stage \notin Locked
  BY <1>3, HolderReads DEF Chat, TiersOfChat
<1>5. NoNewer(hash, db[p]) /\ hash \in Rows /\ db[p] \in Rows /\ row.at = db[p].at
  BY DEF Chat, TiersOfChat, NoNewer
<1>6. CASE task[t].stage = "fail" /\ ResolveGet(t)
  <2>1. Return(t, 0, heap[p]) /\ mem' = mem /\ db' = db /\ head' = head /\ now' = now /\ hash' = hash
    BY <1>2, <1>4, <1>6, Callings DEF ResolveGet, redis
  <2>2. QED BY <1>3, <1>5, <1>6, <2>1, ReturnChat
<1>7. CASE task[t].stage = "pick" /\ ResolveGet(t)
  <2> DEFINE x == [task[t] EXCEPT !.step = "fetch", !.obj = 1, !.got = NoRow]
  <2>1. /\ Goto(t, "fetch", 1, NoRow) /\ UNCHANGED <<mem, heap, db, hash, head, now>>
        /\ task[t].step = "resolve"
    BY <1>2, <1>7, Callings DEF ResolveGet, redis, Resolving
  <2>2. task' = [task EXCEPT ![t] = x]
    BY <2>1 DEF Goto, Typed, TaskStates
  <2>3. /\ x.step = "fetch" /\ x.stage = "pick" /\ x.obj = 1 /\ x.lock = task[t].lock
        /\ x.stale = task[t].stale /\ x.resume = task[t].resume
    BY <1>1, <1>7 DEF TaskStates
  <2> HIDE DEF x
  <2>4. Turn(x, db[p], row, head) /\ ~Writing(x)
    BY <1>1, <1>3, <1>7, <2>3 DEF Turn, Idling, Locked, Writing
  <2>5. QED BY <1>3, <1>4, <1>5, <1>7, <2>1, <2>2, <2>3, <2>4, QuietStep
<1>8. CASE task[t].stage = "pick" /\ task[t].step = "fetch" /\ FetchFails(t)
  <2>1. task[t].obj = 1
    BY <1>1, <1>8 DEF Turn
  <2>2. Return(t, 1, heap[p]) /\ mem' = mem /\ db' = db /\ head' = head /\ now' = now /\ hash' = hash
    BY <1>8, <2>1, Callings DEF FetchFails, New, redis
  <2>3. QED BY <1>3, <1>5, <1>8, <2>2, ReturnChat
<1>9. CASE task[t].stage = "pick" /\ task[t].step = "fetch" /\ Fetch(t)
  <2> DEFINE reply == [gen |-> gen, row |-> hash]
             x == [task[t] EXCEPT !.step = "apply", !.got = reply]
  <2>1. UNCHANGED <<mem, heap, db, hash, head, now>>
    BY <1>9 DEF Fetch, local, redis
  <2>2. task' = [task EXCEPT ![t] = x]
    BY <1>1, <1>9 DEF Fetch, TaskStates
  <2>3. /\ x.step = "apply" /\ x.stage = "pick" /\ x.obj = task[t].obj /\ x.lock = task[t].lock
        /\ x.stale = task[t].stale /\ x.resume = task[t].resume /\ x.got.row = hash
    BY <1>1, <1>9 DEF TaskStates
  <2> HIDE DEF x
  <2>4. Turn(x, db[p], row, head) /\ ~Writing(x)
    BY <1>1, <1>3, <1>5, <1>9, <2>3 DEF Turn, Idling, Locked, Writing
  <2>5. QED BY <1>3, <1>4, <1>5, <1>9, <2>1, <2>2, <2>3, <2>4, QuietStep
<1>10. CASE task[t].stage = "pick" /\ task[t].step = "apply" /\ ApplyGet(t)
  <2> DEFINE g == task[t].got
             s == Sync(t, g)
  <2>1. g \in Replies /\ NoNewer(g.row, db[p])
    BY <1>1, <1>10 DEF Fine, Turn
  <2>2. g.row \in Rows /\ g.row # NoRow
    BY <2>1, TiersAssumption DEF NoNewer, Rows
  <2>3. ~(g.row.at >= row.at /\ ~SameContent(g.row, row))
    <3>1. g.row.at <= row.at /\ g.row.at \in Nat /\ row.at \in Nat
      BY <1>2, <1>5, <2>1, <2>2 DEF NoNewer, Rows
    <3>2. g.row.at = row.at => SameContent(g.row, row)
      BY <1>4, <1>5, <2>1 DEF NoNewer, SameContent
    <3>3. QED BY <3>1, <3>2
  <2>4. s = [obj |-> 1, objects |-> [heap[p] EXCEPT ![1] = row], db |-> db[p]]
    BY <1>2, <2>2, <2>3 DEF Sync
  <2>5. [heap[p] EXCEPT ![1] = row] = heap[p]
    BY DEF Typed
  <2>6. /\ Return(t, s.obj, s.objects) /\ mem' = [mem EXCEPT ![p] = s.obj] /\ db' = [db EXCEPT ![p] = s.db]
        /\ head' = head /\ now' = now /\ hash' = hash
    BY <1>10 DEF ApplyGet, redis
  <2>7. Return(t, 1, heap[p]) /\ mem' = mem /\ db' = db
    BY <1>2, <2>4, <2>5, <2>6 DEF Typed
  <2>8. QED BY <1>3, <1>5, <1>10, <2>6, <2>7, ReturnChat
<1>11. QED BY <1>6, <1>7, <1>8, <1>9, <1>10

\* persist writes the continuation of the turn to SQLite, and sends it to Redis.
LEMMA PersistChat ==
  ASSUME Typed, NEW p \in Procs, Chat(p), NEW t \in Tasks, ProcOf[t] = p, ~SameSecond,
         \/ task[t].stage = "saved" /\ task[t].step = "resolve" /\ ResolvePersist(t)
         \/ task[t].stage = "saved" /\ task[t].step = "put" /\ (Put(t) \/ WriteFails(t))
  PROVE  /\ Chat(p)'
         /\ ResolvePersist(t) => db'[p] # NoRow /\ db'[p].meta = task[t].mine
<1>1. task[t] \in TaskStates /\ Turn(task[t], db[p], heap[p][1], head)
  BY DEF Typed, Chat, TurnsOfChat
<1>2. mem[p] = 1 /\ 1 \in Objects /\ heap[p][1] \in Rows /\ now \in Nat /\ heap[p][1].pinned
  <2>1. mem[p] = 1 /\ heap[p][1].pinned
    BY DEF Chat, TiersOfChat
  <2>2. 1 \in Objects
    BY <2>1 DEF Typed, Objects
  <2>3. QED BY <2>1, <2>2 DEF Typed
<1>3. task[t].stage \in Locked
  BY DEF Locked
<1>4. CASE task[t].step = "resolve" /\ ResolvePersist(t)
  <2> DEFINE row == [heap[p][1] EXCEPT !.at = now']
             x == [task[t] EXCEPT !.step = "put", !.obj = task[t].obj, !.got = row]
  <2>1. now' = now + 1
    BY <1>4 DEF ResolvePersist
  <2>2. /\ heap' = [heap EXCEPT ![p][1] = row] /\ db' = [db EXCEPT ![p] = row]
        /\ Goto(t, "put", task[t].obj, row) /\ head' = task[t].mine
        /\ mem' = mem /\ hash' = hash
    BY <1>2, <1>4 DEF ResolvePersist, redis
  <2>3. Writing(task[t])
    BY <1>4 DEF Writing, Persist
  <2>4. heap[p][1].meta = task[t].mine /\ task[t].mine # 0
    BY <1>1, <2>3 DEF Turn
  <2>5. row \in Rows /\ row.meta = task[t].mine /\ row.pinned /\ row.at = now'
    BY <1>2, <2>1, <2>4 DEF Rows
  <2> HIDE DEF row
  <2>6. row # NoRow
    BY <2>5, TiersAssumption DEF Rows
  <2>7. heap'[p][1] = row /\ db'[p] = row
    BY <1>2, <2>2 DEF Typed
  <2>8. task' = [task EXCEPT ![t] = x]
    BY <2>2 DEF Goto, Typed, TaskStates
  <2>9. x.step = "put" /\ x.stage = "saved" /\ x.lock = task[t].lock /\ x.mine = task[t].mine /\ x.stale = task[t].stale /\ x.got = row
    BY <1>1 DEF TaskStates
  <2> HIDE DEF x
  <2>10. Turn(x, db'[p], heap'[p][1], head') /\ ~Writing(x)
    BY <1>1, <1>3, <2>2, <2>4, <2>5, <2>7, <2>9 DEF Turn, Idling, Locked, Writing, NoNewer, SameContent, Rows
  <2>11. NoNewer(hash, row)
    BY <2>1, <2>5 DEF Chat, TiersOfChat, NoNewer, Rows, Typed
  <2>12. TiersOfChat(p)'
    BY <1>2, <2>1, <2>2, <2>4, <2>5, <2>7, <2>11 DEF TiersOfChat, SameContent, Rows
  <2>13. Chat(p)'
    BY <1>3, <2>8, <2>9, <2>10, <2>12, HolderReads, ChatStep
  <2>14. QED BY <2>5, <2>6, <2>7, <2>13
<1>5. CASE task[t].step = "put" /\ (Put(t) \/ WriteFails(t))
  <2>1. /\ Return(t, task[t].obj, heap[p]) /\ mem' = mem /\ db' = db /\ head' = head /\ now' = now
        /\ hash' = hash \/ hash' = task[t].got
    BY <1>5 DEF Put, WriteFails, redis
  <2>2. NoNewer(hash', db[p])
    BY <1>1, <1>5, <2>1 DEF Turn, Chat, TiersOfChat
  <2>3. ~Writing(task[t])
    BY <1>5 DEF Writing
  <2> DEFINE o == task[t].obj
             o2 == IF o = 0 THEN 0 ELSE 1
  <2>4. Returned(t, o, heap[p]) = Returned(t, o2, heap[p])
    BY <1>5 DEF Returned
  <2>5. Return(t, o2, heap[p])
    BY <2>1, <2>4 DEF Return
  <2>6. Chat(p)'
    <3>1. o2 \in {0, 1}
      OBVIOUS
    <3> HIDE DEF o2
    <3>2. QED BY <2>1, <2>2, <2>3, <2>5, <3>1, ReturnChat
  <2>7. ~ResolvePersist(t)
    BY <1>5 DEF ResolvePersist, Resolving
  <2>8. QED BY <2>6, <2>7
<1>6. QED BY <1>4, <1>5

\* A turn opens its conversation: it finds the row in memory.
LEMMA OpenChat ==
  ASSUME Typed, NEW p \in Procs, Chat(p), NEW t \in Tasks, ProcOf[t] = p,
         task[t].stage \in {"lock", "open"}, ResolveNew(t)
  PROVE  Chat(p)'
<1>1. mem[p] = 1 /\ NoNewer(hash, db[p]) /\ ~Writing(task[t])
  BY DEF Chat, TiersOfChat, Writing, Persist
<1>2. task[t].step = "resolve"
  BY DEF ResolveNew, Resolving
<1>3. /\ Return(t, 1, heap[p]) /\ mem' = mem /\ db' = db /\ head' = head /\ now' = now /\ hash' = hash
  BY <1>1 DEF ResolveNew, redis
<1>4. QED BY <1>1, <1>2, <1>3, ReturnChat

\* The process of the conversation loads SQLite; another process has no turn.
LEMMA RestartChat ==
  ASSUME Typed, NEW p \in Procs, Chat(p), NEW q \in Procs, Restart(q)
  PROVE  Chat(p)'
<1>1. task \in [Tasks -> TaskStates] /\ \A t \in Tasks : Turn(task[t], db[p], heap[p][1], head)
  BY DEF Typed, Chat, TurnsOfChat
<1>2. db' = db /\ hash' = hash /\ head' = head /\ now' = now
  BY DEF Restart, redis
<1>3. CASE q # p
  <2>1. \A t \in Tasks : task'[t] = task[t]
    <3> SUFFICES ASSUME NEW t \in Tasks PROVE task'[t] = task[t]
      OBVIOUS
    <3>1. ProcOf[t] = q => task[t].stage = "absent"
      BY <1>3 DEF Chat, TurnsOfChat, Present
    <3>2. QED BY <3>1 DEF Restart
  <2>2. mem'[p] = mem[p] /\ heap'[p] = heap[p]
    BY <1>3 DEF Restart, Typed
  <2>3. TiersOfChat(p)'
    BY <1>2, <2>1, <2>2 DEF Chat, TiersOfChat
  <2>4. TurnsOfChat(p)'
    BY <1>2, <2>1, <2>2 DEF Chat, TurnsOfChat, Present
  <2>5. QED BY <2>3, <2>4 DEF Chat
<1>4. CASE q = p
  <2>1. db[p] \in Rows /\ db[p] # NoRow /\ mem[p] = 1
    BY TiersAssumption DEF Chat, TiersOfChat, Rows
  <2>2. 1 \in Objects
    BY <2>1 DEF Typed, Objects
  <2>3. mem'[p] = 1 /\ heap'[p][1] = db[p]
    BY <1>4, <2>1, <2>2 DEF Restart, Typed
  <2>4. TiersOfChat(p)'
    BY <1>2, <2>1, <2>3 DEF Chat, TiersOfChat, SameContent
  <2>5. ASSUME NEW t \in Tasks
        PROVE  /\ task'[t].stage \in {"todo", "absent", "done"}
               /\ Turn(task'[t], db[p], db[p], head)
               /\ task'[t].stage # "absent" => task[t].stage # "absent"
    <3>1. CASE task[t].stage \in {"todo", "absent"}
      <4>1. task'[t] = task[t]
        BY <1>4, <3>1 DEF Restart
      <4>2. Turn(task[t], db[p], db[p], head)
        BY <1>1, <3>1, TurnApart DEF Locked
      <4>3. QED BY <3>1, <4>1, <4>2
    <3>2. CASE task[t].stage \notin {"todo", "absent"}
      <4> DEFINE x == [Rest(t, "done") EXCEPT !.lock = 0]
      <4>1. ProcOf[t] = p
        BY <3>2 DEF Chat, TurnsOfChat, Present
      <4>2. task'[t] = x
        BY <1>4, <3>2, <4>1 DEF Restart
      <4>3. x.stage = "done" /\ x.step = "none" /\ x.stale = task[t].stale
        BY <1>1 DEF Rest, At, TaskStates
      <4> HIDE DEF x
      <4>4. ~task[t].stale
        BY <1>1 DEF Turn
      <4>5. Turn(x, db[p], db[p], head)
        BY <4>3, <4>4 DEF Turn, Idling, Locked, Writing, Persist
      <4>6. QED BY <3>2, <4>2, <4>3, <4>5
    <3>3. QED BY <3>1, <3>2
  <2>6. TurnsOfChat(p)'
    BY <1>2, <2>3, <2>5 DEF Chat, TurnsOfChat, Present, Locked
  <2>7. QED BY <2>4, <2>6 DEF Chat
<1>5. QED BY <1>3, <1>4

LEMMA ChatKept ==
  ASSUME Typed, NEW p \in Procs, Chat(p), ~SameSecond, [Next]_vars
  PROVE  Chat(p)'
<1>1. CASE UNCHANGED vars
  BY <1>1 DEF vars, Chat, TiersOfChat, TurnsOfChat, Present
<1>2. ASSUME NEW t \in Tasks, Handle(t) \/ Store(t) \/ Fault(t) PROVE Chat(p)'
  BY <1>2, Acts, StartChat, OpenChat, SaveChat, PickChat, PersistChat
<1>3. ASSUME NEW q \in Procs, Restart(q) PROVE Chat(p)'
  BY <1>3, RestartChat
<1>4. QED BY <1>1, <1>2, <1>3 DEF Next

\* The tasks of one scene run.
LEMMA SceneRuns == Init => Present \in Scenes
<1> SUFFICES ASSUME Init PROVE Present \in Scenes
  OBVIOUS
<1>1. PICK scene \in Scenes :
        task = [t \in Tasks |->
                  [stage |-> IF t \in scene THEN "todo" ELSE "absent", step |-> "none",
                   lock |-> 0, obj |-> 0, got |-> NoRow, resume |-> 0, base |-> 0,
                   mine |-> 0, stale |-> FALSE]]
  BY DEF Init
<1>2. Present = scene
  BY <1>1, TiersAssumption DEF Present
<1> QED BY <1>2

LEMMA ChatInit ==
  ASSUME Init, Conversation(Present)
  PROVE  \E p \in Procs : Chat(p)
<1> DEFINE row == [meta |-> 1, pinned |-> TRUE, at |-> 0]
<1>1. PICK scene \in Scenes, holders \in Holders :
        /\ mem = [p \in Procs |-> IF p \in holders THEN 1 ELSE 0]
        /\ heap = [p \in Procs |-> [o \in Objects |-> IF o = mem[p] THEN row ELSE Empty]]
        /\ db = [p \in Procs |-> IF p \in holders THEN row ELSE NoRow]
        /\ hash = (IF holders = {} THEN NoRow ELSE row) /\ now = 0
        /\ task = [t \in Tasks |->
                     [stage |-> IF t \in scene THEN "todo" ELSE "absent", step |-> "none",
                      lock |-> 0, obj |-> 0, got |-> NoRow, resume |-> 0, base |-> 0,
                      mine |-> 0, stale |-> FALSE]]
        /\ head = (IF holders = {} THEN 0 ELSE 1)
  BY DEF Init
<1>2. scene \subseteq Tasks /\ holders \subseteq Procs
  BY TiersAssumption
<1>s. Conversation(scene)
  <2>1. Present = scene
    BY <1>1, <1>2 DEF Present
  <2> QED BY <2>1
<1>3. PICK t \in scene : TRUE
  BY <1>s DEF Conversation
<1> DEFINE p == ProcOf[t]
<1>4. p \in Procs /\ p \in holders /\ \A u \in scene : KindOf[u] = "turn" /\ ProcOf[u] = p
  BY <1>2, <1>3, <1>s, TiersAssumption DEF Conversation
<1> HIDE DEF p
<1>5. mem[p] = 1 /\ db[p] = row /\ hash = row /\ head = 1
  BY <1>1, <1>4
<1>6. 1 \in Objects
  BY TiersAssumption, FS_CardinalityType DEF Objects
<1>7. heap[p][1] = row
  BY <1>1, <1>4, <1>5, <1>6
<1>8. row \in Rows /\ row.meta = 1 /\ row.pinned /\ row.at = 0
  BY DEF Rows
<1> HIDE DEF row
<1>9. TiersOfChat(p)
  BY <1>1, <1>5, <1>7, <1>8 DEF TiersOfChat, NoNewer, SameContent
<1>10. ASSUME NEW u \in Tasks
       PROVE  /\ task[u].stage \in {"todo", "absent"} /\ Turn(task[u], row, row, 1)
              /\ task[u].stage # "absent" => u \in scene
  <2>1. task[u].stage \in {"todo", "absent"} /\ task[u].step = "none" /\ ~task[u].stale
    BY <1>1
  <2>2. task[u].stage # "absent" => u \in scene
    BY <1>1
  <2>3. Turn(task[u], row, row, 1)
    BY <2>1 DEF Turn, Idling, Locked, Writing, Persist
  <2>4. QED BY <2>1, <2>2, <2>3
<1>11. TurnsOfChat(p)
  BY <1>4, <1>5, <1>7, <1>10 DEF TurnsOfChat, Present, Locked
<1>12. QED BY <1>4, <1>9, <1>11 DEF Chat

\* Of turns of one conversation in the process that knows it, each one that runs
\* at Gemini continues the last answer that was persisted, whatever the number of
\* turns and of restarts and wherever Redis fails: the lock of the conversation
\* orders them, and Redis never holds a row newer than SQLite.
THEOREM NextTurnContinues ==
  ASSUME ~SameSecond, \A scene \in Scenes : Conversation(scene)
  PROVE  Spec => []TurnsContinue
<1> DEFINE Served == Typed /\ WrittenThrough /\ \E p \in Procs : Chat(p)
<1>1. Init => Served
  BY TypedInit, ChatInit, SceneRuns
<1>2. Served /\ [Next]_vars => Served'
  BY TypedKept, ChatKept
<1>3. Served => TurnsContinue
  BY DEF Chat, TurnsOfChat, Turn, TurnsContinue
<1>4. QED BY <1>1, <1>2, <1>3, PTL DEF Spec

LEMMA RestartsCounted == restarts \in Nat /\ [Next]_vars => restarts' \in Nat
<1>1. ASSUME NEW t \in Tasks, Handle(t) \/ Fault(t) PROVE restarts' = restarts
  BY <1>1 DEF Handle, Start, StartPurge, Acquire, Answer, Fail, Fault, FetchFails, WriteFails, PurgeFails
<1>2. ASSUME NEW t \in Tasks, Store(t) PROVE restarts' = restarts
  BY <1>2 DEF Store, ResolveNew, ResolveGet, ResolvePersist, ResolvePurge, Fetch, ApplyGet, ApplyNew,
     ApplyFresh, Check, Put, Delete, Gen, Cas, CasGen
<1>3. QED BY <1>1, <1>2 DEF Next, vars, Restart

\* Under the same conditions no answer is lost on its way to SQLite: what the
\* persist of _save_state writes is the continuation of the answer it is for.
THEOREM AnswersPersisted ==
  ASSUME ~SameSecond, \A scene \in Scenes : Conversation(scene)
  PROVE  Spec => AnswersReachSQLite
<1> DEFINE Served == Typed /\ WrittenThrough /\ restarts \in Nat /\ \E p \in Procs : Chat(p)
           Persisted == \A t \in Tasks :
             (task[t].stage = "saved" /\ task[t].step = "resolve"
                /\ (\A u \in Present : KindOf[u] # "read")
                /\ task'[t].step # "resolve" /\ restarts' = restarts) =>
               db'[ProcOf[t]] # NoRow /\ db'[ProcOf[t]].meta = task[t].mine
<1>1. Init => Served
  <2>1. Init => restarts \in Nat
    BY DEF Init
  <2>2. QED BY <2>1, TypedInit, ChatInit, SceneRuns
<1>2. Served /\ [Next]_vars => Served'
  BY TypedKept, ChatKept, RestartsCounted
<1>3. Served /\ [Next]_vars => [Persisted]_vars
  <2> SUFFICES ASSUME Served, Next, NEW t \in Tasks, task[t].stage = "saved", task[t].step = "resolve",
                      task'[t].step # "resolve", restarts' = restarts
               PROVE  db'[ProcOf[t]] # NoRow /\ db'[ProcOf[t]].meta = task[t].mine
    BY DEF vars
  <2>1. PICK p \in Procs : Chat(p)
    OBVIOUS
  <2>2. PICK u \in Tasks : Handle(u) \/ Store(u) \/ Fault(u)
    <3>1. ASSUME NEW q \in Procs, Restart(q) PROVE FALSE
      BY <3>1 DEF Restart
    <3>2. QED BY <3>1 DEF Next
  <2>3. After(u)
    BY <2>2, StepsAfter
  <2>4. u = t
    BY <2>3 DEF After
  <2>5. ResolvePersist(t) /\ ProcOf[t] = p
    BY <2>1, <2>2, <2>4, Acts
  <2>6. QED BY <2>1, <2>5, PersistChat
<1>4. QED BY <1>1, <1>2, <1>3, PTL DEF Spec, AnswersReachSQLite

-----------------------------------------------------------------------------
(* A row that is created *)

\* One turn runs, beside lookups and purges.
OneTurn(scene) == \A t, u \in scene : KindOf[t] = "turn" /\ KindOf[u] = "turn" => t = u

TurnStages == Locked \cup {"lock", "wait"}

Creating(x) == x.step = "put" /\ New(x.stage)

\* The only turn writes to Redis; what it pushes for a row it has created meets none
\* with history.
Alone ==
  /\ \A t, u \in Present : KindOf[t] = "turn" /\ KindOf[u] = "turn" => t = u
  /\ \A t \in Tasks : task[t].stage \in TurnStages => KindOf[t] = "turn"
  /\ \A t \in Tasks : Creating(task[t]) => hash = NoRow \/ hash.meta = 0

\* What a call returns to is a stage of the same task.
LEMMA ReturnedStage ==
  ASSUME Typed, NEW t \in Tasks, NEW o, NEW objects, task[t].stage \in DOMAIN Call
  PROVE  /\ Returned(t, o, objects).task.stage # "absent"
         /\ Returned(t, o, objects).task.stage \in TurnStages => task[t].stage \in TurnStages
         /\ Returned(t, o, objects).task.step # "put"
<1> DEFINE row == IF o = 0 THEN NoRow ELSE objects[o]
           stage == task[t].stage
           x == Returned(t, o, objects).task
           Good(y) == y.stage # "absent" /\ (y.stage \in TurnStages => stage \in TurnStages) /\ y.step # "put"
<1> SUFFICES Good(x)
  OBVIOUS
<1>1. task[t] \in TaskStates
  BY DEF Typed
<1>2. stage \in {"lock", "open", "pick", "pin", "pinned", "clear", "cleared", "save",
                  "saved", "fail", "read", "purge"}
  BY DEF Call
<1>3. \A s \in Stages : /\ At(t, s) \in TaskStates /\ At(t, s).stage = s /\ At(t, s).step = "resolve"
                        /\ Rest(t, s) \in TaskStates /\ Rest(t, s).stage = s /\ Rest(t, s).step = "none"
  BY <1>1 DEF At, Rest, TaskStates, Steps
<1>4. ASSUME NEW s \in Stages \ {"absent"}, s \in TurnStages => stage \in TurnStages
      PROVE  /\ Good(At(t, s)) /\ Good(Rest(t, s))
             /\ \A v : Good([At(t, s) EXCEPT !.obj = v]) /\ Good([At(t, s) EXCEPT !.resume = v])
             /\ \A v : Good([At(t, s) EXCEPT !.stale = v])
             /\ \A v : Good([Rest(t, s) EXCEPT !.lock = v]) /\ Good([Rest(t, s) EXCEPT !.base = v])
  <2>1. /\ At(t, s) \in TaskStates /\ At(t, s).stage = s /\ At(t, s).step = "resolve"
        /\ Rest(t, s) \in TaskStates /\ Rest(t, s).stage = s /\ Rest(t, s).step = "none"
    BY <1>3
  <2> QED BY <1>4, <2>1 DEF TaskStates
<1> HIDE DEF Good
<1>5. CASE stage \in {"saved", "fail", "read", "purge"}
  <2>1. x = [Rest(t, "done") EXCEPT !.lock = 0]
    BY <1>5 DEF Returned
  <2>2. "done" \in Stages \ {"absent"} /\ "done" \notin TurnStages
    BY StageNames DEF TurnStages, Locked
  <2> HIDE DEF x, stage
  <2>3. \A v : Good([Rest(t, "done") EXCEPT !.lock = v])
    BY <1>4, <2>2
  <2>4. Good([Rest(t, "done") EXCEPT !.lock = 0])
    BY <2>3
  <2> QED BY <2>1, <2>4
<1>6. CASE stage \notin {"saved", "fail", "read", "purge"}
  <2>1. stage \in TurnStages /\ stage \in {"lock", "open", "pick", "pin", "pinned", "clear", "cleared", "save"}
    BY <1>2, <1>6 DEF TurnStages, Locked
  <2>2. /\ \A v : Good(Run(t, v)) /\ Good([At(t, "pick") EXCEPT !.stale = v])
                  /\ Good([At(t, "pinned") EXCEPT !.obj = v]) /\ Good([At(t, "pick") EXCEPT !.resume = v])
                  /\ Good([Rest(t, "wait") EXCEPT !.lock = v])
        /\ \A s \in {"pin", "clear", "cleared", "saved"} : Good(At(t, s))
    <3>1. {"run", "pick", "pinned", "wait", "pin", "clear", "cleared", "saved"} \subseteq Stages \ {"absent"}
      BY StageNames
    <3> QED BY <1>4, <2>1, <3>1 DEF Run
  <2>3. Good(Picked(t, row))
    BY <2>2 DEF Picked
  <2> HIDE DEF row
  <2>4. CASE stage = "lock"
    BY <2>2, <2>4 DEF Returned
  <2>5. CASE stage = "open"
    BY <2>2, <2>5 DEF Returned
  <2>6. CASE stage = "pick"
    <3>1. x = Picked(t, row)
      BY <2>6 DEF Returned, row
    <3> QED BY <2>3, <3>1
  <2>7. CASE stage = "pin" \/ stage = "pinned"
    BY <2>2, <2>7 DEF Returned
  <2>8. CASE stage = "clear" \/ stage = "cleared" \/ stage = "save"
    BY <2>2, <2>8 DEF Returned
  <2> QED BY <2>1, <2>4, <2>5, <2>6, <2>7, <2>8
<1> QED BY <1>5, <1>6

\* Where a step takes a task, and what it does to Redis.
Moved(t) ==
  /\ task[t].stage # "absent" /\ task'[t].stage # "absent"
  /\ task'[t].stage \in TurnStages => task[t].stage \in TurnStages \/ KindOf[t] = "turn"
  /\ Creating(task'[t]) => Check(t) /\ ~Existing(ProcOf[t])
  /\ hash' = hash \/ hash' = NoRow \/ (Put(t) /\ task[t].step = "put")

LEMMA ReturnMoves ==
  ASSUME Typed, NEW t \in Tasks, NEW o, NEW objects, task[t].stage \in DOMAIN Call,
         Return(t, o, objects), hash' = hash \/ hash' = NoRow \/ (Put(t) /\ task[t].step = "put")
  PROVE  Moved(t)
<1> DEFINE x == Returned(t, o, objects).task
<1>1. x.stage # "absent" /\ (x.stage \in TurnStages => task[t].stage \in TurnStages) /\ x.step # "put"
  BY ReturnedStage
<1>2. task' = [task EXCEPT ![t] = x] /\ task \in [Tasks -> TaskStates]
  BY DEF Return, Typed
<1> HIDE DEF x
<1>3. task'[t] = x
  BY <1>2
<1>4. task[t].stage # "absent"
  BY DEF Call
<1> QED BY <1>1, <1>3, <1>4 DEF Moved, Creating

\* A step that leaves its task at the same stage, or takes it to a new one.
LEMMA StageMoves ==
  ASSUME NEW t \in Tasks, task[t].stage # "absent", hash' = hash \/ hash' = NoRow,
         \/ task'[t].stage = task[t].stage /\ (Creating(task'[t]) => Check(t) /\ ~Existing(ProcOf[t]))
         \/ /\ task'[t].step # "put" /\ task'[t].stage # "absent"
            /\ task'[t].stage \in TurnStages => task[t].stage \in TurnStages \/ KindOf[t] = "turn"
  PROVE  Moved(t)
BY DEF Moved, Creating

LEMMA StepMoves ==
  ASSUME Typed, NEW t \in Tasks, Handle(t) \/ Store(t) \/ Fault(t)
  PROVE  Moved(t)
<1>1. task \in [Tasks -> TaskStates] /\ task[t] \in TaskStates /\ Fine(task[t], gen)
  BY DEF Typed
<1>2. \A s \in Stages : /\ At(t, s) \in TaskStates /\ At(t, s).stage = s /\ At(t, s).step = "resolve"
                        /\ Rest(t, s) \in TaskStates /\ Rest(t, s).stage = s /\ Rest(t, s).step = "none"
  BY <1>1 DEF At, Rest, TaskStates, Steps
<1>3. CASE Handle(t)
  <2>1. {"lock", "read", "purge", "open", "save", "fail"} \subseteq Stages
    BY StageNames
  <2>2. task[t].stage \in {"todo", "wait", "run"} /\ hash' = hash
    BY <1>3 DEF Handle, Start, StartPurge, Acquire, Answer, Fail, redis
  <2>3. \/ /\ task'[t].stage \in {"lock", "open", "save", "fail", "read", "purge"} /\ task'[t].step = "resolve"
           /\ task[t].stage # "todo" \/ KindOf[t] = "turn"
        \/ task'[t].stage \in {"read", "purge"} /\ task'[t].step = "resolve"
    <3>1. CASE Start(t)
      BY <1>1, <1>2, <2>1, <3>1 DEF Start
    <3>2. CASE StartPurge(t)
      <4> DEFINE row == IF mem[ProcOf[t]] # 0 THEN heap[ProcOf[t]][mem[ProcOf[t]]] ELSE hash
                 x == [At(t, "purge") EXCEPT !.got = row]
      <4>1. At(t, "purge") \in TaskStates /\ At(t, "purge").stage = "purge" /\ At(t, "purge").step = "resolve"
        BY <1>2, <2>1
      <4>2. task'[t] = x
        BY <1>1, <3>2 DEF StartPurge
      <4> HIDE DEF row
      <4>3. x.stage = "purge" /\ x.step = "resolve"
        BY <4>1 DEF TaskStates
      <4> QED BY <4>2, <4>3
    <3>3. CASE Acquire(t)
      BY <1>1, <1>2, <2>1, <3>3 DEF Acquire
    <3>4. CASE Answer(t)
      <4> DEFINE x == [At(t, "save") EXCEPT !.mine = turns + 1]
      <4>1. At(t, "save") \in TaskStates /\ At(t, "save").stage = "save" /\ At(t, "save").step = "resolve"
        BY <1>2, <2>1
      <4>2. task'[t] = x
        BY <1>1, <3>4 DEF Answer
      <4>3. x.stage = "save" /\ x.step = "resolve"
        BY <4>1 DEF TaskStates
      <4> QED BY <3>4, <4>2, <4>3 DEF Answer
    <3>5. CASE Fail(t)
      BY <1>1, <1>2, <2>1, <3>5 DEF Fail
    <3> QED BY <1>3, <3>1, <3>2, <3>3, <3>4, <3>5 DEF Handle
  <2> QED BY <2>2, <2>3, StageMoves DEF TurnStages, Locked
<1>4. ASSUME NEW step \in Steps, NEW o, NEW got, task' = [task EXCEPT ![t].step = step, ![t].obj = o, ![t].got = got]
      PROVE  task'[t].stage = task[t].stage /\ task'[t].step = step
  BY <1>1, <1>4 DEF TaskStates
<1>5. CASE ResolveNew(t) \/ ResolveGet(t) \/ ResolvePersist(t)
  <2>1. task[t].stage \in DOMAIN Call /\ task[t].stage # "absent" /\ hash' = hash
    BY <1>5 DEF ResolveNew, ResolveGet, ResolvePersist, Resolving, Calling, Call, redis
  <2>2. \/ \E o, objects : Return(t, o, objects)
        \/ \E o, got : Goto(t, "fetch", o, got)
        \/ Persist(task[t].stage) /\ \E o, got : Goto(t, "put", o, got)
    BY <1>5, Callings DEF ResolveNew, ResolveGet, ResolvePersist, Resolving
  <2>3. CASE \E o, objects : Return(t, o, objects)
    BY <2>1, <2>3, ReturnMoves
  <2>4. CASE \E o, got : Goto(t, "fetch", o, got)
    <3>1. task'[t].stage = task[t].stage /\ task'[t].step = "fetch"
      BY <1>4, <2>4 DEF Goto, Steps
    <3> QED BY <2>1, <3>1, StageMoves DEF Creating
  <2>5. CASE Persist(task[t].stage) /\ \E o, got : Goto(t, "put", o, got)
    <3>1. task'[t].stage = task[t].stage
      BY <1>4, <2>5 DEF Goto, Steps
    <3>2. ~New(task[t].stage)
      BY <2>5 DEF Persist, New
    <3> QED BY <2>1, <3>1, <3>2, StageMoves DEF Creating
  <2> QED BY <2>2, <2>3, <2>4, <2>5
<1>6. CASE ResolvePurge(t) \/ Fetch(t) \/ Delete(t) \/ Check(t)
  <2>1. task[t].stage # "absent"
    BY <1>1, <1>6 DEF ResolvePurge, Resolving, Calling, Call, Fetch, Delete, Check, Fine, New
  <2>2. task'[t].stage = task[t].stage
    BY <1>1, <1>6 DEF ResolvePurge, Fetch, Delete, Check, TaskStates
  <2>3. task'[t].step = "put" => Check(t) /\ ~Existing(ProcOf[t])
    BY <1>1, <1>6 DEF ResolvePurge, Fetch, Delete, Check, TaskStates
  <2>4. hash' = hash \/ hash' = NoRow
    BY <1>6 DEF ResolvePurge, Fetch, Delete, Check, redis
  <2> QED BY <2>1, <2>2, <2>3, <2>4, StageMoves DEF Creating
<1>7. ASSUME task[t].step \notin {"none", "resolve"} PROVE task[t].stage \in DOMAIN Call /\ task[t].stage # "absent"
  <2>1. task[t].step \in Steps
    BY <1>1 DEF TaskStates
  <2>2. New(task[t].stage) \/ Persist(task[t].stage) \/ task[t].stage \in {"pick", "read", "fail", "purge"}
    BY <1>1, <1>7, <2>1 DEF Fine, Steps
  <2> QED BY <2>2 DEF New, Persist, Call
<1>8. CASE ApplyGet(t) \/ ApplyNew(t) \/ ApplyFresh(t) \/ FetchFails(t)
  <2>1. hash' = hash /\ task[t].stage \in DOMAIN Call /\ task[t].stage # "absent"
    BY <1>7, <1>8 DEF ApplyGet, ApplyNew, ApplyFresh, FetchFails, redis
  <2>2. \/ \E o, objects : Return(t, o, objects)
        \/ \E o, got : Goto(t, "check", o, got) \/ Goto(t, "delete", o, got)
    BY <1>8 DEF ApplyGet, ApplyNew, ApplyFresh, FetchFails, Create, DropFresh
  <2>3. CASE \E o, objects : Return(t, o, objects)
    BY <2>1, <2>3, ReturnMoves
  <2>4. CASE \E o, got : Goto(t, "check", o, got) \/ Goto(t, "delete", o, got)
    <3>1. task'[t].stage = task[t].stage /\ task'[t].step # "put"
      BY <1>4, <2>4 DEF Goto, Steps
    <3> QED BY <2>1, <3>1, StageMoves DEF Creating
  <2> QED BY <2>2, <2>3, <2>4
<1>9. CASE Put(t) \/ Gen(t) \/ WriteFails(t)
  <2>1. task[t].stage \in DOMAIN Call /\ (hash' = hash \/ Put(t)) /\ (Put(t) => task[t].step = "put")
    BY <1>7, <1>9 DEF Put, Gen, WriteFails, redis
  <2>2. \E o, objects : Return(t, o, objects)
    BY <1>9 DEF Put, Gen, WriteFails
  <2> QED BY <2>1, <2>2, ReturnMoves
<1>10. CASE Cas(t) \/ CasGen(t)
  <2>1. task[t].stage \in DOMAIN Call /\ task[t].stage # "absent" /\ (hash' = hash \/ hash' = NoRow)
    BY <1>7, <1>10 DEF Cas, CasGen, redis
  <2>2. \/ \E o, objects : Return(t, o, objects)
        \/ task' = [task EXCEPT ![t].step = "casgen"] \/ task' = [task EXCEPT ![t].step = "delete"]
    BY <1>10 DEF Cas, CasGen
  <2>3. CASE \E o, objects : Return(t, o, objects)
    BY <2>1, <2>3, ReturnMoves
  <2>4. CASE task' = [task EXCEPT ![t].step = "casgen"] \/ task' = [task EXCEPT ![t].step = "delete"]
    <3>1. task'[t].stage = task[t].stage /\ task'[t].step # "put"
      BY <1>1, <2>4 DEF TaskStates
    <3> QED BY <2>1, <3>1, StageMoves DEF Creating
  <2> QED BY <2>2, <2>3, <2>4
<1>11. CASE PurgeFails(t)
  <2>1. task[t].stage # "absent" /\ hash' = hash
    BY <1>7, <1>11 DEF PurgeFails, redis
  <2>2. task'[t].stage = "error" /\ task'[t].step = "none"
    BY <1>1, <1>2, <1>11, StageNames DEF PurgeFails
  <2>3. "error" \notin TurnStages
    BY DEF TurnStages, Locked
  <2> QED BY <2>1, <2>2, <2>3, StageMoves
<1> QED BY <1>3, <1>5, <1>6, <1>8, <1>9, <1>10, <1>11 DEF Store, Fault

LEMMA AloneKept ==
  ASSUME Typed, WrittenThrough, Alone, [Next]_vars
  PROVE  Alone'
<1>1. CASE UNCHANGED vars
  BY <1>1 DEF vars, Alone, Present, Creating
<1>2. ASSUME NEW t \in Tasks, Handle(t) \/ Store(t) \/ Fault(t) PROVE Alone'
  <2>1. Moved(t) /\ \A u \in Tasks \ {t} : task'[u] = task[u]
    BY <1>2, StepMoves, StepsAfter DEF After
  <2>2. Present' = Present
    BY <2>1 DEF Moved, Present
  <2>3. \A u \in Tasks : task'[u].stage \in TurnStages => KindOf[u] = "turn"
    BY <2>1 DEF Moved, Alone
  <2>4. ASSUME NEW u \in Tasks, Creating(task'[u]) PROVE hash' = NoRow \/ hash'.meta = 0
    <3>1. CASE u = t
      <4>1. Check(t) /\ ~Existing(ProcOf[t])
        BY <2>1, <2>4, <3>1 DEF Moved
      <4> QED BY <4>1 DEF Check, Existing, redis
    <3>2. CASE u # t
      <4>1. Creating(task[u]) /\ (hash = NoRow \/ hash.meta = 0)
        BY <2>1, <2>4, <3>2 DEF Alone
      <4>2. ASSUME task[t].step = "put" PROVE FALSE
        <5>1. New(task[t].stage) \/ Persist(task[t].stage)
          BY <4>2 DEF Typed, Fine
        <5>2. task[t].stage \in TurnStages /\ task[u].stage \in TurnStages
          BY <4>1, <5>1 DEF Creating, New, Persist, TurnStages, Locked
        <5>3. t \in Present /\ u \in Present
          BY <5>2 DEF Present, TurnStages, Locked
        <5> QED BY <3>2, <5>2, <5>3 DEF Alone
      <4> QED BY <2>1, <4>1, <4>2 DEF Moved
    <3> QED BY <3>1, <3>2
  <2> QED BY <2>2, <2>3, <2>4 DEF Alone
<1>3. ASSUME NEW p \in Procs, Restart(p) PROVE Alone'
  <2>1. ASSUME NEW u \in Tasks
        PROVE  task'[u] = task[u] \/ (task[u].stage # "absent" /\ task'[u].stage = "done" /\ task'[u].step = "none")
    <3>1. "done" \in Stages \ {"pinned"}
      BY StageNames
    <3>2. Rest(u, "done") \in TaskStates /\ Rest(u, "done").stage = "done" /\ Rest(u, "done").step = "none"
      BY <3>1, Betweens
    <3> QED BY <1>3, <3>2 DEF Restart, TaskStates
  <2>2. hash' = hash
    BY <1>3 DEF Restart, redis
  <2>3. Present' = Present
    BY <2>1 DEF Present
  <2>4. "done" \notin TurnStages
    BY DEF TurnStages, Locked
  <2> QED BY <2>1, <2>2, <2>3, <2>4 DEF Alone, Creating
<1> QED BY <1>2, <1>3, <1>1 DEF Next

\* CreationKeepsRows: when one turn runs, in any process and beside any lookups and
\* purges, or any turns in the process that knows the conversation, what Redis holds
\* of it is not overwritten by an empty row, wherever Redis fails.
THEOREM CreationsKeepHistory ==
  ASSUME \A scene \in Scenes : OneTurn(scene) \/ (~SameSecond /\ Conversation(scene))
  PROVE  Spec => CreationKeepsRows
<1> DEFINE Kept == Typed /\ WrittenThrough /\ (Alone \/ (~SameSecond /\ \E p \in Procs : Chat(p)))
<1>1. Init => Kept
  <2> SUFFICES ASSUME Init PROVE Kept
    OBVIOUS
  <2>1. Typed /\ WrittenThrough
    BY TypedInit
  <2>2. CASE OneTurn(Present)
    <3>1. \A t \in Tasks : task[t].stage \in {"todo", "absent"} /\ task[t].step = "none"
      BY DEF Init
    <3>2. Alone
      BY <2>2, <3>1 DEF Alone, OneTurn, Creating, TurnStages, Locked
    <3> QED BY <2>1, <3>2
  <2>3. CASE ~SameSecond /\ Conversation(Present)
    BY <2>1, <2>3, ChatInit
  <2> QED BY <2>2, <2>3, SceneRuns
<1>2. Kept /\ [Next]_vars => Kept'
  BY TypedKept, ChatKept, AloneKept
<1>3. Kept => \A t \in Tasks : Creating(task[t]) => hash = NoRow \/ hash.meta = 0
  <2>1. ASSUME NEW p \in Procs, Chat(p), NEW t \in Tasks, Creating(task[t]) PROVE FALSE
    BY <2>1 DEF Chat, TurnsOfChat, Turn, Creating, New
  <2> QED BY <2>1 DEF Alone
<1>4. Kept /\ [Next]_vars =>
        [\A t \in Tasks : (task[t].step = "put" /\ Calling(t, "new") /\ task'[t].step # "put"
                             /\ hash # hash') => hash = NoRow \/ hash.meta = 0]_vars
  BY <1>3, Callings DEF Creating
<1> QED BY <1>1, <1>2, <1>4, PTL DEF Spec, CreationKeepsRows
=============================================================================
