------------------------ MODULE StoreCapacityProofs ------------------------
(***************************************************************************)
(* The store at its capacity, for any number of clients, any capacity and  *)
(* any number of requests and restarts: SQLite has what memory has, an     *)
(* answer goes only when the capacity pushes its row out of memory and of  *)
(* Redis, when its persist found no row, or when a turn whose own row was  *)
(* evicted resets it, and the table of the response objects is full before *)
(* it loses one.                                                           *)
(***************************************************************************)
EXTENDS StoreCapacity, SubsequencesProofs, TLAPS

-----------------------------------------------------------------------------
(* The tables of the store.  The calls are operators on the whole store, so  *)
(* what they keep is stated of a store s, and of the state in the end.       *)

\* Every table has a row once, and knows when it was written; without Redis
\* nothing is in Redis.
Tables(s) ==
  /\ s \in StoreType
  /\ IsInjective(s.mem) /\ IsInjective(s.alias) /\ IsInjective(s.asql) /\ IsInjective(s.age)
  /\ IsInjective(s.safe.asql)
  /\ s.red \cup s.sql \cup s.safe.sql \subseteq Range(s.age)
  /\ ~s.shared => s.red = {}

\* Without Redis: the tiers are in step, but for what is not committed.
InStep(s) ==
  Range(s.mem) = s.sql /\ Range(s.alias) = Range(s.asql) /\ Len(s.alias) <= 2 * Cap

\* Nothing is left uncommitted.
Clean(s) == ~s.open /\ s.safe = [sql |-> s.sql, asql |-> s.asql]

Sound(s) == Tables(s) /\ (~s.shared => InStep(s) /\ Clean(s))

\* A call made r of s.
Made(s, r) == Sound(r) /\ r.shared = s.shared /\ r.missed = s.missed

LEMMA CapIs == Cap \in Nat /\ Cap >= 1
BY CapacityAssumption

LEMMA WithoutOne ==
  ASSUME NEW T, NEW s \in Seq(T), NEW e
  PROVE  /\ Without(s, e) \in Seq(T) /\ Len(Without(s, e)) <= Len(s)
         /\ Range(Without(s, e)) = Range(s) \ {e}
         /\ IsInjective(s) => IsInjective(Without(s, e))
<1> DEFINE S == Range(s) \ {e}
<1>1. /\ Among(s, S) \in Seq(T) /\ Len(Among(s, S)) <= Len(s)
      /\ Range(Among(s, S)) = Range(s) \cap S
  BY AmongRange
<1>2. IsInjective(s) => IsInjective(Among(s, S))
  BY AmongInjective
<1>3. Without(s, e) = Among(s, S)
  BY DEF Without
<1> HIDE DEF S
<1>4. QED BY <1>1, <1>2, <1>3 DEF S

LEMMA RenewedOne ==
  ASSUME NEW T, NEW s \in Seq(T), NEW e \in T
  PROVE  /\ Renewed(s, e) \in Seq(T) /\ Range(Renewed(s, e)) = Range(s) \cup {e}
         /\ Renewed(s, e) # <<>> /\ Renewed(s, e)[Len(Renewed(s, e))] = e
         /\ IsInjective(s) => IsInjective(Renewed(s, e))
<1> DEFINE w == Without(s, e)
<1>1. w \in Seq(T) /\ Range(w) = Range(s) \ {e} /\ (IsInjective(s) => IsInjective(w))
  BY WithoutOne
<1> HIDE DEF w
<1>2. /\ Append(w, e) \in Seq(T) /\ Len(Append(w, e)) = Len(w) + 1
      /\ Append(w, e)[Len(w) + 1] = e /\ Range(Append(w, e)) = Range(w) \cup {e}
      /\ IsInjective(w) => IsInjective(Append(w, e))
  BY <1>1, AppendOne
<1>3. Append(w, e) # <<>>
  BY <1>1, <1>2
<1>4. Renewed(s, e) = Append(w, e)
  BY DEF Renewed, w
<1>5. QED BY <1>1, <1>2, <1>3, <1>4

-----------------------------------------------------------------------------
(* Where the answer of a row is *)

ConvKey == <<Conv, 0>>

InRedis(s, k) == k \in s.red /\ Holds(s.wred[k], k)

\* Memory and the disk have it, and Redis nothing else.
InMemory(s, k) ==
  /\ k \in Range(s.mem) /\ k \in s.sql /\ k \in s.safe.sql
  /\ Holds(s.what[k], k) /\ Holds(s.wsql[k], k)
  /\ k \in s.red => Holds(s.wred[k], k)

Excused(s, k) == k \in s.out \/ k \in s.missed

Answered(s, k) == InMemory(s, k) \/ InRedis(s, k) \/ Excused(s, k)

\* SQLite does not contradict Redis.
EqualTiers(s, k) == k \in s.red /\ (k \in s.sql \/ k \in s.safe.sql) => s.wsql[k] = s.wred[k]

\* Memory does not contradict an answer that Redis has.
Loyal(s, k) == InRedis(s, k) /\ k \in Range(s.mem) => InMemory(s, k) \/ Excused(s, k)

\* What a call does to a row it is not about: it may evict it, or push it out.
Spared(s, r, k) ==
  /\ k \in s.out => k \in r.out
  /\ k \in r.missed <=> k \in s.missed
  /\ k \in r.red => k \in s.red
  /\ r.wred[k] = s.wred[k] /\ r.what[k] = s.what[k] /\ r.wsql[k] = s.wsql[k]
  /\ k \in r.sql \/ k \in r.safe.sql => k \in s.sql \/ k \in s.safe.sql
  /\ k \in Range(r.mem) => k \in Range(s.mem)
  /\ \/ k \in r.out
     \/ /\ k \in s.red => k \in r.red
        /\ k \in Range(s.mem) /\ k \notin Range(r.mem) => k \in r.red
        /\ k \in Range(r.mem) /\ k \in s.sql => k \in r.sql
        /\ k \in Range(r.mem) /\ k \in s.sql /\ k \in s.safe.sql => k \in r.safe.sql

LEMMA SparedTwice ==
  ASSUME NEW s, NEW r, NEW t, NEW k, Spared(s, r, k), Spared(r, t, k)
  PROVE  Spared(s, t, k)
BY DEF Spared

\* What a call keeps of the answer in the row k.
Keeps(s, r, k) ==
  /\ Answered(s, k) => Answered(r, k)
  /\ Loyal(s, k) => Loyal(r, k)
  /\ EqualTiers(s, k) => EqualTiers(r, k)

LEMMA SparedKeeps ==
  ASSUME NEW s, NEW r, NEW k, Spared(s, r, k)
  PROVE  Keeps(s, r, k)
<1>1. Answered(s, k) => Answered(r, k)
  BY DEF Spared, Answered, InMemory, InRedis, Excused
<1>2. Loyal(s, k) => Loyal(r, k)
  BY DEF Spared, Loyal, InMemory, InRedis, Excused
<1>3. EqualTiers(s, k) => EqualTiers(r, k)
  BY DEF Spared, EqualTiers
<1>4. QED BY <1>1, <1>2, <1>3 DEF Keeps

LEMMA KeepsTwice ==
  ASSUME NEW s, NEW r, NEW t, NEW k, Keeps(s, r, k), Keeps(r, t, k)
  PROVE  Keeps(s, t, k)
BY DEF Keeps

-----------------------------------------------------------------------------
(* The calls on the rows *)

\* What most of them leave alone.
Aside(s, r) ==
  /\ r.shared = s.shared /\ r.missed = s.missed /\ r.alias = s.alias /\ r.asql = s.asql
  /\ r.ared = s.ared

LEMMA MemoryEvicted ==
  ASSUME NEW s, Tables(s)
  PROVE  LET r == EvictSession(s)
         IN  /\ Tables(r) /\ Aside(s, r) /\ r.what = s.what /\ r.wsql = s.wsql
             /\ r.red = s.red /\ r.wred = s.wred /\ r.age = s.age /\ r.safe = s.safe
             /\ Range(r.mem) \subseteq Range(s.mem) /\ r.sql \subseteq s.sql
             /\ Range(s.mem) = s.sql => Range(r.mem) = r.sql
             /\ \A k : Spared(s, r, k)
             /\ \A k : k \notin Range(s.mem) => (k \in r.out <=> k \in s.out)
<1>1. CASE Len(s.mem) >= Cap
  <2> DEFINE h == Head(s.mem)
             m == Tail(s.mem)
             q == s.sql \ {h}
             o == s.out \cup ({h} \ s.red)
             r == [s EXCEPT !.mem = m, !.sql = q, !.open = TRUE, !.out = o]
  <2>1. s \in StoreType /\ s.mem \in Seq(Keys) /\ IsInjective(s.mem) /\ s.mem # <<>>
    BY <1>1, CapIs DEF Tables, StoreType
  <2>2. m \in Seq(Keys) /\ IsInjective(m) /\ Range(m) = Range(s.mem) \ {h}
    BY <2>1, TailOnce
  <2>3. h \in Keys /\ h \in Range(s.mem)
    <3>1. 1 \in DOMAIN s.mem /\ h = s.mem[1] /\ s.mem[1] \in Keys
      BY <2>1
    <3>2. QED BY <3>1 DEF Range
  <2>4. EvictSession(s) = r
    BY <1>1 DEF EvictSession
  <2> HIDE DEF m, h
  <2>5. q \in SUBSET Keys /\ o \in SUBSET Keys /\ q = s.sql \ {h} /\ o = s.out \cup ({h} \ s.red)
    BY <2>1, <2>3 DEF StoreType
  <2> HIDE DEF q, o
  <2>6. /\ r \in StoreType /\ r.mem = m /\ r.sql = q /\ r.out = o
        /\ r.shared = s.shared /\ r.missed = s.missed /\ r.alias = s.alias /\ r.asql = s.asql
        /\ r.ared = s.ared /\ r.what = s.what /\ r.wsql = s.wsql /\ r.red = s.red
        /\ r.wred = s.wred /\ r.age = s.age /\ r.safe = s.safe
    BY <2>1, <2>2, <2>5 DEF StoreType
  <2> HIDE DEF r
  <2>7. Tables(r)
    BY <2>2, <2>5, <2>6 DEF Tables
  <2>8. \A k : Spared(s, r, k)
    BY <2>2, <2>5, <2>6 DEF Spared
  <2>9. \A k : k \notin Range(s.mem) => (k \in r.out <=> k \in s.out)
    BY <2>3, <2>5, <2>6
  <2>10. QED BY <2>2, <2>4, <2>5, <2>6, <2>7, <2>8, <2>9 DEF Aside
<1>2. CASE ~(Len(s.mem) >= Cap)
  BY <1>2 DEF EvictSession, Aside, Spared
<1>3. QED BY <1>1, <1>2

LEMMA RowInserted ==
  ASSUME NEW s, Tables(s), NEW k \in Keys, NEW x \in Contents
  PROVE  LET r == Inserted(s, k, x)
         IN  /\ Tables(r) /\ Aside(s, r) /\ Range(r.mem) = Range(s.mem) \cup {k} /\ r.what[k] = x
             /\ r.wsql = s.wsql /\ r.red = s.red /\ r.wred = s.wred /\ r.sql = s.sql
             /\ r.age = s.age /\ r.safe = s.safe /\ r.open = s.open /\ r.out = s.out
             /\ \A q \in Keys \ {k} : Spared(s, r, q)
<1> DEFINE m == Renewed(s.mem, k)
           f == [s.what EXCEPT ![k] = x]
           b == [s.born EXCEPT ![k] = s.born[k] + 1]
           r == [s EXCEPT !.mem = m, !.what = f, !.born = b]
<1>1. s \in StoreType /\ s.mem \in Seq(Keys) /\ IsInjective(s.mem)
  BY DEF Tables, StoreType
<1>2. m \in Seq(Keys) /\ IsInjective(m) /\ Range(m) = Range(s.mem) \cup {k}
  BY <1>1, RenewedOne
<1>3. Inserted(s, k, x) = r
  BY DEF Inserted
<1>4. /\ f \in [Keys -> Contents] /\ f[k] = x /\ (\A q \in Keys \ {k} : f[q] = s.what[q])
      /\ b \in [Keys -> Nat]
  BY <1>1 DEF StoreType
<1> HIDE DEF m, f, b
<1>5. /\ r \in StoreType /\ r.mem = m /\ r.what = f
      /\ r.shared = s.shared /\ r.missed = s.missed /\ r.alias = s.alias /\ r.asql = s.asql
      /\ r.ared = s.ared /\ r.wsql = s.wsql /\ r.red = s.red /\ r.wred = s.wred /\ r.sql = s.sql
      /\ r.age = s.age /\ r.safe = s.safe /\ r.open = s.open /\ r.out = s.out
  BY <1>1, <1>2, <1>4 DEF StoreType
<1> HIDE DEF r
<1>6. \A q \in Keys \ {k} : Spared(s, r, q)
  BY <1>2, <1>4, <1>5 DEF Spared
<1>7. QED BY <1>2, <1>3, <1>4, <1>5, <1>6 DEF Tables, Aside

\* An assignment to the session of k
LEMMA RowAssigned ==
  ASSUME NEW s, Tables(s), NEW k \in Keys, NEW x \in Contents
  PROVE  LET r == Assigned(s, k, x)
         IN  /\ Tables(r) /\ Aside(s, r) /\ r.mem = s.mem /\ r.what[k] = x
             /\ r.wsql = s.wsql /\ r.red = s.red /\ r.wred = s.wred /\ r.sql = s.sql
             /\ r.age = s.age /\ r.safe = s.safe /\ r.open = s.open /\ r.out = s.out
             /\ (Sound(s) => Sound(r))
             /\ \A q \in Keys \ {k} : Spared(s, r, q)
<1> DEFINE f == [s.what EXCEPT ![k] = x]
           r == [s EXCEPT !.what = f]
<1>1. s \in StoreType
  BY DEF Tables
<1>2. Assigned(s, k, x) = r
  BY DEF Assigned
<1>3. f \in [Keys -> Contents] /\ f[k] = x /\ (\A q \in Keys \ {k} : f[q] = s.what[q])
  BY <1>1 DEF StoreType
<1> HIDE DEF f
<1>4. /\ r \in StoreType /\ r.mem = s.mem /\ r.what = f
      /\ r.shared = s.shared /\ r.missed = s.missed /\ r.alias = s.alias /\ r.asql = s.asql
      /\ r.ared = s.ared /\ r.wsql = s.wsql /\ r.red = s.red /\ r.wred = s.wred /\ r.sql = s.sql
      /\ r.age = s.age /\ r.safe = s.safe /\ r.open = s.open /\ r.out = s.out
  BY <1>1, <1>3 DEF StoreType
<1> HIDE DEF r
<1>5. \A q \in Keys \ {k} : Spared(s, r, q)
  BY <1>3, <1>4 DEF Spared
<1>6. Tables(r)
  BY <1>4 DEF Tables
<1>7. Sound(s) => Sound(r)
  BY <1>4, <1>6 DEF Sound, InStep, Clean
<1>8. QED BY <1>2, <1>3, <1>4, <1>5, <1>6, <1>7 DEF Aside

LEMMA StoreCommitted ==
  ASSUME NEW s, Tables(s)
  PROVE  LET r == Committed(s)
         IN  /\ Tables(r) /\ Clean(r) /\ (InStep(s) => InStep(r)) /\ Aside(s, r)
             /\ r.what = s.what /\ r.wsql = s.wsql /\ r.red = s.red /\ r.wred = s.wred
             /\ r.mem = s.mem /\ r.sql = s.sql /\ r.age = s.age /\ r.out = s.out
             /\ r.safe.sql = s.sql
             /\ \A k : Spared(s, r, k)
<1> DEFINE c == [sql |-> s.sql, asql |-> s.asql]
           r == [s EXCEPT !.open = FALSE, !.safe = c]
<1>1. s \in StoreType /\ c \in [sql : SUBSET Keys, asql : Seq(Aliases)]
  BY DEF Tables, StoreType
<1>2. Committed(s) = r
  BY DEF Committed
<1>3. c.sql = s.sql /\ c.asql = s.asql
  OBVIOUS
<1>4. c = [sql |-> s.sql, asql |-> s.asql]
  OBVIOUS
<1> HIDE DEF c
<1>5. /\ r \in StoreType /\ r.open = FALSE /\ r.safe = c
      /\ r.shared = s.shared /\ r.missed = s.missed /\ r.alias = s.alias /\ r.asql = s.asql
      /\ r.ared = s.ared /\ r.what = s.what /\ r.wsql = s.wsql /\ r.red = s.red /\ r.wred = s.wred
      /\ r.mem = s.mem /\ r.sql = s.sql /\ r.age = s.age /\ r.out = s.out
  BY <1>1 DEF StoreType
<1> HIDE DEF r
<1>6. Clean(r) /\ r.safe.asql = s.asql /\ r.safe.sql = s.sql
  BY <1>3, <1>4, <1>5 DEF Clean
<1>7. Tables(r)
  BY <1>5, <1>6 DEF Tables
<1>8. \A k : Spared(s, r, k)
  BY <1>5, <1>6 DEF Spared
<1>9. QED BY <1>2, <1>5, <1>6, <1>7, <1>8 DEF InStep, Aside

LEMMA RowUpserted ==
  ASSUME NEW s, Tables(s), NEW k \in Keys, k \in Range(s.age)
  PROVE  LET r == Upserted(s, k)
         IN  /\ Tables(r) /\ Clean(r) /\ Aside(s, r)
             /\ r.sql = s.sql \cup {k} /\ r.safe.sql = s.sql \cup {k} /\ r.wsql[k] = s.what[k]
             /\ r.what = s.what /\ r.red = s.red /\ r.wred = s.wred
             /\ r.mem = s.mem /\ r.age = s.age /\ r.out = s.out
             /\ \A q \in Keys \ {k} : Spared(s, r, q)
<1> DEFINE q0 == s.sql \cup {k}
           f == [s.wsql EXCEPT ![k] = s.what[k]]
           u == [s EXCEPT !.sql = q0, !.wsql = f]
           r == Committed(u)
<1>1. s \in StoreType
  BY DEF Tables
<1>2. Upserted(s, k) = r
  BY DEF Upserted
<1>3. /\ f \in [Keys -> Contents] /\ f[k] = s.what[k] /\ (\A q \in Keys \ {k} : f[q] = s.wsql[q])
      /\ q0 \in SUBSET Keys /\ q0 = s.sql \cup {k}
  BY <1>1 DEF StoreType
<1> HIDE DEF f, q0
<1>4. /\ u \in StoreType /\ u.sql = q0 /\ u.wsql = f
      /\ u.shared = s.shared /\ u.missed = s.missed /\ u.alias = s.alias /\ u.asql = s.asql
      /\ u.ared = s.ared /\ u.what = s.what /\ u.red = s.red /\ u.wred = s.wred
      /\ u.mem = s.mem /\ u.age = s.age /\ u.out = s.out /\ u.safe = s.safe
  BY <1>1, <1>3 DEF StoreType
<1> HIDE DEF u
<1>5. Tables(u)
  BY <1>3, <1>4 DEF Tables
<1>6. \A q \in Keys \ {k} : Spared(s, u, q)
  BY <1>3, <1>4 DEF Spared
<1>7. /\ Tables(r) /\ Clean(r) /\ Aside(u, r)
      /\ r.what = u.what /\ r.wsql = u.wsql /\ r.red = u.red /\ r.wred = u.wred
      /\ r.mem = u.mem /\ r.sql = u.sql /\ r.age = u.age /\ r.out = u.out
      /\ r.safe.sql = u.sql
      /\ \A q : Spared(u, r, q)
  BY <1>5, StoreCommitted
<1> HIDE DEF r
<1>8. \A q \in Keys \ {k} : Spared(s, r, q)
  BY <1>6, <1>7, SparedTwice
<1>9. QED BY <1>2, <1>3, <1>4, <1>7, <1>8 DEF Aside

LEMMA RowStamped ==
  ASSUME NEW s, Tables(s), NEW k \in Keys
  PROVE  LET r == Stamped(s, k)
         IN  /\ Tables(r) /\ Aside(s, r) /\ Range(r.age) = Range(s.age) \cup {k}
             /\ r.age # <<>> /\ r.age[Len(r.age)] = k
             /\ r.what = s.what /\ r.wsql = s.wsql /\ r.red = s.red /\ r.wred = s.wred
             /\ r.mem = s.mem /\ r.sql = s.sql /\ r.safe = s.safe /\ r.open = s.open /\ r.out = s.out
             /\ \A q : Spared(s, r, q)
<1> DEFINE a == Renewed(s.age, k)
           r == [s EXCEPT !.age = a]
<1>1. s \in StoreType /\ s.age \in Seq(Keys) /\ IsInjective(s.age)
  BY DEF Tables, StoreType
<1>2. /\ a \in Seq(Keys) /\ IsInjective(a) /\ Range(a) = Range(s.age) \cup {k}
      /\ a # <<>> /\ a[Len(a)] = k
  BY <1>1, RenewedOne
<1>3. Stamped(s, k) = r
  BY DEF Stamped
<1> HIDE DEF a
<1>4. /\ r \in StoreType /\ r.age = a
      /\ r.shared = s.shared /\ r.missed = s.missed /\ r.alias = s.alias /\ r.asql = s.asql
      /\ r.ared = s.ared /\ r.what = s.what /\ r.wsql = s.wsql /\ r.red = s.red /\ r.wred = s.wred
      /\ r.mem = s.mem /\ r.sql = s.sql /\ r.safe = s.safe /\ r.open = s.open /\ r.out = s.out
  BY <1>1, <1>2 DEF StoreType
<1> HIDE DEF r
<1>5. Tables(r)
  BY <1>2, <1>4 DEF Tables
<1>6. \A q : Spared(s, r, q)
  BY <1>4 DEF Spared
<1>7. QED BY <1>2, <1>3, <1>4, <1>5, <1>6 DEF Aside

\* What Redis drops to make room for the newest row is not that row.
LEMMA NewestStays ==
  ASSUME NEW s, Tables(s), NEW k \in Keys, s.age # <<>>, s.age[Len(s.age)] = k
  PROVE  k \notin Overflow(Among(s.age, s.red \cup {k}))
<1> DEFINE among == Among(s.age, s.red \cup {k})
<1> SUFFICES ASSUME NEW j \in 1..(Len(among) - Cap), among[j] = k PROVE FALSE
  BY DEF Overflow
<1>1. s.age \in Seq(Keys)
  BY DEF Tables, StoreType
<1>2. among \in Seq(Keys)
  BY <1>1, AmongRange
<1>3. j \in 1..Len(among) /\ j # Len(among)
  BY <1>2, CapIs
<1>4. QED BY <1>1, <1>3, AmongLast DEF Tables

LEMMA RowPushed ==
  ASSUME NEW s, Tables(s), NEW k \in Keys, s.age # <<>>, s.age[Len(s.age)] = k
  PROVE  LET r == Pushed(s, k)
         IN  /\ Tables(r) /\ Aside(s, r) /\ (~s.shared => r = s)
             /\ s.shared => k \in r.red /\ r.wred[k] = s.what[k]
             /\ k \in Range(r.mem) <=> k \in Range(s.mem)
             /\ k \in r.out <=> k \in s.out
             /\ r.what = s.what /\ r.wsql = s.wsql /\ r.sql = s.sql
             /\ r.safe = s.safe /\ r.open = s.open /\ r.age = s.age
             /\ \A q \in Keys \ {k} : Spared(s, r, q)
<1>1. s \in StoreType /\ s.age \in Seq(Keys) /\ s.mem \in Seq(Keys) /\ s.red \subseteq Keys
  BY DEF Tables, StoreType
<1>2. CASE ~s.shared
  <2>1. Pushed(s, k) = s
    BY <1>2 DEF Pushed
  <2>2. QED BY <1>2, <2>1 DEF Aside, Spared
<1>3. CASE s.shared
  <2> DEFINE among == Among(s.age, s.red \cup {k})
             over == Overflow(among)
             red == (s.red \cup {k}) \ over
             f == [s.wred EXCEPT ![k] = s.what[k]]
             m == Among(s.mem, Range(s.mem) \ over)
             o == s.out \cup over
             r == [s EXCEPT !.red = red, !.wred = f, !.mem = m, !.out = o]
  <2>1. k \notin over
    BY NewestStays
  <2>2. Pushed(s, k) = r
    BY <1>3 DEF Pushed
  <2>3. over \subseteq Keys
    <3>1. among \in Seq(Keys)
      BY <1>1, AmongRange
    <3> HIDE DEF among
    <3>2. \A j \in 1..(Len(among) - Cap) : j \in 1..Len(among)
      BY <3>1, CapIs
    <3>3. QED BY <3>1, <3>2 DEF Overflow
  <2> HIDE DEF among
  <2> HIDE DEF over
  <2>4. m \in Seq(Keys) /\ Range(m) = Range(s.mem) \ over
    <3> DEFINE S == Range(s.mem) \ over
    <3>1. Among(s.mem, S) \in Seq(Keys) /\ Range(Among(s.mem, S)) = Range(s.mem) \cap S
      <4> HIDE DEF S
      <4>1. QED BY <1>1, AmongRange
    <3>2. QED BY <3>1
  <2>5. IsInjective(m)
    BY <1>1, AmongInjective DEF Tables
  <2>6. /\ red \in SUBSET Keys /\ k \in red /\ red = (s.red \cup {k}) \ over
        /\ o \in SUBSET Keys /\ o = s.out \cup over
        /\ f \in [Keys -> Contents] /\ f[k] = s.what[k] /\ \A q \in Keys \ {k} : f[q] = s.wred[q]
    BY <1>1, <2>1, <2>3 DEF StoreType
  <2> HIDE DEF m, red, f, o
  <2>7. /\ r \in StoreType /\ r.mem = m /\ r.red = red /\ r.wred = f /\ r.out = o
        /\ r.shared = s.shared /\ r.missed = s.missed /\ r.alias = s.alias /\ r.asql = s.asql
        /\ r.ared = s.ared /\ r.what = s.what /\ r.wsql = s.wsql /\ r.sql = s.sql
        /\ r.safe = s.safe /\ r.open = s.open /\ r.age = s.age
    BY <1>1, <2>4, <2>6 DEF StoreType
  <2> HIDE DEF r
  <2>8. k \in Range(s.age)
    BY <1>1 DEF Range
  <2>9. Tables(r)
    BY <1>3, <2>5, <2>6, <2>7, <2>8 DEF Tables
  <2>10. \A q \in Keys \ {k} : Spared(s, r, q)
    BY <2>4, <2>6, <2>7 DEF Spared
  <2>11. QED BY <1>3, <2>1, <2>2, <2>4, <2>6, <2>7, <2>9, <2>10 DEF Aside
<1>4. QED BY <1>2, <1>3

\* Redis has the row of a session: memory has it then as Redis does, and so has
\* SQLite where that changed the session.
LEMMA RowSynced ==
  ASSUME NEW s, Sound(s), NEW k \in Keys
  PROVE  LET r == Synced(s, k)
         IN  /\ Made(s, r) /\ (~s.shared => r = s) /\ r.alias = s.alias
             /\ k \in Range(s.mem) \cup s.red => k \in Range(r.mem)
             /\ k \in s.red => k \in r.red /\ r.what[k] = s.wred[k] /\ r.wred[k] = s.wred[k]
             /\ k \notin s.red => r = s
             /\ k \in Range(r.mem) => k \in Range(s.mem) \cup s.red
             /\ \A q \in Keys \ {k} : Spared(s, r, q)
             /\ Keeps(s, r, k)
<1>1. Tables(s) /\ s \in StoreType /\ s.red \subseteq Range(s.age) /\ k \in Keys
  BY DEF Sound, Tables
<1>2. CASE ~(s.shared /\ k \in s.red)
  <2>1. Synced(s, k) = s
    BY <1>2 DEF Synced
  <2>2. ~s.shared => s.red = {}
    BY <1>1 DEF Tables
  <2>3. QED BY <1>2, <2>1, <2>2 DEF Made, Spared, Keeps
<1>3. CASE s.shared /\ k \in s.red
  <2> DEFINE m == IF k \in Range(s.mem) THEN s ELSE Inserted(EvictSession(s), k, Fresh)
             x == s.wred[k]
             a == Assigned(m, k, x)
             u == Upserted(a, k)
  <2>1. /\ Tables(m) /\ Aside(s, m) /\ k \in Range(m.mem) /\ m.red = s.red /\ m.wred = s.wred
        /\ m.age = s.age /\ (k \in m.out <=> k \in s.out)
        /\ m.wsql = s.wsql /\ m.safe = s.safe /\ m.sql \subseteq s.sql
        /\ \A q \in Keys \ {k} : Spared(s, m, q)
    <3>1. CASE k \in Range(s.mem)
      BY <1>1, <3>1 DEF Aside, Spared
    <3>2. CASE k \notin Range(s.mem)
      <4> DEFINE e == EvictSession(s)
      <4>1. /\ Tables(e) /\ Aside(s, e) /\ e.red = s.red /\ e.wred = s.wred /\ e.age = s.age
            /\ e.wsql = s.wsql /\ e.safe = s.safe /\ e.sql \subseteq s.sql
            /\ (k \in e.out <=> k \in s.out) /\ \A q : Spared(s, e, q)
        BY <1>1, <3>2, MemoryEvicted
      <4>2. m = Inserted(e, k, Fresh) /\ Fresh \in Contents
        BY <3>2 DEF Contents
      <4> HIDE DEF e, m
      <4>3. LET r == Inserted(e, k, Fresh)
            IN  /\ Tables(r) /\ Aside(e, r) /\ Range(r.mem) = Range(e.mem) \cup {k}
                /\ r.wsql = e.wsql /\ r.red = e.red /\ r.wred = e.wred /\ r.sql = e.sql
                /\ r.age = e.age /\ r.safe = e.safe /\ r.out = e.out
                /\ \A q \in Keys \ {k} : Spared(e, r, q)
        BY <4>1, <4>2, RowInserted
      <4>4. /\ Tables(m) /\ Aside(e, m) /\ Range(m.mem) = Range(e.mem) \cup {k}
            /\ m.wsql = e.wsql /\ m.red = e.red /\ m.wred = e.wred /\ m.sql = e.sql
            /\ m.age = e.age /\ m.safe = e.safe /\ m.out = e.out
            /\ \A q \in Keys \ {k} : Spared(e, m, q)
        BY <4>2, <4>3
      <4>5. \A q \in Keys \ {k} : Spared(s, m, q)
        BY <4>1, <4>4, SparedTwice
      <4>6. QED BY <4>1, <4>4, <4>5 DEF Aside
    <3>3. QED BY <3>1, <3>2
  <2>2. Synced(s, k) = IF m.what[k] = x THEN m ELSE u
    BY <1>3 DEF Synced, Assigned
  <2>3. k \in Range(s.mem) => m = s
    OBVIOUS
  <2>4. x \in Contents /\ x = s.wred[k]
    BY <1>1 DEF StoreType
  <2> HIDE DEF m, x
  <2>5. CASE m.what[k] = x
    <3>1. Keeps(s, m, k)
      <4>1. CASE k \in Range(s.mem)
        BY <2>3, <4>1 DEF Keeps
      <4>2. CASE k \notin Range(s.mem)
        <5>1. Answered(s, k) => Answered(m, k)
          BY <2>1, <4>2 DEF Answered, InMemory, InRedis, Excused, Aside
        <5>2. EqualTiers(s, k) => EqualTiers(m, k)
          BY <2>1 DEF EqualTiers
        <5>3. Loyal(m, k)
          <6>1. k \in Range(m.mem) /\ ~Holds(Fresh, k)
            BY <2>1, CapacityAssumption DEF Holds
          <6>2. m.what[k] = Fresh
            <7>1. Tables(EvictSession(s))
              BY <1>1, MemoryEvicted
            <7>2. Inserted(EvictSession(s), k, Fresh).what[k] = Fresh
              BY <7>1, RowInserted DEF Contents
            <7>3. QED BY <4>2, <7>2 DEF m
          <6>3. QED BY <2>1, <2>4, <2>5, <6>1, <6>2 DEF Loyal, InRedis
        <5>4. QED BY <5>1, <5>2, <5>3 DEF Keeps
      <4>3. QED BY <4>1, <4>2
    <3>2. QED BY <1>3, <2>1, <2>2, <2>4, <2>5, <3>1 DEF Made, Sound, Aside
  <2>6. CASE m.what[k] # x
    <3>1. /\ Tables(a) /\ Aside(m, a) /\ a.mem = m.mem /\ a.what[k] = x
          /\ a.red = m.red /\ a.wred = m.wred /\ a.sql = m.sql /\ a.age = m.age /\ a.out = m.out
          /\ \A q \in Keys \ {k} : Spared(m, a, q)
      BY <2>1, <2>4, RowAssigned
    <3>2. k \in Range(a.age)
      BY <1>1, <1>3, <2>1, <3>1
    <3> HIDE DEF a
    <3>3. /\ Tables(u) /\ Aside(a, u)
          /\ u.sql = a.sql \cup {k} /\ u.safe.sql = a.sql \cup {k} /\ u.wsql[k] = a.what[k]
          /\ u.what = a.what /\ u.red = a.red /\ u.wred = a.wred
          /\ u.mem = a.mem /\ u.age = a.age /\ u.out = a.out
          /\ \A q \in Keys \ {k} : Spared(a, u, q)
      BY <3>1, <3>2, RowUpserted
    <3> HIDE DEF u
    <3>4. \A q \in Keys \ {k} : Spared(s, u, q)
      BY <2>1, <3>1, <3>3, SparedTwice
    <3>5. /\ k \in Range(u.mem) /\ k \in u.sql /\ k \in u.safe.sql /\ k \in u.red
          /\ u.what[k] = x /\ u.wsql[k] = x /\ u.wred[k] = x
          /\ (k \in s.out => k \in u.out) /\ u.missed = s.missed
      BY <1>3, <2>1, <2>4, <3>1, <3>3 DEF Aside
    <3>6. Keeps(s, u, k)
      <4>1. Answered(s, k) => Answered(u, k)
        BY <1>3, <2>4, <3>5 DEF Answered, InMemory, InRedis, Excused
      <4>2. Loyal(u, k)
        BY <3>5 DEF Loyal, InMemory, InRedis
      <4>3. EqualTiers(u, k)
        BY <3>5 DEF EqualTiers
      <4>4. QED BY <4>1, <4>2, <4>3 DEF Keeps
    <3>7. QED BY <1>3, <2>1, <2>2, <2>4, <2>6, <3>1, <3>3, <3>4, <3>5, <3>6 DEF Made, Sound, Aside
  <2>7. QED BY <2>5, <2>6
<1>4. QED BY <1>2, <1>3

\* The row is stamped, written to SQLite and sent to Redis.
LEMMA RowWritten ==
  ASSUME NEW b, NEW k \in Keys, Tables(b),
         ~b.shared => /\ Range(b.mem) = b.sql \cup {k} /\ Range(b.alias) = Range(b.asql)
                      /\ Len(b.alias) <= 2 * Cap
  PROVE  LET r == Pushed(Upserted(Stamped(b, k), k), k)
         IN  /\ Made(b, r) /\ r.what = b.what /\ r.alias = b.alias
             /\ k \in r.sql /\ k \in r.safe.sql /\ r.wsql[k] = b.what[k]
             /\ b.shared => k \in r.red /\ r.wred[k] = b.what[k]
             /\ ~b.shared => r.red = {}
             /\ k \in Range(r.mem) <=> k \in Range(b.mem)
             /\ k \in r.out <=> k \in b.out
             /\ \A q \in Keys \ {k} : Spared(b, r, q)
<1> DEFINE t == Stamped(b, k)
           c == Upserted(t, k)
           r == Pushed(c, k)
<1>1. /\ Tables(t) /\ Aside(b, t) /\ Range(t.age) = Range(b.age) \cup {k}
      /\ t.age # <<>> /\ t.age[Len(t.age)] = k
      /\ t.what = b.what /\ t.mem = b.mem /\ t.sql = b.sql /\ t.out = b.out
      /\ \A q : Spared(b, t, q)
  BY RowStamped
<1> HIDE DEF t
<1>2. /\ Tables(c) /\ Clean(c) /\ Aside(t, c)
      /\ c.sql = t.sql \cup {k} /\ c.safe.sql = t.sql \cup {k} /\ c.wsql[k] = t.what[k]
      /\ c.what = t.what /\ c.mem = t.mem /\ c.age = t.age /\ c.out = t.out
      /\ \A q \in Keys \ {k} : Spared(t, c, q)
  BY <1>1, RowUpserted
<1> HIDE DEF c
<1>3. /\ Tables(r) /\ Aside(c, r) /\ (~c.shared => r = c)
      /\ c.shared => k \in r.red /\ r.wred[k] = c.what[k]
      /\ k \in Range(r.mem) <=> k \in Range(c.mem)
      /\ k \in r.out <=> k \in c.out
      /\ r.what = c.what /\ r.wsql = c.wsql /\ r.sql = c.sql /\ r.safe = c.safe
      /\ \A q \in Keys \ {k} : Spared(c, r, q)
  BY <1>1, <1>2, RowPushed
<1>4. ~b.shared => InStep(c)
  BY <1>1, <1>2 DEF InStep, Aside
<1>5. Pushed(Upserted(Stamped(b, k), k), k) = r
  BY DEF c, t
<1> HIDE DEF r
<1>6. \A q \in Keys \ {k} : Spared(b, r, q)
  BY <1>1, <1>2, <1>3, SparedTwice
<1>7. Made(b, r)
  BY <1>1, <1>2, <1>3, <1>4 DEF Made, Sound, Aside
<1>8. ~b.shared => r.red = {}
  BY <1>7 DEF Made, Sound, Tables
<1>9. QED BY <1>1, <1>2, <1>3, <1>5, <1>6, <1>7, <1>8 DEF Aside

\* A row that memory and Redis lack is made, or read back from SQLite.
LEMMA RowCreated ==
  ASSUME NEW s, Sound(s), NEW k \in Keys, k \notin Range(s.mem), k \notin s.red
  PROVE  LET r == Created(s, k)
         IN  /\ Made(s, r) /\ k \in Range(r.mem) /\ r.alias = s.alias
             /\ \A q \in Keys \ {k} : Spared(s, r, q)
             /\ Keeps(s, r, k)
<1> DEFINE e == EvictSession(s)
<1>1. /\ Tables(e) /\ Aside(s, e) /\ e.wsql = s.wsql /\ e.red = s.red
      /\ Range(e.mem) \subseteq Range(s.mem) /\ e.sql \subseteq s.sql
      /\ Range(s.mem) = s.sql => Range(e.mem) = e.sql
      /\ \A q : Spared(s, e, q)
  BY MemoryEvicted DEF Sound
<1>2. Created(s, k) = IF k \in e.sql THEN [Inserted(e, k, e.wsql[k]) EXCEPT !.open = TRUE]
                      ELSE Pushed(Upserted(Stamped(Inserted(e, k, Fresh), k), k), k)
  BY DEF Created
<1> HIDE DEF e
<1>3. Tables(e) /\ e.wsql[k] \in Contents /\ Fresh \in Contents
  BY <1>1 DEF Contents, Tables, StoreType
<1>4. Answered(s, k) => Excused(s, k)
  BY DEF Answered, InMemory, InRedis
<1>5. Excused(s, k) => Excused(e, k)
  BY <1>1 DEF Spared, Excused
<1>6. CASE k \in e.sql
  <2> DEFINE i == Inserted(e, k, e.wsql[k])
             o == [i EXCEPT !.open = TRUE]
  <2>1. /\ Tables(i) /\ Aside(e, i) /\ Range(i.mem) = Range(e.mem) \cup {k}
        /\ i.red = e.red /\ i.out = e.out /\ i.sql = e.sql
        /\ \A q \in Keys \ {k} : Spared(e, i, q)
    <3> DEFINE x == e.wsql[k]
    <3>1. Tables(e) /\ x \in Contents
      BY <1>3
    <3> HIDE DEF x
    <3>2. LET j == Inserted(e, k, x)
          IN  /\ Tables(j) /\ Aside(e, j) /\ Range(j.mem) = Range(e.mem) \cup {k}
              /\ j.red = e.red /\ j.out = e.out /\ j.sql = e.sql
              /\ \A q \in Keys \ {k} : Spared(e, j, q)
      BY <3>1, RowInserted
    <3>3. QED BY <3>2 DEF x
  <2> HIDE DEF i
  <2>2. i \in StoreType
    BY <2>1 DEF Tables
  <2>3. /\ o \in StoreType /\ o.mem = i.mem /\ o.alias = i.alias /\ o.asql = i.asql /\ o.age = i.age
        /\ o.shared = i.shared /\ o.red = i.red /\ o.what = i.what /\ o.safe = i.safe
        /\ o.sql = i.sql /\ o.wsql = i.wsql /\ o.wred = i.wred /\ o.out = i.out
        /\ o.missed = i.missed /\ o.ared = i.ared
    BY <2>2 DEF StoreType
  <2> HIDE DEF o
  <2>4. s.shared
    BY <1>1, <1>6 DEF Sound, InStep
  <2>5. Made(s, o)
    BY <1>1, <2>1, <2>3, <2>4 DEF Made, Sound, Tables, Aside
  <2>6. \A q \in Keys \ {k} : Spared(i, o, q)
    BY <2>3 DEF Spared
  <2>7. \A q \in Keys \ {k} : Spared(s, o, q)
    BY <1>1, <2>1, <2>6, SparedTwice
  <2>8. k \notin o.red /\ (Excused(e, k) => Excused(o, k))
    BY <1>1, <2>1, <2>3 DEF Excused, Aside
  <2>9. Keeps(s, o, k)
    BY <1>4, <1>5, <2>8 DEF Keeps, Answered, Loyal, EqualTiers, InRedis
  <2>10. Created(s, k) = o
    BY <1>2, <1>6 DEF o, i
  <2>11. QED BY <1>1, <2>1, <2>3, <2>5, <2>7, <2>9, <2>10 DEF Aside
<1>7. CASE k \notin e.sql
  <2> DEFINE b == Inserted(e, k, Fresh)
             r == Pushed(Upserted(Stamped(b, k), k), k)
  <2>1. /\ Tables(b) /\ Aside(e, b) /\ Range(b.mem) = Range(e.mem) \cup {k} /\ b.what[k] = Fresh
        /\ b.red = e.red /\ b.out = e.out /\ b.sql = e.sql
        /\ \A q \in Keys \ {k} : Spared(e, b, q)
    <3> HIDE DEF b, r
    <3>1. LET i == Inserted(e, k, Fresh)
          IN  /\ Tables(i) /\ Aside(e, i) /\ Range(i.mem) = Range(e.mem) \cup {k}
              /\ i.what[k] = Fresh /\ i.red = e.red /\ i.out = e.out /\ i.sql = e.sql
              /\ \A q \in Keys \ {k} : Spared(e, i, q)
      <4>1. Tables(e) /\ Fresh \in Contents
        BY <1>3
      <4>2. QED BY <4>1, RowInserted
    <3>2. QED BY <3>1 DEF b
  <2> HIDE DEF b
  <2>2. ~b.shared => /\ Range(b.mem) = b.sql \cup {k} /\ Range(b.alias) = Range(b.asql)
                     /\ Len(b.alias) <= 2 * Cap
    BY <1>1, <2>1 DEF Sound, InStep, Aside
  <2>3. /\ Made(b, r) /\ r.what = b.what /\ r.alias = b.alias
        /\ r.wsql[k] = b.what[k]
        /\ b.shared => k \in r.red /\ r.wred[k] = b.what[k]
        /\ ~b.shared => r.red = {}
        /\ k \in Range(r.mem) <=> k \in Range(b.mem)
        /\ k \in r.out <=> k \in b.out
        /\ \A q \in Keys \ {k} : Spared(b, r, q)
    BY <2>1, <2>2, RowWritten
  <2> HIDE DEF r
  <2>4. \A q \in Keys \ {k} : Spared(s, r, q)
    BY <1>1, <2>1, <2>3, SparedTwice
  <2>5. Excused(e, k) => Excused(r, k)
    BY <2>1, <2>3 DEF Excused, Made, Aside
  <2>6. ~Holds(Fresh, k)
    BY CapacityAssumption DEF Holds
  <2>7. Keeps(s, r, k)
    <3>1. Answered(s, k) => Answered(r, k)
      BY <1>4, <1>5, <2>5 DEF Answered
    <3>2. Loyal(r, k)
      BY <2>1, <2>3, <2>6 DEF Loyal, InRedis
    <3>3. EqualTiers(r, k)
      BY <2>3 DEF EqualTiers
    <3>4. QED BY <3>1, <3>2, <3>3 DEF Keeps
  <2>8. Created(s, k) = r
    BY <1>2, <1>7 DEF r, b
  <2>9. QED BY <1>1, <2>1, <2>3, <2>4, <2>7, <2>8 DEF Made, Aside
<1>8. QED BY <1>6, <1>7

\* get_or_new: the row is in memory; what any row says of an answer is kept.
LEMMA RowThere ==
  ASSUME NEW s, Sound(s), NEW k \in Keys
  PROVE  LET r == GetOrNew(s, k)
         IN  /\ Made(s, r) /\ k \in Range(r.mem) /\ r.alias = s.alias
             /\ \A q \in Keys : Keeps(s, r, q)
<1> DEFINE g == Synced(s, k)
<1>1. /\ Made(s, g) /\ g.alias = s.alias
      /\ k \in s.red => k \in Range(g.mem)
      /\ k \notin s.red => g = s
      /\ \A q \in Keys \ {k} : Spared(s, g, q)
      /\ Keeps(s, g, k)
  BY RowSynced
<1>2. GetOrNew(s, k) = IF k \in Range(s.mem) THEN s
                       ELSE IF k \in Range(g.mem) THEN g ELSE Created(g, k)
  BY DEF GetOrNew
<1> HIDE DEF g
<1>3. \A q \in Keys : Keeps(s, g, q)
  BY <1>1, SparedKeeps
<1>4. CASE k \in Range(s.mem)
  BY <1>2, <1>4 DEF Made, Keeps
<1>5. CASE k \notin Range(s.mem) /\ k \in Range(g.mem)
  BY <1>1, <1>2, <1>3, <1>5
<1>6. CASE k \notin Range(s.mem) /\ k \notin Range(g.mem)
  <2> DEFINE r == Created(g, k)
  <2>1. /\ Made(g, r) /\ k \in Range(r.mem) /\ r.alias = g.alias
        /\ \A q \in Keys \ {k} : Spared(g, r, q)
        /\ Keeps(g, r, k)
    BY <1>1, <1>6, RowCreated DEF Made
  <2> HIDE DEF r
  <2>2. \A q \in Keys : Keeps(g, r, q)
    BY <2>1, SparedKeeps
  <2>3. \A q \in Keys : Keeps(s, r, q)
    BY <1>3, <2>2, KeepsTwice
  <2>4. QED BY <1>1, <1>2, <1>6, <2>1, <2>3 DEF Made, r
<1>7. QED BY <1>4, <1>5, <1>6

\* What a call keeps of the answer in the row it writes.
Guards(s, r, k) ==
  /\ Answered(s, k) /\ Loyal(s, k) => Answered(r, k) /\ Loyal(r, k)
  /\ EqualTiers(s, k) => EqualTiers(r, k)

\* persist
LEMMA RowPersisted ==
  ASSUME NEW s, Sound(s), NEW k \in Keys
  PROVE  LET r == Persisted(s, k)
         IN  /\ Made(s, r) /\ r.alias = s.alias
             /\ k \notin Range(s.mem) => r = s
             /\ k \in Range(s.mem) =>
                  /\ EqualTiers(r, k) /\ Loyal(r, k)
                  /\ Holds(s.what[k], k) => InMemory(r, k)
             /\ \A q \in Keys \ {k} : Spared(s, r, q)
             /\ Guards(s, r, k)
<1>1. CASE k \notin Range(s.mem)
  <2>1. Persisted(s, k) = s
    BY <1>1 DEF Persisted
  <2>2. QED BY <1>1, <2>1 DEF Made, Spared, Guards
<1>2. CASE k \in Range(s.mem)
  <2> DEFINE r == Pushed(Upserted(Stamped(s, k), k), k)
  <2>1. Tables(s) /\ (~s.shared => /\ Range(s.mem) = s.sql \cup {k} /\ Range(s.alias) = Range(s.asql)
                                   /\ Len(s.alias) <= 2 * Cap)
    BY <1>2 DEF Sound, InStep
  <2>2. /\ Made(s, r) /\ r.what = s.what /\ r.alias = s.alias
        /\ k \in r.sql /\ k \in r.safe.sql /\ r.wsql[k] = s.what[k]
        /\ s.shared => k \in r.red /\ r.wred[k] = s.what[k]
        /\ ~s.shared => r.red = {}
        /\ k \in Range(r.mem) <=> k \in Range(s.mem)
        /\ k \in r.out <=> k \in s.out
        /\ \A q \in Keys \ {k} : Spared(s, r, q)
    BY <2>1, RowWritten
  <2>3. Persisted(s, k) = r
    BY <1>2 DEF Persisted
  <2> HIDE DEF r
  <2>4. s.shared \in BOOLEAN
    BY <2>1 DEF Tables, StoreType
  <2>5. Holds(s.what[k], k) => InMemory(r, k)
    BY <1>2, <2>2, <2>4 DEF InMemory
  <2>6. EqualTiers(r, k)
    BY <2>2, <2>4 DEF EqualTiers
  <2>7. Loyal(r, k)
    BY <2>2, <2>4, <2>5 DEF Loyal, InRedis
  <2>8. Excused(s, k) => Excused(r, k)
    BY <2>2 DEF Excused, Made
  <2>9. Answered(s, k) /\ Loyal(s, k) => Answered(r, k)
    BY <1>2, <2>5, <2>8 DEF Answered, Loyal, InMemory
  <2>10. QED BY <1>2, <2>2, <2>3, <2>5, <2>6, <2>7, <2>9 DEF Guards
<1>3. QED BY <1>1, <1>2

-----------------------------------------------------------------------------
(* The calls on the aliases *)

\* The calls that leave the rows alone.
RowsStay(s, r) ==
  /\ r.shared = s.shared /\ r.what = s.what /\ r.mem = s.mem /\ r.red = s.red
  /\ r.wsql = s.wsql /\ r.wred = s.wred /\ r.sql = s.sql /\ r.out = s.out /\ r.missed = s.missed

LEMMA RowsSpared ==
  ASSUME NEW s, NEW r, RowsStay(s, r), r.safe = s.safe
  PROVE  \A q : Spared(s, r, q)
BY DEF RowsStay, Spared

LEMMA AliasEvicted ==
  ASSUME NEW s, Tables(s)
  PROVE  LET r == EvictAlias(s)
         IN  /\ Tables(r) /\ RowsStay(s, r) /\ r.age = s.age /\ r.safe = s.safe
             /\ \/ Len(s.alias) <= 2 * Cap /\ r = s
                \/ /\ Len(s.alias) > 2 * Cap /\ Len(r.alias) = Len(s.alias) - 1
                   /\ Range(r.alias) = Range(s.alias) \ {Head(s.alias)}
                   /\ Range(r.asql) = Range(s.asql) \ {Head(s.alias)}
<1>1. s \in StoreType /\ s.alias \in Seq(Aliases) /\ s.asql \in Seq(Aliases) /\ Len(s.alias) \in Nat
  BY DEF Tables, StoreType
<1>2. CASE ~(Len(s.alias) > 2 * Cap)
  <2>1. EvictAlias(s) = s
    BY <1>2 DEF EvictAlias
  <2>2. Len(s.alias) <= 2 * Cap
    BY <1>1, <1>2, CapIs
  <2>3. QED BY <2>1, <2>2 DEF RowsStay
<1>3. CASE Len(s.alias) > 2 * Cap
  <2> DEFINE h == Head(s.alias)
             a == Tail(s.alias)
             b == Without(s.asql, h)
             r == [s EXCEPT !.alias = a, !.asql = b, !.open = TRUE]
  <2>1. s.alias # <<>>
    BY <1>1, <1>3, CapIs
  <2>2. /\ a \in Seq(Aliases) /\ Len(a) = Len(s.alias) - 1
        /\ IsInjective(a) /\ Range(a) = Range(s.alias) \ {h}
    BY <1>1, <2>1, TailOnce DEF Tables
  <2>3. b \in Seq(Aliases) /\ IsInjective(b) /\ Range(b) = Range(s.asql) \ {h}
    BY <1>1, WithoutOne DEF Tables
  <2>4. EvictAlias(s) = r
    BY <1>3 DEF EvictAlias
  <2> HIDE DEF a, b, h
  <2>5. /\ r \in StoreType /\ r.alias = a /\ r.asql = b
        /\ r.shared = s.shared /\ r.what = s.what /\ r.mem = s.mem /\ r.red = s.red
        /\ r.sql = s.sql /\ r.age = s.age /\ r.safe = s.safe
        /\ r.wsql = s.wsql /\ r.wred = s.wred /\ r.out = s.out /\ r.missed = s.missed
    BY <1>1, <2>2, <2>3 DEF StoreType
  <2> HIDE DEF r
  <2>6. QED BY <1>3, <2>2, <2>3, <2>4, <2>5 DEF Tables, RowsStay, h
<1>4. QED BY <1>2, <1>3

LEMMA AliasHydrated ==
  ASSUME NEW s, Sound(s), NEW a \in Aliases
  PROVE  LET r == Hydrated(s, a)
         IN  Made(s, r) /\ RowsStay(s, r) /\ (~s.shared => r = s) /\ \A k : Spared(s, r, k)
<1>1. CASE ~(s.shared /\ a \in Range(s.ared) /\ a \notin Range(s.alias))
  <2>1. Hydrated(s, a) = s
    BY <1>1 DEF Hydrated
  <2>2. QED BY <2>1 DEF Made, RowsStay, Spared
<1>2. CASE s.shared /\ a \notin Range(s.alias) /\ a \in Range(s.ared)
  <2> DEFINE q == Append(s.alias, a)
             b == [s EXCEPT !.alias = q]
  <2>1. s \in StoreType /\ s.alias \in Seq(Aliases) /\ IsInjective(s.alias)
    BY DEF Sound, Tables, StoreType
  <2>2. q \in Seq(Aliases) /\ IsInjective(q)
    BY <1>2, <2>1, AppendOne
  <2>3. Hydrated(s, a) = EvictAlias(b)
    BY <1>2 DEF Hydrated
  <2> HIDE DEF q
  <2>4. /\ b \in StoreType /\ b.alias = q /\ b.asql = s.asql /\ b.age = s.age /\ b.safe = s.safe
        /\ b.shared = s.shared /\ b.what = s.what /\ b.mem = s.mem /\ b.red = s.red
        /\ b.sql = s.sql /\ b.wsql = s.wsql /\ b.wred = s.wred /\ b.out = s.out /\ b.missed = s.missed
    BY <2>1, <2>2 DEF StoreType
  <2> HIDE DEF b
  <2>5. Tables(b)
    BY <2>2, <2>4 DEF Sound, Tables
  <2>6. Tables(EvictAlias(b)) /\ RowsStay(b, EvictAlias(b)) /\ EvictAlias(b).safe = b.safe
    BY <2>5, AliasEvicted
  <2>7. RowsStay(s, EvictAlias(b)) /\ EvictAlias(b).safe = s.safe
    BY <2>4, <2>6 DEF RowsStay
  <2>8. \A k : Spared(s, EvictAlias(b), k)
    BY <2>7, RowsSpared
  <2>9. QED BY <1>2, <2>3, <2>6, <2>7, <2>8 DEF Made, Sound, RowsStay
<1>3. QED BY <1>1, <1>2

\* link: the newest alias is in memory and in SQLite, and so is what was there
\* but for the oldest.
LEMMA AliasLinked ==
  ASSUME NEW s, Sound(s), NEW a \in Aliases
  PROVE  LET r == Linked(s, a)
         IN  Made(s, r) /\ \A k : Spared(s, r, k)
<1> DEFINE q == IF a \in Range(s.alias) THEN s.alias ELSE Append(s.alias, a)
           b == [s EXCEPT !.alias = q]
           e == EvictAlias(b)
           n == Renewed(e.asql, a)
           l == [e EXCEPT !.asql = n]
           w == Committed(l)
           d == Renewed(w.ared, a)
           t == IF Len(d) > 2 * Cap THEN Tail(d) ELSE d
           x == [w EXCEPT !.ared = t]
<1>1. s \in StoreType /\ s.alias \in Seq(Aliases) /\ IsInjective(s.alias) /\ Tables(s) /\ Len(s.alias) \in Nat
  BY DEF Sound, Tables, StoreType
<1>2. /\ q \in Seq(Aliases) /\ IsInjective(q) /\ Range(q) = Range(s.alias) \cup {a}
      /\ a \in Range(s.alias) => q = s.alias
      /\ a \notin Range(s.alias) => Len(q) = Len(s.alias) + 1 /\ (Len(s.alias) > 0 => Head(q) # a)
  <2>1. CASE a \in Range(s.alias)
    BY <1>1, <2>1
  <2>2. CASE a \notin Range(s.alias)
    <3>1. /\ q = Append(s.alias, a) /\ q \in Seq(Aliases) /\ IsInjective(q) /\ Range(q) = Range(s.alias) \cup {a}
          /\ Len(q) = Len(s.alias) + 1 /\ \A j \in 1..Len(s.alias) : q[j] = s.alias[j]
      BY <1>1, <2>2, AppendOne
    <3>2. ASSUME Len(s.alias) > 0 PROVE Head(q) # a
      <4>1. 1 \in DOMAIN s.alias /\ Head(q) = s.alias[1]
        BY <1>1, <3>1, <3>2
      <4>2. QED BY <2>2, <4>1 DEF Range
    <3>3. QED BY <2>2, <3>1, <3>2
  <2>3. QED BY <2>1, <2>2
<1>3. Linked(s, a) = IF ~s.shared THEN w ELSE x
  BY DEF Linked
<1> HIDE DEF q
<1>4. /\ b \in StoreType /\ b.alias = q /\ b.asql = s.asql /\ b.age = s.age /\ b.sql = s.sql /\ b.safe = s.safe
      /\ b.shared = s.shared /\ b.what = s.what /\ b.mem = s.mem /\ b.red = s.red
      /\ b.wsql = s.wsql /\ b.wred = s.wred /\ b.out = s.out /\ b.missed = s.missed
  BY <1>1, <1>2 DEF StoreType
<1> HIDE DEF b
<1>5. Tables(b)
  BY <1>1, <1>2, <1>4 DEF Tables
<1>6. /\ Tables(e) /\ RowsStay(b, e) /\ e.age = b.age /\ e.safe = b.safe
      /\ \/ Len(b.alias) <= 2 * Cap /\ e = b
         \/ /\ Len(b.alias) > 2 * Cap /\ Len(e.alias) = Len(b.alias) - 1
            /\ Range(e.alias) = Range(b.alias) \ {Head(b.alias)}
            /\ Range(e.asql) = Range(b.asql) \ {Head(b.alias)}
  BY <1>5, AliasEvicted
<1> HIDE DEF e
<1>7. e \in StoreType /\ e.asql \in Seq(Aliases) /\ IsInjective(e.asql)
  BY <1>6 DEF Tables, StoreType
<1>8. n \in Seq(Aliases) /\ IsInjective(n) /\ Range(n) = Range(e.asql) \cup {a}
  BY <1>7, RenewedOne
<1> HIDE DEF n
<1>9. /\ l \in StoreType /\ l.asql = n /\ l.alias = e.alias /\ l.age = e.age /\ l.sql = e.sql /\ l.safe = e.safe
      /\ l.shared = e.shared /\ l.what = e.what /\ l.mem = e.mem /\ l.red = e.red
      /\ l.wsql = e.wsql /\ l.wred = e.wred /\ l.out = e.out /\ l.missed = e.missed
  BY <1>7, <1>8 DEF StoreType
<1> HIDE DEF l
<1>10. Tables(l)
  BY <1>6, <1>8, <1>9 DEF Tables
<1>11. ~s.shared => InStep(l)
  <2> SUFFICES ASSUME ~s.shared PROVE InStep(l)
    OBVIOUS
  <2>1. InStep(s)
    BY DEF Sound
  <2>2. Range(l.mem) = l.sql
    BY <1>4, <1>6, <1>9, <2>1 DEF InStep, RowsStay
  <2>3. CASE a \in Range(s.alias)
    <3>1. e = b /\ Len(q) <= 2 * Cap
      BY <1>1, <1>2, <1>4, <1>6, <2>1, <2>3, CapIs DEF InStep
    <3>2. QED BY <1>2, <1>4, <1>8, <1>9, <2>1, <2>2, <2>3, <3>1 DEF InStep
  <2>4. CASE a \notin Range(s.alias) /\ e = b /\ Len(b.alias) <= 2 * Cap
    BY <1>2, <1>4, <1>8, <1>9, <2>1, <2>2, <2>4 DEF InStep
  <2>5. CASE /\ a \notin Range(s.alias) /\ Len(b.alias) > 2 * Cap /\ Len(e.alias) = Len(b.alias) - 1
             /\ Range(e.alias) = Range(b.alias) \ {Head(b.alias)}
             /\ Range(e.asql) = Range(b.asql) \ {Head(b.alias)}
    <3>1. Len(s.alias) <= 2 * Cap
      BY <2>1 DEF InStep
    <3>2. Len(e.alias) <= 2 * Cap /\ Len(s.alias) > 0
      BY <1>1, <1>2, <1>4, <2>5, <3>1, CapIs
    <3>3. Head(q) # a
      BY <1>2, <2>5, <3>2
    <3>4. Range(l.alias) = Range(l.asql)
      BY <1>2, <1>4, <1>8, <1>9, <2>1, <2>5, <3>3 DEF InStep
    <3>5. QED BY <1>9, <2>2, <3>2, <3>4 DEF InStep
  <2>6. QED BY <1>6, <2>3, <2>4, <2>5
<1>12. RowsStay(s, l) /\ l.safe = s.safe
  BY <1>4, <1>6, <1>9 DEF RowsStay
<1>13. /\ Tables(w) /\ Clean(w) /\ (InStep(l) => InStep(w)) /\ Aside(l, w)
       /\ \A k : Spared(l, w, k)
  BY <1>10, StoreCommitted
<1> HIDE DEF w
<1>14. t \in Seq(Aliases)
  <2>1. d \in Seq(Aliases) /\ d # <<>>
    BY <1>13, RenewedOne DEF Tables, StoreType
  <2> HIDE DEF d
  <2>2. QED BY <2>1, TailOnce
<1> HIDE DEF t
<1>15. /\ x \in StoreType /\ x.asql = w.asql /\ x.alias = w.alias /\ x.age = w.age
       /\ x.sql = w.sql /\ x.safe = w.safe /\ x.open = w.open
       /\ x.shared = w.shared /\ x.what = w.what /\ x.mem = w.mem /\ x.red = w.red
       /\ x.wsql = w.wsql /\ x.wred = w.wred /\ x.out = w.out /\ x.missed = w.missed
  BY <1>13, <1>14 DEF Tables, StoreType
<1> HIDE DEF x
<1>16. \A k : Spared(s, w, k)
  BY <1>12, <1>13, RowsSpared, SparedTwice
<1>17. \A k : Spared(w, x, k)
  BY <1>15 DEF Spared
<1>18. \A k : Spared(s, x, k)
  BY <1>16, <1>17, SparedTwice
<1>19. Made(s, w)
  BY <1>11, <1>12, <1>13 DEF Made, Sound, RowsStay, Aside
<1>20. s.shared => Made(s, x)
  BY <1>13, <1>15, <1>19 DEF Made, Sound, Tables
<1>21. QED BY <1>3, <1>16, <1>18, <1>19, <1>20

\* drop_if_fresh takes the row and its aliases from every tier.
LEMMA RowDropped ==
  ASSUME NEW s, Sound(s), NEW k \in Keys
  PROVE  LET r == DropIfFresh(s, k)
         IN  Made(s, r) /\ Guards(s, r, k) /\ \A q \in Keys \ {k} : Keeps(s, r, q)
<1> DEFINE known == k \in Range(s.mem) /\ s.what[k] \in Aliases
           g == IF known THEN s ELSE Synced(s, k)
           S == {a \in Aliases : Target(a) # k}
           m == Without(g.mem, k)
           al == Among(g.alias, S)
           as == Among(g.asql, S)
           ar == Among(g.ared, S)
           q0 == g.sql \ {k}
           d == g.red \ {k}
           b == [g EXCEPT !.mem = m, !.sql = q0, !.red = d, !.alias = al, !.asql = as, !.ared = ar]
           c == Committed(b)
<1>1. Made(s, g) /\ \A q \in Keys : Keeps(s, g, q)
  <2>1. CASE known
    BY <2>1 DEF Made, Keeps
  <2>2. CASE ~known
    <3>1. LET r == Synced(s, k)
          IN  Made(s, r) /\ (\A q \in Keys \ {k} : Spared(s, r, q)) /\ Keeps(s, r, k)
      BY RowSynced
    <3>2. QED BY <2>2, <3>1, SparedKeeps
  <2>3. QED BY <2>1, <2>2
<1>2. DropIfFresh(s, k) = IF k \notin Range(g.mem) \/ g.what[k] \in Aliases THEN g ELSE c
  BY DEF DropIfFresh
<1> HIDE DEF g, known
<1>3. /\ g \in StoreType /\ g.mem \in Seq(Keys) /\ g.alias \in Seq(Aliases) /\ g.asql \in Seq(Aliases)
      /\ g.ared \in Seq(Aliases) /\ q0 \in SUBSET Keys /\ d \in SUBSET Keys
      /\ IsInjective(g.mem) /\ IsInjective(g.alias) /\ IsInjective(g.asql)
  BY <1>1 DEF Made, Sound, Tables, StoreType
<1> HIDE DEF S
<1>4. /\ m \in Seq(Keys) /\ IsInjective(m) /\ Range(m) = Range(g.mem) \ {k}
      /\ al \in Seq(Aliases) /\ Range(al) = Range(g.alias) \cap S /\ Len(al) <= Len(g.alias)
      /\ as \in Seq(Aliases) /\ Range(as) = Range(g.asql) \cap S
      /\ ar \in Seq(Aliases) /\ IsInjective(al) /\ IsInjective(as)
  BY <1>3, WithoutOne, AmongRange, AmongInjective
<1>5. q0 = g.sql \ {k} /\ d = g.red \ {k}
  OBVIOUS
<1> HIDE DEF m, al, as, ar, q0, d
<1>6. /\ b \in StoreType /\ b.mem = m /\ b.sql = q0 /\ b.red = d /\ b.alias = al /\ b.asql = as
      /\ b.age = g.age /\ b.shared = g.shared /\ b.what = g.what /\ b.safe = g.safe
      /\ b.wsql = g.wsql /\ b.wred = g.wred /\ b.out = g.out /\ b.missed = g.missed
  BY <1>3, <1>4 DEF StoreType
<1> HIDE DEF b
<1>7. Tables(b)
  BY <1>1, <1>4, <1>5, <1>6 DEF Made, Sound, Tables
<1>8. ~b.shared => InStep(b)
  <2> SUFFICES ASSUME ~b.shared PROVE InStep(b)
    OBVIOUS
  <2>1. InStep(g)
    BY <1>1, <1>6 DEF Made, Sound
  <2>2. Len(al) <= 2 * Cap
    <3>1. Len(al) \in Nat /\ Len(g.alias) \in Nat /\ 2 * Cap \in Nat
      BY <1>3, <1>4, CapIs
    <3>2. QED BY <1>4, <2>1, <3>1 DEF InStep
  <2>3. QED BY <1>4, <1>5, <1>6, <2>1, <2>2 DEF InStep
<1>9. /\ Tables(c) /\ Clean(c) /\ (InStep(b) => InStep(c)) /\ Aside(b, c)
      /\ c.what = b.what /\ c.red = b.red /\ c.out = b.out
      /\ \A q : Spared(b, c, q)
  BY <1>7, StoreCommitted
<1> HIDE DEF c
<1>10. Made(g, c)
  BY <1>6, <1>8, <1>9 DEF Made, Sound, Aside
<1>11. \A q \in Keys \ {k} : Keeps(g, c, q)
  <2>1. \A q \in Keys \ {k} : Spared(g, b, q)
    BY <1>4, <1>5, <1>6 DEF Spared
  <2>2. QED BY <1>9, <2>1, SparedTwice, SparedKeeps
<1>12. CASE k \notin Range(g.mem) \/ g.what[k] \in Aliases
  <2>1. DropIfFresh(s, k) = g
    BY <1>2, <1>12
  <2>2. QED BY <1>1, <2>1 DEF Keeps, Guards
<1>13. CASE ~(k \notin Range(g.mem) \/ g.what[k] \in Aliases)
  <2>1. DropIfFresh(s, k) = c
    BY <1>2, <1>13
  <2>2. Answered(g, k) /\ Loyal(g, k) => Excused(g, k)
    BY <1>13 DEF Answered, Loyal, InMemory, Holds
  <2>3. Excused(g, k) => Excused(c, k)
    BY <1>6, <1>9 DEF Excused, Aside
  <2>4. k \notin c.red
    BY <1>5, <1>6, <1>9
  <2>5. Loyal(c, k) /\ EqualTiers(c, k)
    BY <2>4 DEF Loyal, EqualTiers, InRedis
  <2>6. Guards(s, c, k)
    BY <1>1, <2>2, <2>3, <2>5 DEF Guards, Keeps, Answered
  <2>7. \A q \in Keys \ {k} : Keeps(s, c, q)
    BY <1>1, <1>11, KeepsTwice
  <2>8. QED BY <1>1, <1>10, <2>1, <2>6, <2>7 DEF Made
<1>14. QED BY <1>12, <1>13

-----------------------------------------------------------------------------
(* The requests *)

Turn(x) == IF x.pc = "idle" THEN 0 ELSE 1

\* Every answer and every request in flight has taken a turn.
Counted ==
  /\ cl \in [Clients -> RequestType] /\ turns \in 0..MaxTurns
  /\ \A c \in Clients : cl[c].answered + Turn(cl[c]) <= turns

\* The store has the answers of these rows, or has let them go as it may.
Known(s, rows) == \A k \in rows : Answered(s, k) /\ (k = ConvKey => Loyal(s, k))

\* Without Redis the row of an answer is in memory until the answer is written.
Recorded ==
  ~store.shared =>
    /\ store.missed = {}
    /\ \A c \in Clients : cl[c].pc = "saved" =>
         Key(c) \in Range(store.mem) /\ store.what[Key(c)] = Answer(c)

Stored ==
  /\ Sound(store) /\ Counted /\ Recorded
  /\ Known(store, Recalled(cl)) /\ EqualTiers(store, ConvKey)

LEMMA RequestIs ==
  ASSUME Counted, NEW c \in Clients
  PROVE  /\ cl[c] \in RequestType /\ cl[c].answered \in Nat /\ cl \in [Clients -> RequestType]
         /\ cl[c].answered + Turn(cl[c]) <= turns /\ turns \in 0..MaxTurns /\ MaxTurns \in Nat
         /\ cl[c].pc # "idle" => cl[c].answered + 1 <= turns
         /\ cl[c].answered <= turns
<1>1. MaxTurns \in Nat
  BY CapacityAssumption
<1>2. cl[c] \in RequestType /\ turns \in Nat /\ cl[c].answered + Turn(cl[c]) <= turns
  BY <1>1 DEF Counted
<1>3. cl[c].answered \in Nat /\ Turn(cl[c]) \in {0, 1}
  BY <1>1, <1>2 DEF RequestType, Turn
<1>4. QED BY <1>1, <1>2, <1>3 DEF Counted, Turn

\* The row of a request is that of the conversation, or a chain's next one, which
\* no answer has yet.
LEMMA OwnRow ==
  ASSUME Counted, NEW c \in Clients, cl[c].answered + 1 <= MaxTurns
  PROVE  /\ Key(c) \in Keys /\ Answer(c) \in Aliases /\ Holds(Answer(c), Key(c))
         /\ c \in ConvClients => Key(c) = ConvKey
         /\ c \in ChainClients => Key(c) = Answer(c) /\ Key(c) # ConvKey
         /\ c \in ChainClients /\ cl[c].pc # "link" => Key(c) \notin Recalled(cl)
         /\ c \in ChainClients \/ c \in ConvClients
<1>1. cl[c].answered + 1 \in 1..MaxTurns
  BY RequestIs
<1>2. c \in ChainClients => c \notin ConvClients /\ c # Conv
  BY CapacityAssumption
<1>3. c \in ChainClients \/ c \in ConvClients
  BY DEF Clients
<1>4. Answer(c) = <<c, cl[c].answered + 1>> /\ Answer(c) \in Aliases
  BY <1>1 DEF Answer, Aliases
<1>5. Key(c) = KeyOf(c, cl[c].answered + 1)
  BY <1>4 DEF Key, Target
<1>6. Key(c) \in Keys /\ (c \in ConvClients => Key(c) = ConvKey) /\ (c \in ChainClients => Key(c) = Answer(c) /\ Key(c) # ConvKey)
  BY <1>1, <1>2, <1>3, <1>4, <1>5 DEF KeyOf, Keys, ConvKey
<1>7. ASSUME c \in ChainClients, cl[c].pc # "link", Key(c) \in Recalled(cl) PROVE FALSE
  <2>1. PICK d \in Clients : \/ Key(c) = KeyOf(d, cl[d].answered)
                             \/ cl[d].pc = "link" /\ Key(c) = KeyOf(d, cl[d].answered + 1)
    BY <1>7 DEF Recalled
  <2>2. d \notin ConvClients
    BY <1>2, <1>4, <1>6, <1>7, <2>1 DEF KeyOf
  <2>3. d = c
    BY <1>4, <1>6, <1>7, <2>1, <2>2 DEF KeyOf
  <2>4. <<c, cl[c].answered + 1>> = <<c, cl[c].answered>>
    BY <1>4, <1>6, <1>7, <2>1, <2>2, <2>3 DEF KeyOf
  <2>5. cl[c].answered + 1 # cl[c].answered
    BY RequestIs
  <2>6. QED BY <2>4, <2>5
<1>8. QED BY <1>3, <1>4, <1>6, <1>7 DEF Holds, Key

LEMMA RecalledKeys == ASSUME Counted PROVE Recalled(cl) \subseteq Keys
<1> SUFFICES ASSUME NEW k \in Recalled(cl) PROVE k \in Keys
  OBVIOUS
<1>1. PICK d \in Clients : \/ cl[d].answered > 0 /\ k = KeyOf(d, cl[d].answered)
                           \/ cl[d].pc = "link" /\ k = KeyOf(d, cl[d].answered + 1)
  BY DEF Recalled
<1>2. cl[d].answered > 0 => cl[d].answered \in 1..MaxTurns
  BY RequestIs
<1>3. cl[d].pc = "link" => cl[d].answered + 1 \in 1..MaxTurns
  BY RequestIs
<1>4. d \in ChainClients \/ d \in ConvClients
  BY DEF Clients
<1>5. QED BY <1>1, <1>2, <1>3, <1>4 DEF KeyOf, Keys

-----------------------------------------------------------------------------
(* The steps *)

\* What is forgotten at the end of a step is nothing that matters.
LEMMA StepKept ==
  ASSUME NEW s, Sound(s), NEW new, Becomes(s, new)
  PROVE  /\ Sound(store') /\ store'.shared = s.shared /\ store'.missed \subseteq s.missed
         /\ Range(store'.mem) = Range(s.mem)
         /\ \A k \in Range(s.mem) : store'.what[k] = s.what[k]
         /\ Known(s, Recalled(new)) => Known(store', Recalled(new))
         /\ EqualTiers(s, ConvKey) => EqualTiers(store', ConvKey)
         /\ cl' = new
<1> DEFINE used == Range(s.mem) \cup s.red \cup s.sql \cup s.safe.sql
           asked == {KeyOf(c, new[c].answered + 1) : c \in {d \in Clients : new[d].pc /= "idle"}}
           a == Among(s.age, used)
           w == Only(s.what, Range(s.mem))
           v == Only(s.wsql, s.sql \cup s.safe.sql)
           u == Only(s.wred, s.red)
           b == [k \in Keys |-> IF k \in asked THEN s.born[k] ELSE 0]
           o == s.out \cap Recalled(new)
           m == s.missed \cap Recalled(new)
           r == [s EXCEPT !.age = a, !.what = w, !.wsql = v, !.wred = u, !.born = b,
                          !.out = o, !.missed = m]
<1>1. /\ s \in StoreType /\ s.age \in Seq(Keys) /\ IsInjective(s.age) /\ s.mem \in Seq(Keys)
      /\ s.sql \subseteq Keys /\ s.red \subseteq Keys /\ s.safe.sql \subseteq Keys
  BY DEF Sound, Tables, StoreType
<1>2. store' = r /\ cl' = new
  BY DEF Becomes
<1>3. s.red \cup s.sql \cup s.safe.sql \subseteq used /\ Range(s.mem) \subseteq Keys
  BY <1>1 DEF Range
<1> HIDE DEF used, asked
<1>4. a \in Seq(Keys) /\ IsInjective(a) /\ Range(a) = Range(s.age) \cap used
  BY <1>1, AmongRange, AmongInjective
<1>5. /\ w \in [Keys -> Contents] /\ v \in [Keys -> Contents] /\ u \in [Keys -> Contents]
      /\ b \in [Keys -> Nat] /\ o \in SUBSET Keys /\ m \in SUBSET Keys
      /\ o = s.out \cap Recalled(new) /\ m = s.missed \cap Recalled(new)
  BY <1>1 DEF StoreType, Only, Contents
<1>6. /\ \A k \in Range(s.mem) : w[k] = s.what[k]
      /\ \A k \in s.sql \cup s.safe.sql : v[k] = s.wsql[k]
      /\ \A k \in s.red : u[k] = s.wred[k]
  BY <1>1, <1>3 DEF Only
<1> HIDE DEF a, w, v, u, b, o, m
<1>7. /\ r \in StoreType /\ r.age = a /\ r.what = w /\ r.wsql = v /\ r.wred = u /\ r.out = o
      /\ r.missed = m /\ r.mem = s.mem /\ r.alias = s.alias /\ r.sql = s.sql
      /\ r.asql = s.asql /\ r.safe = s.safe /\ r.open = s.open /\ r.shared = s.shared /\ r.red = s.red
  BY <1>1, <1>4, <1>5 DEF StoreType
<1> HIDE DEF r
<1>8. Sound(r)
  <2>1. Tables(r)
    BY <1>3, <1>4, <1>7 DEF Sound, Tables
  <2>2. ~r.shared => InStep(r) /\ Clean(r)
    BY <1>7 DEF Sound, InStep, Clean
  <2>3. QED BY <2>1, <2>2 DEF Sound
<1>9. \A k : InMemory(s, k) => InMemory(r, k)
  BY <1>6, <1>7 DEF InMemory
<1>10. \A k : InRedis(s, k) <=> InRedis(r, k)
  BY <1>6, <1>7 DEF InRedis
<1>11. \A k \in Recalled(new) : Excused(s, k) => Excused(r, k)
  BY <1>5, <1>7 DEF Excused
<1>12. Known(s, Recalled(new)) => Known(r, Recalled(new))
  <2>1. \A k \in Recalled(new) : Answered(s, k) => Answered(r, k)
    BY <1>9, <1>10, <1>11 DEF Answered
  <2>2. \A k \in Recalled(new) : Loyal(s, k) => Loyal(r, k)
    BY <1>7, <1>9, <1>10, <1>11 DEF Loyal
  <2>3. QED BY <2>1, <2>2 DEF Known
<1>13. EqualTiers(s, ConvKey) => EqualTiers(r, ConvKey)
  BY <1>6, <1>7 DEF EqualTiers
<1>14. QED BY <1>2, <1>5, <1>6, <1>7, <1>8, <1>12, <1>13

LEMMA OneCounted ==
  ASSUME Counted, NEW c \in Clients, NEW x \in RequestType, cl' = [cl EXCEPT ![c] = x],
         turns' \in turns..MaxTurns, x.answered + Turn(x) <= turns'
  PROVE  Counted' /\ cl'[c] = x /\ \A d \in Clients \ {c} : cl'[d] = cl[d]
<1>1. cl \in [Clients -> RequestType] /\ turns \in Nat /\ turns <= turns' /\ turns' \in 0..MaxTurns
  BY CapacityAssumption DEF Counted
<1>2. cl' \in [Clients -> RequestType] /\ cl'[c] = x /\ \A d \in Clients \ {c} : cl'[d] = cl[d]
  BY <1>1
<1>3. ASSUME NEW d \in Clients \ {c} PROVE cl'[d].answered + Turn(cl'[d]) <= turns'
  <2>1. cl[d].answered + Turn(cl[d]) <= turns /\ cl[d].answered \in Nat /\ Turn(cl[d]) \in {0, 1}
    BY RequestIs DEF Turn
  <2>2. cl[d].answered + Turn(cl[d]) <= turns'
    BY <1>1, <2>1
  <2>3. QED BY <1>2, <2>2
<1>4. QED BY <1>1, <1>2, <1>3 DEF Counted

\* A call of the request of c that writes no answer.
LEMMA CallKept ==
  ASSUME Stored, NEW c \in Clients, Runs(c), NEW s, Made(store, s),
         \A k \in Keys : \/ Keeps(store, s, k)
                         \/ k = ConvKey /\ Guards(store, s, k)
                         \/ k # ConvKey /\ k \notin Recalled(cl),
         NEW x \in RequestType, Becomes(s, [cl EXCEPT ![c] = x]),
         x.pc # "link",
         x.answered = cl[c].answered \/ (cl[c].pc = "link" /\ x.answered = cl[c].answered + 1),
         turns' \in turns..MaxTurns, x.answered + Turn(x) <= turns',
         x.pc = "saved" => /\ x.answered = cl[c].answered
                           /\ Key(c) \in Range(s.mem) /\ s.what[Key(c)] = Answer(c)
  PROVE  Stored'
<1> DEFINE new == [cl EXCEPT ![c] = x]
<1>1. Sound(store) /\ Counted /\ cl \in [Clients -> RequestType]
  BY DEF Stored, Counted
<1>2. new[c] = x /\ \A d \in Clients \ {c} : new[d] = cl[d]
  BY <1>1
<1>3. cl' = new
  BY DEF Becomes
<1>4. Becomes(s, new)
  OBVIOUS
<1>5. Counted'
  BY <1>1, <1>3, OneCounted
<1> HIDE DEF new
<1>6. Recalled(new) \subseteq Recalled(cl)
  <2> SUFFICES ASSUME NEW k \in Recalled(new) PROVE k \in Recalled(cl)
    OBVIOUS
  <2>1. PICK d \in Clients : \/ new[d].answered > 0 /\ k = KeyOf(d, new[d].answered)
                             \/ new[d].pc = "link" /\ k = KeyOf(d, new[d].answered + 1)
    BY DEF Recalled
  <2>2. CASE d = c
    BY <1>2, <2>1, <2>2 DEF Recalled
  <2>3. CASE d # c
    BY <1>2, <2>1, <2>3 DEF Recalled
  <2>4. QED BY <2>2, <2>3
<1>7. Known(s, Recalled(new))
  <2> SUFFICES ASSUME NEW k \in Recalled(new) PROVE Answered(s, k) /\ (k = ConvKey => Loyal(s, k))
    BY DEF Known
  <2>1. k \in Recalled(cl) /\ k \in Keys
    BY <1>1, <1>6, RecalledKeys
  <2>2. Answered(store, k) /\ (k = ConvKey => Loyal(store, k))
    BY <2>1 DEF Stored, Known
  <2>3. QED BY <2>1, <2>2 DEF Keeps, Guards
<1>8. EqualTiers(s, ConvKey)
  BY DEF Stored, Keeps, Guards, ConvKey, Keys
<1>9. /\ Sound(store') /\ store'.shared = s.shared /\ store'.missed \subseteq s.missed
      /\ Range(store'.mem) = Range(s.mem)
      /\ \A k \in Range(s.mem) : store'.what[k] = s.what[k]
      /\ Known(store', Recalled(new)) /\ EqualTiers(store', ConvKey)
  BY <1>4, <1>7, <1>8, StepKept DEF Made
<1>10. Recorded'
  <2> SUFFICES ASSUME ~store'.shared
               PROVE  /\ store'.missed = {}
                      /\ \A d \in Clients : cl'[d].pc = "saved" =>
                           Key(d)' \in Range(store'.mem) /\ store'.what[Key(d)'] = Answer(d)'
    BY DEF Recorded
  <2>1. ~store.shared /\ store.missed = {} /\ s.missed = {}
    BY <1>9 DEF Stored, Recorded, Made
  <2>2. store'.missed = {}
    BY <1>9, <2>1
  <2>3. ASSUME NEW d \in Clients, cl'[d].pc = "saved"
        PROVE  Key(d)' \in Range(store'.mem) /\ store'.what[Key(d)'] = Answer(d)'
    <3>1. d = c
      <4>1. d # c => ~Busy(d) /\ cl[d].pc = "saved"
        BY <1>2, <1>3, <2>1, <2>3 DEF Runs
      <4>2. QED BY <4>1 DEF Busy
    <3>2. x.pc = "saved" /\ cl'[c].answered = cl[c].answered
      BY <1>2, <1>3, <2>3, <3>1
    <3>3. Answer(d)' = Answer(c) /\ Key(d)' = Key(c)
      BY <3>1, <3>2 DEF Answer, Key
    <3>4. QED BY <1>9, <3>2, <3>3
  <2>4. QED BY <2>2, <2>3
<1>11. QED BY <1>3, <1>5, <1>9, <1>10 DEF Stored

\* A call on the row of the request.
LEMMA OwnCall ==
  ASSUME Stored, NEW c \in Clients, Runs(c), cl[c].pc \notin {"idle", "link"},
         NEW s, Made(store, s), \A k \in Keys \ {Key(c)} : Keeps(store, s, k),
         Key(c) = ConvKey => Guards(store, s, Key(c)),
         NEW x \in RequestType, Becomes(s, [cl EXCEPT ![c] = x]),
         x.pc # "link", x.answered = cl[c].answered, turns' = turns,
         x.pc = "saved" => Key(c) \in Range(s.mem) /\ s.what[Key(c)] = Answer(c)
  PROVE  Stored'
<1>1. Counted /\ cl[c].answered + 1 <= turns /\ turns \in 0..MaxTurns /\ MaxTurns \in Nat
      /\ cl[c].answered \in Nat /\ turns' \in turns..MaxTurns
  BY RequestIs DEF Stored
<1>2. cl[c].answered + 1 <= MaxTurns
  BY <1>1
<1>3. Key(c) = ConvKey \/ (Key(c) # ConvKey /\ Key(c) \notin Recalled(cl))
  BY <1>1, <1>2, OwnRow
<1>4. \A k \in Keys : \/ Keeps(store, s, k)
                      \/ k = ConvKey /\ Guards(store, s, k)
                      \/ k # ConvKey /\ k \notin Recalled(cl)
  BY <1>3
<1>5. x.answered + Turn(x) <= turns'
  BY <1>1 DEF Turn
<1>6. x.pc = "saved" => /\ x.answered = cl[c].answered
                         /\ Key(c) \in Range(s.mem) /\ s.what[Key(c)] = Answer(c)
  OBVIOUS
<1>7. turns' \in turns..MaxTurns
  BY <1>1
<1>8. x.answered = cl[c].answered \/ (cl[c].pc = "link" /\ x.answered = cl[c].answered + 1)
  OBVIOUS
<1>9. QED BY <1>4, <1>5, <1>6, <1>7, <1>8, CallKept, ZenonT(30)

LEMMA ToIs ==
  ASSUME Counted, NEW c \in Clients, NEW pc \in Stages
  PROVE  \E x \in RequestType : /\ To(c, pc) = [cl EXCEPT ![c] = x]
                                /\ x.answered = cl[c].answered /\ x.pc = pc
<1> DEFINE y == IF pc = "run" THEN Fresh ELSE cl[c].resume
           z == IF pc = "run" THEN FALSE ELSE cl[c].stale
           x == [cl[c] EXCEPT !.pc = pc, !.resume = y, !.stale = z]
<1>1. cl[c] \in RequestType /\ cl \in [Clients -> RequestType]
  BY RequestIs
<1>2. y \in {Fresh} \cup Aliases /\ z \in BOOLEAN
  BY <1>1 DEF RequestType
<1>3. To(c, pc) = [cl EXCEPT ![c] = x]
  BY <1>1 DEF To
<1> HIDE DEF y, z
<1>4. x \in RequestType /\ x.answered = cl[c].answered /\ x.pc = pc
  BY <1>1, <1>2 DEF RequestType
<1>5. QED BY <1>3, <1>4

\* The same for a call after which the request goes on to the stage pc.
LEMMA ToKept ==
  ASSUME Stored, NEW c \in Clients, Runs(c), cl[c].pc \notin {"idle", "link"},
         NEW s, Made(store, s), \A k \in Keys \ {Key(c)} : Keeps(store, s, k),
         Key(c) = ConvKey => Guards(store, s, Key(c)),
         NEW pc \in Stages \ {"idle", "link"}, Becomes(s, To(c, pc)), turns' = turns,
         pc = "saved" => Key(c) \in Range(s.mem) /\ s.what[Key(c)] = Answer(c)
  PROVE  Stored'
<1>1. PICK x \in RequestType : /\ To(c, pc) = [cl EXCEPT ![c] = x]
                               /\ x.answered = cl[c].answered /\ x.pc = pc
  BY ToIs DEF Stored
<1>2. Becomes(s, [cl EXCEPT ![c] = x])
  BY <1>1
<1>3. x.pc # "link" /\ x.answered = cl[c].answered /\ (x.pc = "saved" => pc = "saved")
  BY <1>1
<1>4. QED BY <1>2, <1>3, OwnCall

\* An assignment to the session in memory loses no answer that memory has.
LEMMA AssignedGuards ==
  ASSUME NEW g, Tables(g), NEW k \in Keys, NEW x \in Contents,
         Holds(x, k) \/ (k \in Range(g.mem) /\ ~Holds(g.what[k], k))
  PROVE  Guards(g, Assigned(g, k, x), k)
<1> DEFINE r == Assigned(g, k, x)
<1>1. /\ Aside(g, r) /\ r.mem = g.mem /\ r.what[k] = x /\ r.wsql = g.wsql /\ r.red = g.red
      /\ r.wred = g.wred /\ r.sql = g.sql /\ r.safe = g.safe /\ r.out = g.out
  BY RowAssigned
<1> HIDE DEF r
<1>2. CASE Holds(x, k)
  <2>1. InMemory(g, k) => InMemory(r, k)
    BY <1>1, <1>2 DEF InMemory
  <2>2. (InRedis(g, k) <=> InRedis(r, k)) /\ (Excused(g, k) <=> Excused(r, k))
    BY <1>1 DEF InRedis, Excused, Aside
  <2>3. EqualTiers(g, k) => EqualTiers(r, k)
    BY <1>1 DEF EqualTiers
  <2>4. Guards(g, r, k)
    BY <1>1, <2>1, <2>2, <2>3 DEF Guards, Answered, Loyal
  <2>5. QED BY <2>4 DEF r
<1>3. CASE k \in Range(g.mem) /\ ~Holds(g.what[k], k)
  <2>1. Answered(g, k) /\ Loyal(g, k) => Excused(g, k)
    BY <1>3 DEF Answered, Loyal, InMemory
  <2>2. Excused(g, k) => Excused(r, k)
    BY <1>1 DEF Excused, Aside
  <2>3. EqualTiers(g, k) => EqualTiers(r, k)
    BY <1>1 DEF EqualTiers
  <2>4. Excused(r, k) => Answered(r, k) /\ Loyal(r, k)
    BY DEF Answered, Loyal
  <2>5. Guards(g, r, k)
    BY <2>1, <2>2, <2>3, <2>4 DEF Guards
  <2>6. QED BY <2>5 DEF r
<1>4. QED BY <1>2, <1>3

\* get_or_new, and an assignment to its session.
LEMMA ThereAssigned ==
  ASSUME NEW s, Sound(s), NEW k \in Keys, NEW x \in Contents
  PROVE  LET g == GetOrNew(s, k)
             r == Assigned(g, k, x)
         IN  /\ Made(s, r) /\ k \in Range(r.mem) /\ r.what[k] = x
             /\ \A q \in Keys \ {k} : Keeps(s, r, q)
             /\ Holds(x, k) \/ ~Holds(g.what[k], k) => Guards(s, r, k)
<1> DEFINE g == GetOrNew(s, k)
           r == Assigned(g, k, x)
<1>1. Made(s, g) /\ k \in Range(g.mem) /\ \A q \in Keys : Keeps(s, g, q)
  BY RowThere
<1> HIDE DEF g
<1>2. Sound(g) /\ Tables(g)
  BY <1>1 DEF Made, Sound
<1>3. /\ Aside(g, r) /\ r.mem = g.mem /\ r.what[k] = x /\ (Sound(g) => Sound(r))
      /\ \A q \in Keys \ {k} : Spared(g, r, q)
  BY <1>2, RowAssigned
<1>4. Holds(x, k) \/ ~Holds(g.what[k], k) => Guards(g, r, k)
  BY <1>1, <1>2, AssignedGuards
<1> HIDE DEF r
<1>5. Guards(g, r, k) => Guards(s, r, k)
  BY <1>1 DEF Guards, Keeps
<1>6. \A q \in Keys \ {k} : Keeps(s, r, q)
  BY <1>1, <1>3, SparedKeeps, KeepsTwice
<1>7. QED BY <1>1, <1>2, <1>3, <1>4, <1>5, <1>6 DEF Made, Aside, g, r

LEMMA KeepsGuards == ASSUME NEW s, NEW r, NEW k, Keeps(s, r, k) PROVE Guards(s, r, k)
BY DEF Keeps, Guards

\* What the actions of a request under way have in common.
LEMMA UnderWay ==
  ASSUME Stored, NEW c \in Clients, NEW pc \in Stages \ {"idle"}, Calls(c, pc)
  PROVE  /\ Runs(c) /\ cl[c].pc = pc /\ cl[c].pc # "idle" /\ turns' = turns /\ UNCHANGED resp
         /\ Sound(store) /\ Tables(store) /\ Counted /\ cl[c].answered + 1 <= MaxTurns
         /\ Key(c) \in Keys /\ Answer(c) \in Aliases /\ Holds(Answer(c), Key(c))
         /\ cl[c] \in RequestType
<1>1. Runs(c) /\ cl[c].pc = pc /\ cl[c].pc # "idle" /\ turns' = turns /\ UNCHANGED resp
  BY DEF Calls
<1>2. Sound(store) /\ Tables(store) /\ Counted
  BY DEF Stored, Sound
<1>3. cl[c].answered + 1 <= MaxTurns /\ cl[c] \in RequestType
  BY <1>1, <1>2, RequestIs
<1>4. QED BY <1>1, <1>2, <1>3, OwnRow

LEMMA RowKept ==
  ASSUME Stored, NEW c \in Clients, Row(c)
  PROVE  Stored'
<1> DEFINE k == Key(c)
           g == GetOrNew(store, k)
           x == cl[c].resume
           s == Assigned(g, k, x)
<1>1. Calls(c, "row")
  BY DEF Row
<1>2. /\ Runs(c) /\ cl[c].pc = "row" /\ turns' = turns /\ Sound(store) /\ k \in Keys /\ Counted
      /\ cl[c] \in RequestType /\ cl[c].answered + 1 <= MaxTurns
  BY <1>1, UnderWay DEF Stages
<1>3. Made(store, g) /\ \A q \in Keys : Keeps(store, g, q)
  BY <1>2, RowThere
<1>4. x \in Contents
  BY <1>2 DEF RequestType, Contents
<1>5. Made(store, s) /\ \A q \in Keys \ {k} : Keeps(store, s, q)
  BY <1>2, <1>4, ThereAssigned
<1>6. \/ c \in ChainClients /\ Becomes(s, To(c, "copied"))
      \/ Becomes(g, To(c, "lock"))
  BY DEF Row
<1>7. c \in ChainClients => k # ConvKey
  BY <1>2, OwnRow
<1>8. Guards(store, g, k)
  BY <1>2, <1>3, KeepsGuards
<1> HIDE DEF g, s, x
<1>9. CASE c \in ChainClients /\ Becomes(s, To(c, "copied"))
  BY <1>2, <1>5, <1>7, <1>9, ToKept DEF Stages
<1>10. CASE Becomes(g, To(c, "lock"))
  BY <1>2, <1>3, <1>8, <1>10, ToKept DEF Stages
<1>11. QED BY <1>6, <1>9, <1>10

LEMMA LockKept ==
  ASSUME Stored, NEW c \in Clients, Lock(c)
  PROVE  Stored'
<1> DEFINE k == Key(c)
           g == GetOrNew(store, k)
<1>1. Calls(c, "lock")
  BY DEF Lock
<1>2. Runs(c) /\ cl[c].pc = "lock" /\ turns' = turns /\ Sound(store) /\ k \in Keys /\ Counted
  BY <1>1, UnderWay DEF Stages
<1>3. Made(store, g) /\ \A q \in Keys : Keeps(store, g, q)
  BY <1>2, RowThere
<1>4. PICK y \in RequestType : /\ To(c, "wait") = [cl EXCEPT ![c] = y]
                               /\ y.answered = cl[c].answered /\ y.pc = "wait"
  BY <1>2, ToIs DEF Stages
<1>5. Becomes(g, [To(c, "wait") EXCEPT ![c].lock = g.born[k]])
  BY DEF Lock
<1> HIDE DEF g
<1> DEFINE n == g.born[k]
           x == [y EXCEPT !.lock = n]
<1>6. n \in Nat /\ cl \in [Clients -> RequestType]
  BY <1>2, <1>3 DEF Made, Sound, Tables, StoreType, Counted
<1>7. [To(c, "wait") EXCEPT ![c].lock = n] = [cl EXCEPT ![c] = x]
  BY <1>4, <1>6
<1>8. Becomes(g, [cl EXCEPT ![c] = x])
  BY <1>5, <1>7
<1> HIDE DEF n
<1>9. x \in RequestType /\ x.answered = cl[c].answered /\ x.pc = "wait"
  BY <1>4, <1>6 DEF RequestType
<1> HIDE DEF x
<1>10. Guards(store, g, k)
  BY <1>2, <1>3, KeepsGuards
<1>11. QED BY <1>2, <1>3, <1>8, <1>9, <1>10, OwnCall

LEMMA EnterKept ==
  ASSUME Stored, NEW c \in Clients, Enter(c)
  PROVE  Stored'
<1> DEFINE k == Key(c)
           g == GetOrNew(store, k)
           f == Metadata(g, k)
<1>1. Calls(c, "wait")
  BY DEF Enter
<1>2. Runs(c) /\ cl[c].pc = "wait" /\ turns' = turns /\ Sound(store) /\ k \in Keys /\ Counted
  BY <1>1, UnderWay DEF Stages
<1>3. Made(store, g) /\ \A q \in Keys : Keeps(store, g, q)
  BY <1>2, RowThere
<1>4. PICK y \in RequestType : /\ To(c, "pick") = [cl EXCEPT ![c] = y]
                               /\ y.answered = cl[c].answered /\ y.pc = "pick"
  BY <1>2, ToIs DEF Stages
<1>5. \/ Becomes(g, [To(c, "pick") EXCEPT ![c].resume = f])
      \/ Becomes(store, To(c, "pick"))
  BY DEF Enter
<1>6. f \in {Fresh} \cup Aliases
  BY DEF Metadata
<1> HIDE DEF g, f
<1> DEFINE x == [y EXCEPT !.resume = f]
<1>7. [To(c, "pick") EXCEPT ![c].resume = f] = [cl EXCEPT ![c] = x]
  BY <1>2, <1>4 DEF Counted
<1>8. x \in RequestType /\ x.answered = cl[c].answered /\ x.pc = "pick"
  BY <1>4, <1>6 DEF RequestType
<1> HIDE DEF x
<1>9. Guards(store, g, k)
  BY <1>2, <1>3, KeepsGuards
<1>10. CASE Becomes(g, [To(c, "pick") EXCEPT ![c].resume = f])
  BY <1>2, <1>3, <1>7, <1>8, <1>9, <1>10, OwnCall
<1>11. CASE Becomes(store, To(c, "pick"))
  <2>1. Made(store, store) /\ (\A q \in Keys : Keeps(store, store, q)) /\ Guards(store, store, k)
    BY <1>2 DEF Made, Keeps, Guards
  <2>2. QED BY <1>2, <1>11, <2>1, ToKept DEF Stages
<1>12. QED BY <1>5, <1>10, <1>11

LEMMA PickKept ==
  ASSUME Stored, NEW c \in Clients, Pick(c)
  PROVE  Stored'
<1> DEFINE k == Key(c)
           s == Synced(store, k)
<1>1. Calls(c, "pick")
  BY DEF Pick
<1>2. Runs(c) /\ cl[c].pc = "pick" /\ turns' = turns /\ Sound(store) /\ k \in Keys /\ Counted
  BY <1>1, UnderWay DEF Stages
<1>3. Made(store, s) /\ Keeps(store, s, k) /\ \A q \in Keys \ {k} : Spared(store, s, q)
  BY <1>2, RowSynced
<1>4. \/ Becomes(s, To(c, "clear"))
      \/ Becomes(s, To(c, "run"))
      \/ Becomes(s, [cl EXCEPT ![c].stale = TRUE])
      \/ Becomes(s, To(c, "pin"))
  BY DEF Pick
<1> HIDE DEF s
<1>5. (\A q \in Keys \ {k} : Keeps(store, s, q)) /\ Guards(store, s, k)
  BY <1>3, SparedKeeps, KeepsGuards
<1>6. CASE Becomes(s, To(c, "clear"))
  BY <1>2, <1>3, <1>5, <1>6, ToKept DEF Stages
<1>7. CASE Becomes(s, To(c, "run"))
  BY <1>2, <1>3, <1>5, <1>7, ToKept DEF Stages
<1>8. CASE Becomes(s, To(c, "pin"))
  BY <1>2, <1>3, <1>5, <1>8, ToKept DEF Stages
<1>9. CASE Becomes(s, [cl EXCEPT ![c].stale = TRUE])
  <2> DEFINE x == [cl[c] EXCEPT !.stale = TRUE]
  <2>1. x \in RequestType /\ x.answered = cl[c].answered /\ x.pc = "pick"
    BY <1>2, RequestIs DEF RequestType
  <2>2. [cl EXCEPT ![c].stale = TRUE] = [cl EXCEPT ![c] = x]
    OBVIOUS
  <2>3. Becomes(s, [cl EXCEPT ![c] = x])
    BY <1>9, <2>2
  <2> HIDE DEF x
  <2>4. QED BY <1>2, <1>3, <1>5, <2>1, <2>3, OwnCall
<1>10. QED BY <1>4, <1>6, <1>7, <1>8, <1>9

LEMMA PinKept ==
  ASSUME Stored, NEW c \in Clients, Pin(c)
  PROVE  Stored'
<1> DEFINE k == Key(c)
           g == GetOrNew(store, k)
           s == Assigned(g, k, Pinned)
<1>1. Calls(c, "pin")
  BY DEF Pin
<1>2. Runs(c) /\ cl[c].pc = "pin" /\ turns' = turns /\ Sound(store) /\ k \in Keys /\ Counted
  BY <1>1, UnderWay DEF Stages
<1>3. Made(store, g) /\ \A q \in Keys : Keeps(store, g, q)
  BY <1>2, RowThere
<1>4. Pinned \in Contents /\ ~Holds(Fresh, k)
  BY CapacityAssumption DEF Contents, Holds
<1>5. /\ Made(store, s) /\ (\A q \in Keys \ {k} : Keeps(store, s, q))
      /\ ~Holds(g.what[k], k) => Guards(store, s, k)
  BY <1>2, <1>4, ThereAssigned
<1>6. \/ g.what[k] = Fresh /\ Becomes(s, To(c, "pinned"))
      \/ Becomes(g, To(c, "clear"))
      \/ Becomes(g, To(c, "run"))
  BY DEF Pin
<1> HIDE DEF g, s
<1>7. Guards(store, g, k)
  BY <1>2, <1>3, KeepsGuards
<1>8. CASE g.what[k] = Fresh /\ Becomes(s, To(c, "pinned"))
  BY <1>2, <1>4, <1>5, <1>8, ToKept DEF Stages
<1>9. CASE Becomes(g, To(c, "clear"))
  BY <1>2, <1>3, <1>7, <1>9, ToKept DEF Stages
<1>10. CASE Becomes(g, To(c, "run"))
  BY <1>2, <1>3, <1>7, <1>10, ToKept DEF Stages
<1>11. QED BY <1>6, <1>8, <1>9, <1>10

\* The metadata of a stale pin go with the knowledge of what is lost.
LEMMA ClearKept ==
  ASSUME Stored, NEW c \in Clients, Clear(c)
  PROVE  Stored'
<1> DEFINE k == Key(c)
           g == GetOrNew(store, k)
           a == Assigned(g, k, Pinned)
           o == a.out \cup {k}
           s == [a EXCEPT !.out = o]
<1>1. Calls(c, "clear")
  BY DEF Clear
<1>2. Runs(c) /\ cl[c].pc = "clear" /\ turns' = turns /\ Sound(store) /\ k \in Keys /\ Counted
  BY <1>1, UnderWay DEF Stages
<1>3. Made(store, g) /\ \A q \in Keys : Keeps(store, g, q)
  BY <1>2, RowThere
<1>4. Pinned \in Contents
  BY DEF Contents
<1>5. Made(store, a) /\ \A q \in Keys \ {k} : Keeps(store, a, q)
  BY <1>2, <1>4, ThereAssigned
<1>6. LET r == Assigned(g, k, Pinned)
      IN  r.wsql = g.wsql /\ r.red = g.red /\ r.wred = g.wred /\ r.sql = g.sql /\ r.safe = g.safe
  BY <1>2, <1>3, <1>4, RowAssigned DEF Made, Sound
<1>7. Becomes(s, To(c, "cleared")) \/ Becomes(g, To(c, "cleared"))
  BY DEF Clear
<1>8. a.wsql = g.wsql /\ a.red = g.red /\ a.wred = g.wred /\ a.sql = g.sql /\ a.safe = g.safe
  BY <1>6
<1> HIDE DEF g, a
<1>9. a \in StoreType /\ o \in SUBSET Keys /\ k \in o /\ a.out \subseteq o
  BY <1>2, <1>5 DEF Made, Sound, Tables, StoreType
<1> HIDE DEF o
<1>10. /\ s \in StoreType /\ s.out = o /\ s.mem = a.mem /\ s.what = a.what /\ s.alias = a.alias
       /\ s.sql = a.sql /\ s.wsql = a.wsql /\ s.asql = a.asql /\ s.safe = a.safe /\ s.open = a.open
       /\ s.shared = a.shared /\ s.red = a.red /\ s.wred = a.wred /\ s.age = a.age
       /\ s.missed = a.missed
  BY <1>9 DEF StoreType
<1> HIDE DEF s
<1>11. Made(store, s)
  BY <1>5, <1>10 DEF Made, Sound, Tables, InStep, Clean
<1>12. \A q : Spared(a, s, q)
  BY <1>9, <1>10 DEF Spared
<1>13. \A q \in Keys \ {k} : Keeps(store, s, q)
  BY <1>5, <1>12, SparedKeeps, KeepsTwice
<1>14. Guards(store, s, k)
  <2>1. Excused(s, k)
    BY <1>9, <1>10 DEF Excused
  <2>2. Answered(s, k) /\ Loyal(s, k)
    BY <2>1 DEF Answered, Loyal
  <2>3. EqualTiers(store, k) => EqualTiers(s, k)
    BY <1>2, <1>3, <1>8, <1>10 DEF Keeps, EqualTiers
  <2>4. QED BY <2>2, <2>3 DEF Guards
<1>15. CASE Becomes(s, To(c, "cleared"))
  BY <1>2, <1>11, <1>13, <1>14, <1>15, ToKept DEF Stages
<1>16. CASE Becomes(g, To(c, "cleared"))
  BY <1>2, <1>3, <1>16, ToKept, KeepsGuards DEF Stages
<1>17. QED BY <1>7, <1>15, <1>16

\* _save_state makes a row that was evicted during the turn anew.
LEMMA SaveKept ==
  ASSUME Stored, NEW c \in Clients, Save(c)
  PROVE  Stored'
<1> DEFINE k == Key(c)
           x == Answer(c)
           s == Assigned(GetOrNew(store, k), k, x)
<1>1. Calls(c, "run")
  BY DEF Save
<1>2. /\ Runs(c) /\ cl[c].pc = "run" /\ turns' = turns /\ Sound(store) /\ k \in Keys /\ Counted
      /\ x \in Aliases /\ Holds(x, k)
  BY <1>1, UnderWay DEF Stages
<1>3. x \in Contents
  BY <1>2 DEF Contents
<1>4. Becomes(s, To(c, "saved"))
  BY DEF Save, Saved
<1>5. /\ Made(store, s) /\ k \in Range(s.mem) /\ s.what[k] = x
      /\ (\A q \in Keys \ {k} : Keeps(store, s, q)) /\ Guards(store, s, k)
  BY <1>2, <1>3, ThereAssigned
<1> HIDE DEF s
<1>6. QED BY <1>2, <1>4, <1>5, ToKept DEF Stages

LEMMA PersistCallKept ==
  ASSUME Stored, NEW c \in Clients, NEW pc \in Stages \ {"idle", "link"}, Calls(c, pc),
         NEW to \in Stages \ {"idle", "link", "saved"}, Becomes(Persisted(store, Key(c)), To(c, to))
  PROVE  Stored'
<1> DEFINE k == Key(c)
           s == Persisted(store, k)
<1>1. /\ Runs(c) /\ cl[c].pc = pc /\ turns' = turns /\ Sound(store) /\ k \in Keys /\ Counted
  BY UnderWay
<1>2. Made(store, s) /\ (\A q \in Keys \ {k} : Spared(store, s, q)) /\ Guards(store, s, k)
  BY <1>1, RowPersisted
<1>3. Becomes(s, To(c, to))
  OBVIOUS
<1> HIDE DEF s
<1>4. \A q \in Keys \ {k} : Keeps(store, s, q)
  BY <1>2, SparedKeeps
<1>5. QED BY <1>1, <1>2, <1>3, <1>4, ToKept

\* The persist of an answer writes it, or the history knows that it did not.
LEMMA AnswerPersisted ==
  ASSUME Stored, NEW c \in Clients, Calls(c, "saved"),
         LET k == Key(c)
             s == Persisted(store, k)
             written == k \in Range(store.mem) /\ store.what[k] = Answer(c)
         IN  Becomes(IF written THEN [s EXCEPT !.out = @ \ {k}, !.missed = @ \ {k}]
                     ELSE [s EXCEPT !.missed = @ \cup {k}], To(c, "link"))
  PROVE  Stored'
<1> DEFINE k == Key(c)
           s == Persisted(store, k)
           written == k \in Range(store.mem) /\ store.what[k] = Answer(c)
           o == IF written THEN s.out \ {k} ELSE s.out
           m == IF written THEN s.missed \ {k} ELSE s.missed \cup {k}
           r == [s EXCEPT !.out = o, !.missed = m]
<1>1. /\ Runs(c) /\ cl[c].pc = "saved" /\ turns' = turns /\ Sound(store) /\ k \in Keys /\ Counted
      /\ Holds(Answer(c), k) /\ cl[c].answered + 1 <= MaxTurns
  BY UnderWay DEF Stages
<1>2. /\ Made(store, s) /\ (\A q \in Keys \ {k} : Spared(store, s, q)) /\ Guards(store, s, k)
      /\ k \in Range(store.mem) => EqualTiers(s, k)
      /\ k \in Range(store.mem) /\ Holds(store.what[k], k) => InMemory(s, k)
  BY <1>1, RowPersisted
<1> HIDE DEF s
<1>3. s \in StoreType /\ s.out \in SUBSET Keys /\ s.missed \in SUBSET Keys
  BY <1>2 DEF Made, Sound, Tables, StoreType
<1>4. Becomes(r, To(c, "link"))
  <2>1. CASE written
    <3>1. [s EXCEPT !.out = s.out \ {k}, !.missed = s.missed \ {k}] = r
      BY <2>1
    <3>2. QED BY <2>1, <3>1 DEF s
  <2>2. CASE ~written
    <3>1. [s EXCEPT !.missed = s.missed \cup {k}] = r
      BY <2>2, <1>3 DEF StoreType
    <3>2. QED BY <2>2, <3>1 DEF s
  <2>3. QED BY <2>1, <2>2
<1>5. /\ o \in SUBSET Keys /\ m \in SUBSET Keys
      /\ \A q \in Keys \ {k} : (q \in o <=> q \in s.out) /\ (q \in m <=> q \in s.missed)
      /\ ~written => k \in m
      /\ written => m \subseteq s.missed
  BY <1>1, <1>3
<1> HIDE DEF o, m
<1>6. /\ r \in StoreType /\ r.out = o /\ r.missed = m /\ r.mem = s.mem /\ r.what = s.what
      /\ r.alias = s.alias /\ r.sql = s.sql /\ r.wsql = s.wsql /\ r.asql = s.asql
      /\ r.safe = s.safe /\ r.open = s.open /\ r.shared = s.shared /\ r.red = s.red
      /\ r.wred = s.wred /\ r.age = s.age
  BY <1>3, <1>5 DEF StoreType
<1> HIDE DEF r
<1>7. Sound(r) /\ r.shared = store.shared
  BY <1>2, <1>6 DEF Made, Sound, Tables, InStep, Clean
<1>8. PICK x \in RequestType : /\ To(c, "link") = [cl EXCEPT ![c] = x]
                               /\ x.answered = cl[c].answered /\ x.pc = "link"
  BY <1>1, ToIs DEF Stages
<1> DEFINE new == [cl EXCEPT ![c] = x]
<1>9. Becomes(r, new) /\ cl' = new
  <2>1. Becomes(r, new)
    BY <1>4, <1>8
  <2> HIDE DEF new
  <2>2. QED BY <2>1 DEF Becomes
<1>10. Counted' /\ cl'[c] = x /\ \A d \in Clients \ {c} : cl'[d] = cl[d]
  <2>1. turns' \in turns..MaxTurns /\ x.answered + Turn(x) <= turns'
    BY <1>1, <1>8, RequestIs DEF Turn
  <2>2. QED BY <1>1, <1>9, <2>1, OneCounted
<1> HIDE DEF new
<1>11. Recalled(new) \subseteq Recalled(cl) \cup {k}
  <2> SUFFICES ASSUME NEW q \in Recalled(new) PROVE q \in Recalled(cl) \cup {k}
    OBVIOUS
  <2>1. PICK d \in Clients : \/ new[d].answered > 0 /\ q = KeyOf(d, new[d].answered)
                             \/ new[d].pc = "link" /\ q = KeyOf(d, new[d].answered + 1)
    BY DEF Recalled
  <2>2. CASE d = c
    <3>1. k = KeyOf(c, cl[c].answered + 1)
      BY DEF Key, Target, Answer
    <3>2. QED BY <1>8, <1>9, <1>10, <2>1, <2>2, <3>1 DEF Recalled
  <2>3. CASE d # c
    BY <1>9, <1>10, <2>1, <2>3 DEF Recalled
  <2>4. QED BY <2>2, <2>3
<1>12. Answered(r, k) /\ Loyal(r, k)
  <2>1. CASE written
    <3>1. InMemory(s, k)
      BY <1>1, <1>2, <2>1
    <3>2. InMemory(r, k)
      BY <1>6, <3>1 DEF InMemory
    <3>3. QED BY <3>2 DEF Answered, Loyal
  <2>2. CASE ~written
    BY <1>5, <1>6, <2>2 DEF Answered, Loyal, Excused
  <2>3. QED BY <2>1, <2>2
<1>13. \A q \in Keys \ {k} : Keeps(store, r, q)
  <2>1. \A q \in Keys \ {k} : Spared(s, r, q)
    BY <1>5, <1>6 DEF Spared
  <2>2. QED BY <1>2, <2>1, SparedTwice, SparedKeeps
<1>14. Known(r, Recalled(new))
  <2> SUFFICES ASSUME NEW q \in Recalled(new), q # k
               PROVE  Answered(r, q) /\ (q = ConvKey => Loyal(r, q))
    BY <1>12 DEF Known
  <2>1. q \in Recalled(cl) /\ q \in Keys
    BY <1>1, <1>11, RecalledKeys
  <2>2. QED BY <1>13, <2>1 DEF Stored, Known, Keeps
<1>15. EqualTiers(r, ConvKey)
  <2>1. EqualTiers(s, ConvKey)
    <3>1. CASE k = ConvKey
      BY <1>2, <3>1 DEF Stored, Guards
    <3>2. CASE k # ConvKey
      <4>1. ConvKey \in Keys \ {k}
        BY <3>2 DEF ConvKey, Keys
      <4>2. Keeps(store, s, ConvKey)
        BY <1>2, <4>1, SparedKeeps
      <4>3. QED BY <4>2 DEF Stored, Keeps
    <3>3. QED BY <3>1, <3>2
  <2>2. QED BY <1>6, <2>1 DEF EqualTiers
<1>16. /\ Sound(store') /\ store'.shared = r.shared /\ store'.missed \subseteq r.missed
       /\ Known(store', Recalled(new)) /\ EqualTiers(store', ConvKey)
  BY <1>7, <1>9, <1>14, <1>15, StepKept
<1>17. Recorded'
  <2> SUFFICES ASSUME ~store'.shared
               PROVE  store'.missed = {} /\ \A d \in Clients : cl'[d].pc # "saved"
    BY DEF Recorded
  <2>1. ~store.shared /\ store.missed = {} /\ written
    BY <1>1, <1>7, <1>16 DEF Stored, Recorded
  <2>2. r.missed = {}
    BY <1>2, <1>5, <1>6, <2>1 DEF Made
  <2>3. ASSUME NEW d \in Clients PROVE cl'[d].pc # "saved"
    <3>1. d # c => ~Busy(d)
      BY <1>1, <2>1 DEF Runs
    <3>2. d # c => cl[d].pc # "saved"
      BY <3>1 DEF Busy
    <3>3. QED BY <1>8, <1>10, <3>2
  <2>4. QED BY <1>16, <2>2, <2>3
<1>18. QED BY <1>9, <1>10, <1>16, <1>17 DEF Stored

LEMMA PersistKept ==
  ASSUME Stored, NEW c \in Clients, Persist(c)
  PROVE  Stored'
<1> DEFINE k == Key(c)
           s == Persisted(store, k)
           written == k \in Range(store.mem) /\ store.what[k] = Answer(c)
           recorded == IF written THEN [s EXCEPT !.out = @ \ {k}, !.missed = @ \ {k}]
                       ELSE [s EXCEPT !.missed = @ \cup {k}]
<1>1. \/ Calls(c, "copied") /\ Becomes(s, To(c, "lock"))
      \/ Calls(c, "pinned") /\ Becomes(s, To(c, "clear"))
      \/ Calls(c, "pinned") /\ Becomes(s, To(c, "run"))
      \/ Calls(c, "cleared") /\ Becomes(s, To(c, "run"))
      \/ Calls(c, "saved") /\ Becomes(recorded, To(c, "link"))
  BY DEF Persist
<1>2. CASE Calls(c, "saved") /\ Becomes(recorded, To(c, "link"))
  BY <1>2, AnswerPersisted
<1> HIDE DEF recorded
<1>3. CASE Calls(c, "copied") /\ Becomes(s, To(c, "lock"))
  BY <1>3, PersistCallKept DEF Stages
<1>4. CASE Calls(c, "pinned") /\ Becomes(s, To(c, "clear"))
  BY <1>4, PersistCallKept DEF Stages
<1>5. CASE Calls(c, "pinned") /\ Becomes(s, To(c, "run"))
  BY <1>5, PersistCallKept DEF Stages
<1>6. CASE Calls(c, "cleared") /\ Becomes(s, To(c, "run"))
  BY <1>6, PersistCallKept DEF Stages
<1>7. QED BY <1>1, <1>2, <1>3, <1>4, <1>5, <1>6

LEMMA LinkKept ==
  ASSUME Stored, NEW c \in Clients, Link(c)
  PROVE  Stored'
<1> DEFINE s == Linked(store, Answer(c))
           n == cl[c].answered + 1
           x == NoRequest(n)
<1>1. Calls(c, "link")
  BY DEF Link
<1>2. /\ Runs(c) /\ cl[c].pc = "link" /\ turns' = turns /\ Sound(store) /\ Counted
      /\ Answer(c) \in Aliases /\ n <= MaxTurns
  BY <1>1, UnderWay DEF Stages
<1>3. Made(store, s) /\ \A k : Spared(store, s, k)
  BY <1>2, AliasLinked
<1>4. Becomes(s, [cl EXCEPT ![c] = x])
  BY DEF Link
<1> HIDE DEF s
<1>5. n \in 0..MaxTurns /\ n <= turns /\ turns' \in turns..MaxTurns
  BY <1>2, RequestIs
<1>6. x \in RequestType /\ x.answered = n /\ x.pc = "idle" /\ x.answered + Turn(x) <= turns'
  BY <1>2, <1>5 DEF NoRequest, RequestType, Stages, Turn
<1> HIDE DEF x
<1>7. \A k \in Keys : Keeps(store, s, k)
  BY <1>3, SparedKeeps
<1>8. QED BY <1>2, <1>3, <1>4, <1>5, <1>6, <1>7, CallKept

LEMMA FailKept ==
  ASSUME Stored, NEW c \in Clients, Fail(c)
  PROVE  Stored'
<1> DEFINE k == Key(c)
           s == DropIfFresh(store, k)
           x == NoRequest(cl[c].answered)
<1>1. Calls(c, "run")
  BY DEF Fail
<1>2. /\ Runs(c) /\ cl[c].pc = "run" /\ turns' = turns /\ Sound(store) /\ Counted /\ k \in Keys
  BY <1>1, UnderWay DEF Stages
<1>3. Made(store, s) /\ Guards(store, s, k) /\ \A q \in Keys \ {k} : Keeps(store, s, q)
  BY <1>2, RowDropped
<1>4. Becomes(s, [cl EXCEPT ![c] = x])
  BY DEF Fail
<1> HIDE DEF s
<1>5. x \in RequestType /\ x.answered = cl[c].answered /\ x.pc = "idle"
  BY <1>2, RequestIs DEF NoRequest, RequestType, Stages
<1> HIDE DEF x
<1>6. QED BY <1>2, <1>3, <1>4, <1>5, OwnCall

-----------------------------------------------------------------------------
(* The chains *)

\* A chain looks for the row of its last answer.
LEMMA ChainFound ==
  ASSUME NEW s, Sound(s), NEW c, Previous(c) \in Keys \cap Aliases
  PROVE  LET f == FoundBy(s, c)
             k == Previous(c)
         IN  /\ Made(s, f) /\ \A q \in Keys : Keeps(s, f, q)
             /\ InMemory(s, k) \/ InRedis(s, k) => k \in Range(f.mem) /\ Holds(f.what[k], k)
<1> DEFINE k == Previous(c)
           h == Hydrated(s, k)
           f == Synced(h, k)
<1>1. Made(s, h) /\ RowsStay(s, h) /\ \A q : Spared(s, h, q)
  BY AliasHydrated
<1>2. FoundBy(s, c) = f
  BY DEF FoundBy
<1> HIDE DEF h
<1>3. /\ Made(h, f)
      /\ k \in Range(h.mem) \cup h.red => k \in Range(f.mem)
      /\ k \in h.red => k \in f.red /\ f.what[k] = h.wred[k] /\ f.wred[k] = h.wred[k]
      /\ k \notin h.red => f = h
      /\ \A q \in Keys \ {k} : Spared(h, f, q)
      /\ Keeps(h, f, k)
  BY <1>1, RowSynced DEF Made
<1> HIDE DEF f, k
<1>4. \A q \in Keys : Keeps(s, f, q)
  BY <1>1, <1>3, SparedKeeps, KeepsTwice
<1>5. ASSUME InMemory(s, k) \/ InRedis(s, k) PROVE k \in Range(f.mem) /\ Holds(f.what[k], k)
  BY <1>1, <1>3, <1>5 DEF InMemory, InRedis, RowsStay
<1>6. QED BY <1>1, <1>2, <1>3, <1>4, <1>5 DEF Made, k

\* The only answer in the row of a chain is the chain's own.
LEMMA ChainHolds ==
  ASSUME NEW c \in ChainClients, NEW n, NEW x, Holds(x, <<c, n>>)
  PROVE  x = <<c, n>>
<1>1. x \in Clients \X (1..MaxTurns) /\ KeyOf(x[1], x[2]) = <<c, n>>
  BY DEF Holds, Aliases, Target
<1>2. x[1] \notin ConvClients
  BY <1>1, CapacityAssumption DEF KeyOf
<1>3. QED BY <1>1, <1>2 DEF KeyOf

LEMMA ChainIs ==
  ASSUME Counted, NEW c \in ChainClients, cl[c].answered > 0
  PROVE  /\ c \in Clients /\ Previous(c) \in Keys \cap Aliases
         /\ Previous(c) = KeyOf(c, cl[c].answered) /\ Previous(c) \in Recalled(cl)
<1>1. c \in Clients /\ c \notin ConvClients
  BY CapacityAssumption DEF Clients
<1>2. cl[c].answered \in 1..MaxTurns
  BY <1>1, RequestIs
<1>3. Previous(c) = KeyOf(c, cl[c].answered) /\ Previous(c) = <<c, cl[c].answered>>
  BY <1>1 DEF Previous, KeyOf
<1>4. Previous(c) \in Recalled(cl)
  BY <1>1, <1>3 DEF Recalled
<1>5. QED BY <1>1, <1>2, <1>3, <1>4 DEF Keys, Aliases

LEMMA StoredResumes == Stored => ChainsResume
<1> SUFFICES ASSUME Stored, NEW c \in ChainClients, cl[c].answered > 0
             PROVE  \/ FoundMetadata(store, c) = Previous(c)
                    \/ Previous(c) \in store.out \cup store.missed
  BY DEF ChainsResume
<1> DEFINE k == Previous(c)
           f == FoundBy(store, c)
<1>1. k \in Keys \cap Aliases /\ k \in Recalled(cl) /\ Sound(store)
  BY ChainIs DEF Stored
<1>2. Answered(store, k)
  BY <1>1 DEF Stored, Known
<1>3. InMemory(store, k) \/ InRedis(store, k) => k \in Range(f.mem) /\ Holds(f.what[k], k)
  BY <1>1, ChainFound
<1>4. ASSUME Holds(f.what[k], k) PROVE f.what[k] = k
  BY <1>4, ChainHolds DEF Previous
<1>5. FoundMetadata(store, c) = Metadata(f, k)
  BY DEF FoundMetadata
<1> HIDE DEF f, k
<1>6. InMemory(store, k) \/ InRedis(store, k) => Metadata(f, k) = k
  BY <1>1, <1>3, <1>4 DEF Metadata
<1>7. QED BY <1>2, <1>5, <1>6 DEF Answered, Excused, k

LEMMA StoredKept == Stored => AnswersAreKept
<1> SUFFICES ASSUME Stored PROVE AnswersAreKept
  OBVIOUS
<1>1. ASSUME NEW c \in Clients, cl[c].answered > 0
      PROVE  LET k == KeyOf(c, cl[c].answered)
             IN  \/ k \in Range(store.mem) /\ Holds(store.what[k], k)
                 \/ k \in store.red /\ Holds(store.wred[k], k)
                 \/ k \in store.out \cup store.missed
  <2>1. KeyOf(c, cl[c].answered) \in Recalled(cl)
    BY <1>1 DEF Recalled
  <2>2. QED BY <2>1 DEF Stored, Known, Answered, InMemory, InRedis, Excused
<1>2. ~store.shared => store.missed = {}
  BY DEF Stored, Recorded
<1>3. QED BY <1>1, <1>2 DEF AnswersAreKept

LEMMA ArriveKept ==
  ASSUME Stored, NEW c \in Clients, Arrive(c)
  PROVE  Stored'
<1> DEFINE chained == c \in ChainClients /\ cl[c].answered > 0
           s == IF chained THEN FoundBy(store, c) ELSE store
           f == IF chained THEN FoundMetadata(store, c) ELSE Fresh
           x == [cl[c] EXCEPT !.pc = "row", !.resume = f]
<1>1. Runs(c) /\ cl[c].pc = "idle" /\ turns' = turns + 1 /\ Sound(store) /\ Counted
  BY DEF Arrive, Budget, Stored
<1>2. turns' \in turns..MaxTurns
  <2>1. turns < MaxTurns
    BY CapacityAssumption DEF Arrive, Budget, Stored, Counted
  <2>2. QED BY <1>1, <2>1, RequestIs
<1>3. Made(store, s) /\ \A k \in Keys : Keeps(store, s, k)
  <2>1. CASE chained
    BY <1>1, <2>1, ChainIs, ChainFound
  <2>2. CASE ~chained
    BY <1>1, <2>2 DEF Made, Keeps
  <2>3. QED BY <2>1, <2>2
<1>4. Becomes(s, [cl EXCEPT ![c].pc = "row", ![c].resume = f])
  BY DEF Arrive
<1>5. f \in {Fresh} \cup Aliases
  BY DEF FoundMetadata, Metadata
<1> HIDE DEF s, f
<1>6. [cl EXCEPT ![c].pc = "row", ![c].resume = f] = [cl EXCEPT ![c] = x]
  BY <1>1 DEF Counted
<1>7. x \in RequestType /\ x.answered = cl[c].answered /\ x.pc = "row"
  BY <1>1, <1>5, RequestIs DEF RequestType, Stages
<1>8. Becomes(s, [cl EXCEPT ![c] = x])
  BY <1>4, <1>6
<1> HIDE DEF x
<1>9. x.answered + Turn(x) <= turns'
  BY <1>1, <1>7, RequestIs DEF Turn
<1>10. QED BY <1>1, <1>2, <1>3, <1>7, <1>8, <1>9, CallKept

\* Another process answers: its row is the newest of Redis, and what Redis drops
\* for it is lost here unless memory has a copy.
LEMMA ElsewhereKept ==
  ASSUME Stored, NEW c \in Clients, Elsewhere(c)
  PROVE  Stored'
<1> DEFINE k == Key(c)
           t == Stamped(store, k)
           over == Overflow(Among(t.age, t.red \cup {k}))
           a == Append(store.ared, Answer(c))
           red == (t.red \cup {k}) \ over
           f == [t.wred EXCEPT ![k] = Answer(c)]
           al == IF Len(a) > 2 * Cap THEN Tail(a) ELSE a
           o == (t.out \cup (over \ Copied(t))) \ {k}
           m == t.missed \ {k}
           s == [t EXCEPT !.red = red, !.wred = f, !.ared = al, !.out = o, !.missed = m]
           x == [cl[c] EXCEPT !.answered = cl[c].answered + 1]
           new == [cl EXCEPT ![c] = x]
<1>1. /\ store.shared /\ c \in ChainClients /\ cl[c].pc = "idle" /\ turns' = turns + 1
      /\ Sound(store) /\ Tables(store) /\ Counted
  BY DEF Elsewhere, Budget, Stored, Sound
<1>2. turns < MaxTurns
  BY CapacityAssumption DEF Elsewhere, Budget, Stored, Counted
<1>3. /\ cl[c].answered + 1 <= MaxTurns /\ turns' \in turns..MaxTurns
      /\ cl[c].answered \in Nat /\ cl[c].answered + 1 <= turns'
      /\ cl[c] \in RequestType /\ cl \in [Clients -> RequestType]
      /\ cl[c].answered + 1 \in 0..MaxTurns
  BY <1>1, <1>2, RequestIs DEF Turn
<1>4. /\ k \in Keys /\ Answer(c) \in Aliases /\ Holds(Answer(c), k)
      /\ k # ConvKey /\ k \notin Recalled(cl)
  BY <1>1, <1>3, OwnRow
<1>5. x \in RequestType /\ x.answered = cl[c].answered + 1 /\ x.pc = "idle"
  BY <1>1, <1>3 DEF RequestType
<1>6. Becomes(s, new)
  BY <1>3 DEF Elsewhere
<1>7. /\ Tables(t) /\ Aside(store, t) /\ Range(t.age) = Range(store.age) \cup {k}
      /\ t.age # <<>> /\ t.age[Len(t.age)] = k
      /\ t.what = store.what /\ t.wsql = store.wsql /\ t.red = store.red /\ t.wred = store.wred
      /\ t.mem = store.mem /\ t.sql = store.sql /\ t.safe = store.safe /\ t.open = store.open
      /\ t.out = store.out
  BY <1>1, <1>4, RowStamped
<1> HIDE DEF t
<1>8. k \notin over
  BY <1>4, <1>7, NewestStays
<1>9. a \in Seq(Aliases) /\ a # <<>>
  <2>1. store.ared \in Seq(Aliases)
    BY <1>1 DEF Tables, StoreType
  <2>2. a \in Seq(Aliases) /\ Len(a) = Len(store.ared) + 1
    BY <1>4, <2>1, AppendOne
  <2>3. QED BY <2>1, <2>2
<1> HIDE DEF over, a
<1>10. al \in Seq(Aliases)
  <2>1. Tail(a) \in Seq(Aliases)
    BY <1>9
  <2>2. QED BY <1>9, <2>1
<1>11. t \in StoreType /\ t.red \subseteq Range(t.age) /\ k \in Range(t.age)
  BY <1>7 DEF Tables
<1>12. /\ red \in SUBSET Keys /\ red = (t.red \cup {k}) \ over
       /\ f \in [Keys -> Contents] /\ f[k] = Answer(c) /\ \A q \in Keys \ {k} : f[q] = t.wred[q]
       /\ o \in SUBSET Keys /\ o = (t.out \cup (over \ Copied(t))) \ {k}
       /\ m \in SUBSET Keys /\ m = t.missed \ {k}
  <2>1. Answer(c) \in Contents
    BY <1>4 DEF Contents
  <2>2. red \in SUBSET Keys /\ f \in [Keys -> Contents] /\ m \in SUBSET Keys
    BY <1>4, <1>11, <2>1 DEF StoreType
  <2>3. f[k] = Answer(c) /\ \A q \in Keys \ {k} : f[q] = t.wred[q]
    BY <1>4, <1>11 DEF StoreType
  <2>4. over \subseteq Keys
    <3> DEFINE among == Among(t.age, t.red \cup {k})
    <3>1. t.age \in Seq(Keys)
      BY <1>11 DEF StoreType
    <3>2. among \in Seq(Keys)
      BY <3>1, AmongRange
    <3>3. over = Overflow(among)
      BY DEF over
    <3> HIDE DEF among
    <3>4. \A j \in 1..(Len(among) - Cap) : j \in 1..Len(among)
      BY <3>2, CapIs
    <3>5. QED BY <3>2, <3>3, <3>4 DEF Overflow
  <2>5. o \in SUBSET Keys
    BY <1>4, <1>11, <2>4 DEF StoreType
  <2>6. QED BY <2>2, <2>3, <2>5
<1> HIDE DEF red, f, al, o, m
<1>13. /\ s \in StoreType /\ s.red = red /\ s.wred = f /\ s.ared = al /\ s.out = o /\ s.missed = m
       /\ s.mem = t.mem /\ s.what = t.what /\ s.alias = t.alias /\ s.sql = t.sql /\ s.wsql = t.wsql
       /\ s.asql = t.asql /\ s.safe = t.safe /\ s.open = t.open /\ s.shared = t.shared
       /\ s.age = t.age
  BY <1>10, <1>11, <1>12 DEF StoreType
<1> HIDE DEF s
<1>14. Sound(s)
  <2>1. Tables(s)
    BY <1>1, <1>7, <1>11, <1>12, <1>13 DEF Tables, Aside
  <2>2. QED BY <1>1, <1>7, <1>13, <2>1 DEF Sound, Aside
<1>15. InRedis(s, k)
  BY <1>4, <1>8, <1>12, <1>13 DEF InRedis
<1>16. ASSUME NEW q \in Keys \ {k}
       PROVE  /\ Answered(store, q) => Answered(s, q)
              /\ Loyal(store, q) => Loyal(s, q)
  <2>1. InMemory(store, q) => InMemory(s, q)
    BY <1>7, <1>12, <1>13 DEF InMemory
  <2>2. Excused(store, q) => Excused(s, q)
    BY <1>7, <1>12, <1>13 DEF Excused, Aside
  <2>3. InRedis(s, q) => InRedis(store, q)
    BY <1>7, <1>12, <1>13 DEF InRedis
  <2>4. Loyal(store, q) => Loyal(s, q)
    BY <1>7, <1>13, <2>1, <2>2, <2>3 DEF Loyal
  <2>5. InRedis(store, q) => Answered(s, q)
    <3>1. CASE q \notin over
      BY <1>7, <1>12, <1>13, <3>1 DEF InRedis, Answered
    <3>2. CASE q \in over /\ q \in Copied(t)
      <4>1. InRedis(store, q) => InMemory(s, q)
        BY <1>7, <1>12, <1>13, <3>2 DEF InRedis, InMemory, Copied
      <4>2. QED BY <4>1 DEF Answered
    <3>3. CASE q \in over /\ q \notin Copied(t)
      BY <1>12, <1>13, <3>3 DEF Answered, Excused
    <3>4. QED BY <3>1, <3>2, <3>3
  <2>6. QED BY <2>1, <2>2, <2>4, <2>5 DEF Answered
<1>17. cl' = new
  BY <1>6 DEF Becomes
<1>18. Counted' /\ cl'[c] = x /\ \A d \in Clients \ {c} : cl'[d] = cl[d]
  <2>1. x.answered + Turn(x) <= turns'
    BY <1>3, <1>5 DEF Turn
  <2>2. QED BY <1>1, <1>3, <1>5, <1>17, <2>1, OneCounted
<1> HIDE DEF new, x
<1>19. Recalled(new) \subseteq Recalled(cl) \cup {k}
  <2> SUFFICES ASSUME NEW q \in Recalled(new) PROVE q \in Recalled(cl) \cup {k}
    OBVIOUS
  <2>1. PICK d \in Clients : \/ new[d].answered > 0 /\ q = KeyOf(d, new[d].answered)
                             \/ new[d].pc = "link" /\ q = KeyOf(d, new[d].answered + 1)
    BY DEF Recalled
  <2>2. CASE d = c
    <3>1. k = KeyOf(c, cl[c].answered + 1)
      BY DEF Key, Target, Answer
    <3>2. QED BY <1>5, <1>17, <1>18, <2>1, <2>2, <3>1
  <2>3. CASE d # c
    BY <1>17, <1>18, <2>1, <2>3 DEF Recalled
  <2>4. QED BY <2>2, <2>3
<1>20. Known(s, Recalled(new))
  <2> SUFFICES ASSUME NEW q \in Recalled(new) PROVE Answered(s, q) /\ (q = ConvKey => Loyal(s, q))
    BY DEF Known
  <2>1. CASE q = k
    BY <1>4, <1>15, <2>1 DEF Answered
  <2>2. CASE q # k
    <3>1. q \in Recalled(cl) /\ q \in Keys \ {k}
      BY <1>1, <1>19, <2>2, RecalledKeys
    <3>2. QED BY <1>16, <3>1 DEF Stored, Known
  <2>3. QED BY <2>1, <2>2
<1>21. EqualTiers(s, ConvKey)
  <2>1. ConvKey \in Keys \ {k}
    BY <1>4 DEF ConvKey, Keys
  <2>2. QED BY <1>7, <1>12, <1>13, <2>1 DEF Stored, EqualTiers
<1>22. /\ Sound(store') /\ store'.shared = s.shared
       /\ Known(store', Recalled(new)) /\ EqualTiers(store', ConvKey)
  BY <1>6, <1>14, <1>20, <1>21, StepKept
<1>23. Recorded'
  BY <1>1, <1>7, <1>13, <1>22 DEF Recorded, Aside
<1>24. QED BY <1>17, <1>18, <1>22, <1>23 DEF Stored

-----------------------------------------------------------------------------
(* The boots, and the whole *)

\* Memory is read from SQLite, which does not contradict Redis.
LEMMA RestartKept ==
  ASSUME Stored, NEW committed \in BOOLEAN, Restart(committed)
  PROVE  Stored'
<1> DEFINE s == IF committed THEN Committed(store)
                ELSE [store EXCEPT !.sql = store.safe.sql, !.asql = store.safe.asql, !.open = FALSE]
           m == Among(s.age, s.sql)
           r == [s EXCEPT !.mem = m, !.what = s.wsql, !.alias = s.asql]
           new == [c \in Clients |-> NoRequest(cl[c].answered)]
<1>1. Sound(store) /\ Counted /\ Tables(store) /\ store \in StoreType
  BY DEF Stored, Sound, Tables
<1>2. Becomes(r, new) /\ turns' = turns
  BY DEF Restart
<1>3. /\ Tables(s) /\ s.shared = store.shared /\ s.red = store.red /\ s.wsql = store.wsql
      /\ s.wred = store.wred /\ s.out = store.out /\ s.missed = store.missed
      /\ s.safe.sql = s.sql /\ s.sql \subseteq store.sql \cup store.safe.sql
      /\ \A k : k \in store.sql /\ k \in store.safe.sql => k \in s.sql
      /\ ~store.shared => InStep(s) /\ Clean(s)
  <2>1. CASE committed
    BY <1>1, <2>1, StoreCommitted DEF Sound, Aside
  <2>2. CASE ~committed
    <3> DEFINE z == [store EXCEPT !.sql = store.safe.sql, !.asql = store.safe.asql, !.open = FALSE]
    <3>1. store.safe.sql \in SUBSET Keys /\ store.safe.asql \in Seq(Aliases)
      BY <1>1 DEF StoreType
    <3>2. /\ z \in StoreType /\ z.sql = store.safe.sql /\ z.asql = store.safe.asql /\ z.open = FALSE
          /\ z.mem = store.mem /\ z.alias = store.alias /\ z.age = store.age /\ z.safe = store.safe
          /\ z.shared = store.shared /\ z.red = store.red /\ z.wsql = store.wsql
          /\ z.wred = store.wred /\ z.out = store.out /\ z.missed = store.missed
      BY <1>1, <3>1 DEF StoreType
    <3>3. s = z
      BY <2>2
    <3> HIDE DEF z, s
    <3>4. Tables(z)
      BY <1>1, <3>2 DEF Tables
    <3>5. ~store.shared => InStep(z) /\ Clean(z)
      BY <1>1, <3>2 DEF Sound, InStep, Clean
    <3>6. QED BY <3>2, <3>3, <3>4, <3>5
  <2>3. QED BY <2>1, <2>2
<1> HIDE DEF s
<1>4. /\ s \in StoreType /\ s.age \in Seq(Keys) /\ IsInjective(s.age) /\ s.alias \in Seq(Aliases)
      /\ s.asql \in Seq(Aliases) /\ IsInjective(s.asql) /\ IsInjective(s.alias)
      /\ s.sql \subseteq Range(s.age) /\ s.wsql \in [Keys -> Contents]
  BY <1>3 DEF Tables, StoreType
<1>5. m \in Seq(Keys) /\ IsInjective(m) /\ Range(m) = s.sql
  <2>1. m \in Seq(Keys) /\ IsInjective(m) /\ Range(m) = Range(s.age) \cap s.sql
    BY <1>4, AmongRange, AmongInjective
  <2> HIDE DEF m
  <2>2. QED BY <1>4, <2>1
<1> HIDE DEF m
<1>6. /\ r \in StoreType /\ r.mem = m /\ r.alias = s.asql /\ r.asql = s.asql /\ r.sql = s.sql /\ r.age = s.age
      /\ r.safe = s.safe /\ r.open = s.open /\ r.shared = s.shared /\ r.what = s.wsql /\ r.red = s.red
      /\ r.wsql = s.wsql /\ r.wred = s.wred /\ r.out = s.out /\ r.missed = s.missed
  BY <1>4, <1>5 DEF StoreType
<1> HIDE DEF r
<1>7. Sound(r)
  <2>1. Tables(r)
    BY <1>3, <1>4, <1>5, <1>6 DEF Tables
  <2>2. ~r.shared => InStep(r) /\ Clean(r)
    <3> SUFFICES ASSUME ~r.shared PROVE InStep(r) /\ Clean(r)
      OBVIOUS
    <3>1. InStep(s) /\ Clean(s)
      BY <1>3, <1>6
    <3>2. Len(s.asql) <= 2 * Cap
      BY <1>4, <3>1, OnceLength DEF InStep
    <3>3. QED BY <1>5, <1>6, <3>1, <3>2 DEF InStep, Clean
  <2>3. QED BY <1>3, <1>6, <2>1, <2>2 DEF Sound
<1>8. \A k : InMemory(store, k) => InMemory(r, k)
  BY <1>3, <1>5, <1>6 DEF InMemory
<1>9. \A k : (InRedis(store, k) <=> InRedis(r, k)) /\ (Excused(store, k) <=> Excused(r, k))
  BY <1>3, <1>6 DEF InRedis, Excused
<1>10. EqualTiers(r, ConvKey)
  BY <1>3, <1>6 DEF Stored, EqualTiers
<1>11. Loyal(r, ConvKey)
  <2> SUFFICES ASSUME InRedis(r, ConvKey), ConvKey \in Range(r.mem) PROVE InMemory(r, ConvKey)
    BY DEF Loyal
  <2>1. ConvKey \in r.sql /\ ConvKey \in r.safe.sql
    BY <1>3, <1>5, <1>6
  <2>2. r.wsql[ConvKey] = r.wred[ConvKey] /\ r.what = r.wsql
    BY <1>6, <1>10, <2>1 DEF EqualTiers, InRedis
  <2>3. QED BY <2>1, <2>2 DEF InRedis, InMemory
<1>12. \A c \in Clients : new[c].answered = cl[c].answered /\ new[c].pc = "idle" /\ new[c] \in RequestType
  BY <1>1, RequestIs DEF NoRequest, RequestType, Stages
<1>13. cl' = new /\ new \in [Clients -> RequestType]
  BY <1>2, <1>12 DEF Becomes
<1> HIDE DEF new
<1>14. Recalled(new) \subseteq Recalled(cl)
  BY <1>12 DEF Recalled
<1>15. Known(r, Recalled(new))
  BY <1>8, <1>9, <1>11, <1>14 DEF Stored, Known, Answered
<1>16. /\ Sound(store') /\ store'.shared = r.shared /\ store'.missed \subseteq r.missed
       /\ Known(store', Recalled(new)) /\ EqualTiers(store', ConvKey)
  BY <1>2, <1>7, <1>10, <1>15, StepKept
<1>17. Counted'
  <2>1. \A c \in Clients : new[c].answered + Turn(new[c]) <= turns
    BY <1>1, <1>12, RequestIs DEF Turn
  <2>2. QED BY <1>1, <1>2, <1>13, <2>1 DEF Counted
<1>18. Recorded'
  BY <1>3, <1>6, <1>12, <1>13, <1>16 DEF Stored, Recorded
<1>19. QED BY <1>13, <1>16, <1>17, <1>18 DEF Stored

\* A commit between the requests.
LEMMA SaveResponseStored == ASSUME Stored, SaveResponse PROVE Stored'
<1> DEFINE s == Committed(store)
<1>1. /\ Becomes(s, cl) /\ turns < MaxTurns /\ turns' = turns + 1
      /\ store.shared \/ \A c \in Clients : ~Busy(c)
  BY CapacityAssumption DEF SaveResponse, Budget, Stored, Counted
<1>2. Tables(s) /\ Clean(s) /\ (InStep(store) => InStep(s)) /\ Aside(store, s) /\ \A k : Spared(store, s, k)
  BY StoreCommitted DEF Stored, Sound
<1> HIDE DEF s
<1>3. Sound(s)
  BY <1>2 DEF Stored, Sound, Aside
<1>4. \A k : Keeps(store, s, k)
  BY <1>2, SparedKeeps
<1>5. Known(s, Recalled(cl)) /\ EqualTiers(s, ConvKey)
  BY <1>4 DEF Stored, Known, Keeps
<1>6. /\ Sound(store') /\ store'.shared = s.shared /\ store'.missed \subseteq s.missed
      /\ Known(store', Recalled(cl)) /\ EqualTiers(store', ConvKey) /\ cl' = cl
  BY <1>1, <1>3, <1>5, StepKept
<1>7. Counted'
  <2>1. /\ \A c \in Clients : cl[c].answered + Turn(cl[c]) <= turns /\ cl[c].answered \in Nat
                              /\ Turn(cl[c]) \in {0, 1}
        /\ turns \in 0..MaxTurns /\ MaxTurns \in Nat
    BY RequestIs, CapacityAssumption DEF Stored, Counted, Turn
  <2>2. turns' \in 0..MaxTurns /\ \A c \in Clients : cl[c].answered + Turn(cl[c]) <= turns'
    BY <1>1, <2>1
  <2>3. QED BY <1>6, <2>2 DEF Stored, Counted
<1>8. Recorded'
  <2>1. ~store.shared => \A c \in Clients : cl[c].pc # "saved"
    BY <1>1 DEF Busy
  <2>2. QED BY <1>2, <1>6, <2>1 DEF Stored, Recorded, Aside
<1>9. QED BY <1>6, <1>7, <1>8 DEF Stored

LEMMA StoredNext == Stored /\ [Next]_vars => Stored'
<1> SUFFICES ASSUME Stored, [Next]_vars PROVE Stored'
  OBVIOUS
<1>1. ASSUME NEW c \in Clients,
             \/ Arrive(c) \/ Row(c) \/ Lock(c) \/ Enter(c) \/ Pick(c) \/ Pin(c) \/ Clear(c)
             \/ Save(c) \/ Persist(c) \/ Link(c) \/ Fail(c) \/ Elsewhere(c)
      PROVE  Stored'
  BY <1>1, ArriveKept, RowKept, LockKept, EnterKept, PickKept, PinKept, ClearKept, SaveKept,
     PersistKept, LinkKept, FailKept, ElsewhereKept
<1>2. CASE SaveResponse
  BY <1>2, SaveResponseStored
<1>3. ASSUME UNCHANGED <<store, cl, turns>> PROVE Stored'
  BY <1>3 DEF Stored, Counted, Recorded, Key, Answer
<1>4. ASSUME NEW r \in 1..MaxTurns, GetResponse(r) PROVE Stored'
  BY <1>3, <1>4 DEF GetResponse
<1>5. ASSUME NEW committed \in BOOLEAN, Restart(committed) PROVE Stored'
  BY <1>5, RestartKept
<1>6. CASE UNCHANGED vars
  BY <1>3, <1>6 DEF vars
<1>7. QED BY <1>1, <1>2, <1>4, <1>5, <1>6 DEF Next

LEMMA StoredInit == Init => Stored
<1> SUFFICES ASSUME Init PROVE Stored
  OBVIOUS
<1>1. /\ store.mem = <<>> /\ store.alias = <<>> /\ store.asql = <<>> /\ store.age = <<>> /\ store.sql = {}
      /\ store.safe = [sql |-> {}, asql |-> <<>>] /\ store.red = {} /\ store.open = FALSE
      /\ store.missed = {}
  BY DEF Init
<1>2. store \in StoreType
  <2> DEFINE fresh == [k \in Keys |-> Fresh]
             born0 == [k \in Keys |-> 0]
             safe0 == [sql |-> {}, asql |-> <<>>]
  <2>1. fresh \in [Keys -> Contents] /\ born0 \in [Keys -> Nat]
    BY DEF Contents
  <2>2. <<>> \in Seq(Keys) /\ <<>> \in Seq(Aliases) /\ {} \in SUBSET Keys
    OBVIOUS
  <2>3. safe0 \in [sql : SUBSET Keys, asql : Seq(Aliases)]
    BY <2>2
  <2>4. PICK shared \in BOOLEAN : store =
          [mem |-> <<>>, alias |-> <<>>, sql |-> {}, asql |-> <<>>,
           safe |-> safe0, open |-> FALSE, shared |-> shared, red |-> {}, ared |-> <<>>, age |-> <<>>,
           what |-> fresh, wsql |-> fresh, wred |-> fresh, born |-> born0,
           out |-> {}, missed |-> {}]
    BY CapacityAssumption DEF Init
  <2> HIDE DEF fresh, born0, safe0
  <2>5. QED BY <2>1, <2>2, <2>3, <2>4 DEF StoreType
<1>3. IsInjective(<<>>) /\ Range(<<>>) = {} /\ Len(<<>>) = 0
  BY DEF IsInjective, Range
<1>4. Sound(store)
  BY <1>1, <1>2, <1>3, CapIs DEF Sound, Tables, InStep, Clean
<1>5. \A c \in Clients : cl[c] = NoRequest(0)
  BY DEF Init
<1>6. \A c \in Clients : cl[c].answered = 0 /\ cl[c].pc = "idle" /\ cl[c] \in RequestType
  <2>1. 0 \in 0..MaxTurns /\ 0 \in Nat /\ "idle" \in Stages
    BY CapacityAssumption DEF Stages
  <2>2. NoRequest(0) \in RequestType /\ NoRequest(0).answered = 0 /\ NoRequest(0).pc = "idle"
    BY <2>1 DEF NoRequest, RequestType
  <2>3. QED BY <1>5, <2>2
<1>7. Counted
  BY <1>6, CapacityAssumption DEF Init, Counted, Turn
<1>8. Recalled(cl) = {}
  BY <1>6 DEF Recalled
<1>9. Recorded /\ EqualTiers(store, ConvKey) /\ Known(store, Recalled(cl))
  BY <1>1, <1>6, <1>8 DEF Recorded, EqualTiers, Known
<1>10. QED BY <1>4, <1>7, <1>9 DEF Stored

\* Without Redis, what a full store forgets it forgets in memory and in SQLite,
\* and every call has committed what it has changed: a kill loses no row and no
\* alias, and no call leaves the file locked.
THEOREM TiersTogether == Spec => []TiersInStep
<1>1. Stored => TiersInStep
  BY DEF Stored, Sound, InStep, Clean, TiersInStep
<1>2. QED BY <1>1, StoredInit, StoredNext, PTL DEF Spec

\* A delivered answer is in its row, in memory or in Redis, until the capacity
\* pushes the row out of both; the only other losses, which need Redis, are those of
\* a persist that found its row evicted since get_or_new, and of a row that is reset
\* by a turn whose own row was evicted before it picked an account.
THEOREM AnswersStored == Spec => []AnswersAreKept
<1>1. QED BY StoredKept, StoredInit, StoredNext, PTL DEF Spec

\* A chained request finds the metadata of the last answer, and no other's, by
\* its alias or by the row itself, as long as the store has the answer.
THEOREM ChainsFound == Spec => []ChainsResume
<1>1. QED BY StoredResumes, StoredInit, StoredNext, PTL DEF Spec

-----------------------------------------------------------------------------
(* The response objects *)

\* A table that was full loses its oldest row to a new one, and no other.
LEMMA Trimmed ==
  ASSUME NEW T, NEW q \in Seq(T), IsInjective(q), Len(q) <= Cap + 1, q # <<>>
  PROVE  LET r == Among(q, Range(q) \ Overflow(q))
         IN  /\ r \in Seq(T) /\ IsInjective(r) /\ Range(r) \subseteq Range(q) /\ q[Len(q)] \in Range(r)
             /\ Len(r) = IF Len(q) <= Cap THEN Len(q) ELSE Cap
<1> DEFINE over == Overflow(q)
           S == Range(q) \ over
           r == Among(q, S)
<1>1. Len(q) \in Nat /\ Len(q) >= 1 /\ DOMAIN q = 1..Len(q) /\ Cap \in Nat /\ Cap >= 1
  BY CapIs
<1>2. over = IF Len(q) <= Cap THEN {} ELSE {q[1]}
  BY <1>1 DEF Overflow
<1>3. q[Len(q)] \in Range(q) /\ q[1] \in Range(q) /\ (Len(q) > 1 => q[Len(q)] # q[1])
  BY <1>1 DEF Range, IsInjective
<1>4. q[Len(q)] \in S
  BY <1>1, <1>2, <1>3
<1>5. S \subseteq Range(q) /\ S = Range(q) \ over
  OBVIOUS
<1> HIDE DEF over, S
<1>6. r \in Seq(T) /\ IsInjective(r) /\ Range(r) = Range(q) \cap S
  BY AmongRange, AmongInjective
<1>7. Range(r) = S
  BY <1>5, <1>6
<1>8. /\ IsFiniteSet(Range(q)) /\ Cardinality(Range(q)) = Len(q) /\ Cardinality(S) = Len(r)
  BY <1>6, <1>7, OnceLength
<1>9. CASE Len(q) <= Cap
  <2>1. S = Range(q)
    BY <1>2, <1>5, <1>9
  <2>2. QED BY <1>4, <1>5, <1>6, <1>7, <1>8, <1>9, <2>1 DEF S, over
<1>10. CASE ~(Len(q) <= Cap)
  <2>1. S = Range(q) \ {q[1]}
    BY <1>2, <1>5, <1>10
  <2>2. Cardinality(S) = Cardinality(Range(q)) - 1
    BY <1>3, <1>8, <2>1, FS_RemoveElement
  <2>6. Len(q) <= Cap + 1
    OBVIOUS
  <2> HIDE DEF r
  <2>8. \A n, k \in Nat : n <= k + 1 /\ ~(n <= k) => n = k + 1
    OBVIOUS
  <2>9. Len(q) \in Nat /\ Cap \in Nat
    BY <1>1
  <2>7. Len(q) = Cap + 1
    BY <1>10, <2>6, <2>8, <2>9, Zenon
  <2>3. Len(q) \in Nat /\ Len(q) = Cap + 1 /\ Len(r) = Len(q) - 1
    BY <1>1, <1>8, <2>2, <2>7
  <2>5. Len(r) = Cap
    BY <2>3, CapIs
  <2>4. QED BY <1>4, <1>5, <1>6, <1>7, <1>10, <2>5 DEF S, over, r
<1>11. QED BY <1>9, <1>10

\* Each table has a response once, and only those that were saved.
Saves ==
  /\ resp \in [mem : Seq(Nat), sql : Seq(Nat), red : Seq(Nat), saved : Nat]
  /\ IsInjective(resp.mem) /\ IsInjective(resp.sql)
  /\ Range(resp.mem) \cup Range(resp.sql) \cup Range(resp.red) \subseteq 1..resp.saved

SavesKept == Saves /\ ResponsesKept

LEMMA SaveResponseKept ==
  ASSUME SavesKept, SaveResponse
  PROVE  SavesKept'
<1> DEFINE id == resp.saved + 1
           full == Len(resp.mem) >= Cap
           h == Head(resp.mem)
           m0 == IF full THEN Tail(resp.mem) ELSE resp.mem
           q0 == IF full THEN Without(resp.sql, h) ELSE resp.sql
           mem == Append(m0, id)
           sql == Append(q0, id)
           red == IF store.shared THEN Append(resp.red, id) ELSE <<>>
           m == Among(mem, Range(mem) \ (Overflow(sql) \cup Overflow(red)))
           q == Among(sql, Range(sql) \ Overflow(sql))
           d == Among(red, Range(red) \ Overflow(red))
<1>1. resp' = [mem |-> m, sql |-> q, red |-> d, saved |-> id]
  BY DEF SaveResponse
<1>2. /\ resp.mem \in Seq(Nat) /\ resp.sql \in Seq(Nat) /\ resp.red \in Seq(Nat) /\ resp.saved \in Nat
      /\ IsInjective(resp.mem) /\ IsInjective(resp.sql) /\ Len(resp.mem) \in Nat /\ Len(resp.sql) \in Nat
      /\ Range(resp.mem) \subseteq 1..resp.saved /\ Range(resp.sql) \subseteq 1..resp.saved
      /\ Range(resp.red) \subseteq 1..resp.saved
      /\ Len(resp.sql) = IF resp.saved < Cap THEN resp.saved ELSE Cap
  BY DEF SavesKept, Saves, ResponsesKept
<1>3. full => resp.saved >= Cap
  <2>1. Cardinality(Range(resp.mem)) = Len(resp.mem)
    BY <1>2, OnceLength
  <2>4. 1 \in Int /\ resp.saved \in Int /\ resp.saved \in Nat
    BY <1>2
  <2>5. /\ IsFiniteSet(1..resp.saved)
        /\ Cardinality(1..resp.saved) = IF 1 > resp.saved THEN 0 ELSE resp.saved - 1 + 1
    BY <2>4, FS_Interval
  <2>2. IsFiniteSet(1..resp.saved) /\ Cardinality(1..resp.saved) = resp.saved
    BY <2>4, <2>5
  <2>3. Len(resp.mem) <= resp.saved
    BY <1>2, <2>1, <2>2, FS_Subset
  <2>6. QED BY <1>2, <2>3, CapIs
<1>4. /\ m0 \in Seq(Nat) /\ IsInjective(m0) /\ Range(m0) \subseteq 1..resp.saved
  <2>1. CASE full
    <3>1. resp.mem # <<>>
      BY <2>1, CapIs
    <3>2. QED BY <1>2, <2>1, <3>1, TailOnce
  <2>2. CASE ~full
    BY <1>2, <2>2
  <2>3. QED BY <2>1, <2>2
<1>5. /\ q0 \in Seq(Nat) /\ IsInjective(q0) /\ Range(q0) \subseteq 1..resp.saved
      /\ Len(q0) <= Cap
      /\ Len(q0) = IF resp.saved < Cap THEN resp.saved ELSE IF Len(q0) < Cap THEN Cap - 1 ELSE Cap
  <2>1. CASE full
    <3>1. q0 \in Seq(Nat) /\ IsInjective(q0) /\ Range(q0) = Range(resp.sql) \ {h}
      BY <1>2, <2>1, WithoutOne
    <3>2. /\ Cardinality(Range(q0)) = Len(q0) /\ Cardinality(Range(resp.sql)) = Len(resp.sql)
          /\ IsFiniteSet(Range(resp.sql))
      BY <1>2, <3>1, OnceLength
    <3> HIDE DEF q0, h
    <3>5. Cardinality(Range(resp.sql) \ {h}) = IF h \in Range(resp.sql)
            THEN Cardinality(Range(resp.sql)) - 1 ELSE Cardinality(Range(resp.sql))
      BY <3>2, FS_RemoveElement
    <3>3. Len(q0) = Len(resp.sql) - 1 \/ Len(q0) = Len(resp.sql)
      BY <3>1, <3>2, <3>5
    <3>4. QED BY <1>2, <1>3, <2>1, <3>1, <3>3, CapIs
  <2>2. CASE ~full
    BY <1>2, <2>2, CapIs
  <2>3. QED BY <2>1, <2>2
<1> HIDE DEF m0, q0, full, h
<1>6. id \in Nat /\ id \in 1..id /\ id \notin 1..resp.saved /\ 1..resp.saved \subseteq 1..id
  BY <1>2
<1> HIDE DEF id
<1>7. mem \in Seq(Nat) /\ IsInjective(mem) /\ Range(mem) \subseteq 1..id
  <2>1. mem \in Seq(Nat) /\ Range(mem) = Range(m0) \cup {id} /\ (id \notin Range(m0) => IsInjective(mem))
    BY <1>4, <1>6, AppendOne
  <2>2. QED BY <1>4, <1>6, <2>1
<1>8. /\ sql \in Seq(Nat) /\ IsInjective(sql) /\ Range(sql) \subseteq 1..id /\ sql # <<>>
      /\ Len(sql) = Len(q0) + 1 /\ sql[Len(sql)] = id
  <2>1. /\ sql \in Seq(Nat) /\ Range(sql) = Range(q0) \cup {id} /\ (id \notin Range(q0) => IsInjective(sql))
        /\ Len(sql) = Len(q0) + 1 /\ sql[Len(q0) + 1] = id
    BY <1>5, <1>6, AppendOne
  <2>2. sql # <<>>
    BY <1>5, <2>1
  <2>3. QED BY <1>5, <1>6, <2>1, <2>2
<1>9. red \in Seq(Nat) /\ Range(red) \subseteq 1..id
  <2>1. CASE store.shared
    <3>1. red \in Seq(Nat) /\ Range(red) = Range(resp.red) \cup {id}
      BY <1>2, <1>6, <2>1, AppendOne
    <3>2. QED BY <1>2, <1>6, <3>1
  <2>2. CASE ~store.shared
    BY <2>2 DEF Range
  <2>3. QED BY <2>1, <2>2
<1> HIDE DEF mem, sql, red
<1>10. m \in Seq(Nat) /\ IsInjective(m) /\ Range(m) \subseteq 1..id
  <2> DEFINE S == Range(mem) \ (Overflow(sql) \cup Overflow(red))
  <2> HIDE DEF S
  <2>1. LET r == Among(mem, S)
        IN  r \in Seq(Nat) /\ IsInjective(r) /\ Range(r) = Range(mem) \cap S
    BY <1>7, AmongRange, AmongInjective
  <2>2. QED BY <1>7, <2>1 DEF S
<1>11. d \in Seq(Nat) /\ Range(d) \subseteq 1..id
  <2> DEFINE S == Range(red) \ Overflow(red)
  <2> HIDE DEF S
  <2>1. LET r == Among(red, S)
        IN  r \in Seq(Nat) /\ Range(r) = Range(red) \cap S
    BY <1>9, AmongRange
  <2>2. QED BY <1>9, <2>1 DEF S
<1>12. /\ q \in Seq(Nat) /\ IsInjective(q) /\ Range(q) \subseteq 1..id /\ id \in Range(q)
       /\ Len(q) = IF Len(sql) <= Cap THEN Len(sql) ELSE Cap
  <2>1. Len(sql) <= Cap + 1
    BY <1>5, <1>8, CapIs
  <2>2. QED BY <1>8, <2>1, Trimmed
<1> HIDE DEF m, q, d
<1>13. Len(q) = IF id < Cap THEN id ELSE Cap
  BY <1>2, <1>5, <1>8, <1>12, CapIs DEF id
<1>14. QED BY <1>1, <1>6, <1>10, <1>11, <1>12, <1>13 DEF SavesKept, Saves, ResponsesKept

LEMMA GetResponseKept ==
  ASSUME SavesKept, NEW r \in 1..MaxTurns, GetResponse(r)
  PROVE  SavesKept'
<1> DEFINE room == IF Len(resp.mem) >= Cap THEN Tail(resp.mem) ELSE resp.mem
           m == IF r \in Range(room) THEN room ELSE Append(room, r)
<1>1. /\ resp.mem \in Seq(Nat) /\ IsInjective(resp.mem) /\ Range(resp.mem) \subseteq 1..resp.saved
      /\ resp \in [mem : Seq(Nat), sql : Seq(Nat), red : Seq(Nat), saved : Nat]
  BY DEF SavesKept, Saves
<1>2. resp' = [resp EXCEPT !.mem = m] /\ r \in 1..resp.saved
  BY DEF GetResponse, RememberResponse, SavesKept, Saves
<1>3. room \in Seq(Nat) /\ IsInjective(room) /\ Range(room) \subseteq 1..resp.saved
  <2>1. CASE Len(resp.mem) >= Cap
    <3>1. resp.mem # <<>>
      BY <2>1, CapIs
    <3>2. QED BY <1>1, <2>1, <3>1, TailOnce
  <2>2. CASE ~(Len(resp.mem) >= Cap)
    BY <1>1, <2>2
  <2>3. QED BY <2>1, <2>2
<1> HIDE DEF room
<1>4. m \in Seq(Nat) /\ IsInjective(m) /\ Range(m) \subseteq 1..resp.saved
  <2>1. r \in Nat
    BY CapacityAssumption
  <2>2. QED BY <1>2, <1>3, <2>1, AppendOne
<1> HIDE DEF m
<1>5. /\ resp' \in [mem : Seq(Nat), sql : Seq(Nat), red : Seq(Nat), saved : Nat]
      /\ resp'.mem = m /\ resp'.sql = resp.sql /\ resp'.red = resp.red /\ resp'.saved = resp.saved
  BY <1>1, <1>2, <1>4
<1>6. QED BY <1>4, <1>5 DEF SavesKept, Saves, ResponsesKept

\* The response that was saved last is in SQLite, and until Cap of them are
\* there none has gone, in whatever order they are read back and remembered.
THEOREM ResponsesStored == Spec => []ResponsesKept
<1>1. Init => SavesKept
  BY CapIs DEF Init, SavesKept, Saves, ResponsesKept, IsInjective, Range
<1>2. SavesKept /\ [Next]_vars => SavesKept'
  <2> SUFFICES ASSUME SavesKept, [Next]_vars PROVE SavesKept'
    OBVIOUS
  <2>1. ASSUME UNCHANGED resp PROVE SavesKept'
    BY <2>1 DEF SavesKept, Saves, ResponsesKept
  <2>2. ASSUME NEW committed \in BOOLEAN, Restart(committed) PROVE SavesKept'
    <3> DEFINE r == [resp EXCEPT !.mem = <<>>]
    <3>1. resp' = r /\ resp \in [mem : Seq(Nat), sql : Seq(Nat), red : Seq(Nat), saved : Nat]
      BY <2>2 DEF Restart, SavesKept, Saves
    <3> DEFINE e == <<>>
    <3>5. e \in Seq(Nat)
      OBVIOUS
    <3>6. r = [resp EXCEPT !.mem = e]
      OBVIOUS
    <3> HIDE DEF e, r
    <3>7. r \in [mem : Seq(Nat), sql : Seq(Nat), red : Seq(Nat), saved : Nat]
      BY <3>1, <3>5, <3>6
    <3>2. /\ r \in [mem : Seq(Nat), sql : Seq(Nat), red : Seq(Nat), saved : Nat]
          /\ r.mem = e /\ r.sql = resp.sql /\ r.red = resp.red /\ r.saved = resp.saved
      BY <3>1, <3>6, <3>7
    <3>3. IsInjective(e) /\ Range(e) = {} /\ Len(e) = 0
      BY DEF e, IsInjective, Range
    <3>4. QED BY <3>1, <3>2, <3>3 DEF SavesKept, Saves, ResponsesKept
  <2>3. ASSUME NEW c \in Clients,
               \/ Arrive(c) \/ Row(c) \/ Lock(c) \/ Enter(c) \/ Pick(c) \/ Pin(c) \/ Clear(c)
               \/ Save(c) \/ Persist(c) \/ Link(c) \/ Fail(c) \/ Elsewhere(c)
        PROVE  UNCHANGED resp
    BY <2>3 DEF Arrive, Row, Lock, Enter, Pick, Pin, Clear, Save, Persist, Link, Fail, Elsewhere, Calls
  <2>4. CASE UNCHANGED vars
    BY <2>1, <2>4 DEF vars
  <2>5. QED BY <2>1, <2>2, <2>3, <2>4, SaveResponseKept, GetResponseKept DEF Next
<1>3. SavesKept => ResponsesKept
  BY DEF SavesKept
<1>4. QED BY <1>1, <1>2, <1>3, PTL DEF Spec
=============================================================================
