-------------------------- MODULE UploadTiersProofs --------------------------
(***************************************************************************)
(* The uploads of UploadTiers for any number of processes, clients, files  *)
(* and calls, and any cap: what the tables keep, what a deletion leaves,   *)
(* what the memory may still serve, and what Redis keeps of the newest.    *)
(***************************************************************************)
EXTENDS UploadTiers, SubsequencesProofs, FiniteSetTheorems, SequenceTheorems, TLAPS

-----------------------------------------------------------------------------
(* The tiers of one process *)

\* Dropped takes the given files out, and nothing else.
LEMMA DroppedFiles ==
  ASSUME NEW T, NEW s \in Seq(T), NEW files
  PROVE  /\ Dropped(s, files) \in Seq(T)
         /\ Len(Dropped(s, files)) <= Len(s)
         /\ Range(Dropped(s, files)) = Range(s) \ files
         /\ IsInjective(s) => IsInjective(Dropped(s, files))
<1> DEFINE S == Range(s) \ files
<1>1. /\ Among(s, S) \in Seq(T) /\ Len(Among(s, S)) <= Len(s)
      /\ Range(Among(s, S)) = Range(s) \cap S
  BY AmongRange
<1>2. IsInjective(s) => IsInjective(Among(s, S))
  BY AmongInjective
<1>3. Dropped(s, files) = Among(s, S)
  BY DEF Dropped
<1> HIDE DEF S
<1>4. QED BY <1>1, <1>2, <1>3 DEF S

\* A full table that takes one more file loses its oldest row: the rows move up
\* by at most one place.
LEMMA CappedAppend ==
  ASSUME NEW T, NEW s \in Seq(T), NEW f \in T, Len(s) <= Cap, IsInjective(s), f \notin Range(s)
  PROVE  LET a == Append(s, f)
             r == Capped(a)
         IN  /\ r \in Seq(T) /\ Len(r) <= Cap /\ IsInjective(r)
             /\ f \in Range(r) /\ Range(r) \subseteq Range(s) \cup {f}
             /\ \E k \in {0, 1} : /\ Len(r) = Len(a) - k
                                  /\ k = 1 <=> Len(s) = Cap
                                  /\ \A j \in 1..Len(r) : r[j] = a[j + k]
<1> DEFINE a == Append(s, f)
           k == IF Len(s) = Cap THEN 1 ELSE 0
           r == Capped(a)
<1>1. Cap \in Nat /\ Cap >= 1 /\ Len(s) \in Nat
  BY UploadAssumption
<1>2. /\ a \in Seq(T) /\ Len(a) = Len(s) + 1 /\ a[Len(s) + 1] = f
      /\ \A j \in 1..Len(s) : a[j] = s[j]
  OBVIOUS
<1> HIDE DEF a
<1>3. r = SubSeq(a, k + 1, Len(a))
  <2>1. k + 1 = IF Len(a) > Cap THEN Len(a) - Cap + 1 ELSE 1
    BY <1>1, <1>2
  <2> HIDE DEF k
  <2>2. QED BY <2>1 DEF Capped
<1> HIDE DEF r
<1>4. k \in {0, 1} /\ k + 1 \in 1..(Len(a) + 1) /\ (k = 1 <=> Len(s) = Cap)
  BY <1>1, <1>2
<1> HIDE DEF k
<1>5. r \in Seq(T) /\ Len(r) = Len(a) - k /\ \A j \in 1..Len(r) : r[j] = a[j + k]
  BY <1>1, <1>2, <1>3, <1>4
<1>6. Len(r) <= Cap
  BY <1>1, <1>2, <1>4, <1>5
<1>7. f \in Range(r)
  <2>1. Len(r) \in 1..Len(r) /\ Len(r) + k = Len(s) + 1
    BY <1>1, <1>2, <1>4, <1>5
  <2>2. r[Len(r)] = f
    BY <1>2, <1>5, <2>1
  <2>3. QED BY <1>5, <2>1, <2>2 DEF Range
<1>8. ASSUME NEW j \in 1..Len(r) PROVE r[j] \in Range(s) \cup {f}
  <2>1. j + k \in 1..Len(a)
    BY <1>2, <1>4, <1>5
  <2>2. CASE j + k = Len(s) + 1
    BY <1>2, <1>5, <2>2
  <2>3. CASE j + k # Len(s) + 1
    <3>1. j + k \in 1..Len(s)
      BY <1>1, <1>2, <2>1, <2>3
    <3>2. QED BY <1>2, <1>5, <3>1 DEF Range
  <2>4. QED BY <2>2, <2>3
<1>9. IsInjective(a)
  BY <1>1, <1>2 DEF IsInjective, Range
<1>10. IsInjective(r)
  <2>1. ASSUME NEW i \in 1..Len(r), NEW j \in 1..Len(r), r[i] = r[j] PROVE i = j
    <3>1. i + k \in 1..Len(a) /\ j + k \in 1..Len(a)
      BY <1>2, <1>4, <1>5
    <3>2. i + k = j + k
      BY <1>2, <1>5, <1>9, <2>1, <3>1 DEF IsInjective
    <3>3. QED BY <1>4, <3>2
  <2>2. QED BY <1>5, <2>1 DEF IsInjective
<1>11. Range(r) \subseteq Range(s) \cup {f}
  BY <1>5, <1>8, RangeWithin
<1>12. QED
  BY <1>4, <1>5, <1>6, <1>7, <1>10, <1>11 DEF a, r

\* Memory makes room and has the file then.
LEMMA RememberedFile ==
  ASSUME NEW T, NEW s \in Seq(T), NEW f \in T, Len(s) <= Cap, IsInjective(s)
  PROVE  LET r == Remembered(s, f)
         IN  /\ r \in Seq(T) /\ Len(r) <= Cap /\ IsInjective(r)
             /\ Range(r) \subseteq Range(s) \cup {f}
<1> DEFINE room == IF Len(s) >= Cap THEN SubSeq(s, Len(s) - Cap + 2, Len(s)) ELSE s
           k == IF Len(s) >= Cap THEN 1 ELSE 0
<1>1. Cap \in Nat /\ Cap >= 1 /\ Len(s) \in Nat
  BY UploadAssumption
<1>2. room = SubSeq(s, k + 1, Len(s)) /\ k \in {0, 1} /\ k <= Len(s) /\ Len(s) - k < Cap
  <2>1. CASE Len(s) >= Cap
    BY <1>1, <2>1
  <2>2. CASE Len(s) < Cap
    BY <1>1, <2>2
  <2>3. QED BY <1>1, <2>1, <2>2
<1> HIDE DEF k
<1>3. room \in Seq(T) /\ Len(room) = Len(s) - k /\ \A j \in 1..Len(room) : room[j] = s[j + k]
  <2> HIDE DEF room
  <2> QED BY <1>1, <1>2
<1>4. Remembered(s, f) = IF f \in Range(room) THEN room ELSE Append(room, f)
  BY DEF Remembered
<1> HIDE DEF room
<1>5. Range(room) \subseteq Range(s)
  <2>1. ASSUME NEW j \in 1..Len(room) PROVE room[j] \in Range(s)
    <3>1. j + k \in 1..Len(s)
      BY <1>2, <1>3
    <3>2. QED BY <1>3, <3>1 DEF Range
  <2>2. QED BY <1>3, <2>1, RangeWithin
<1>6. IsInjective(room)
  <2>1. ASSUME NEW i \in 1..Len(room), NEW j \in 1..Len(room), room[i] = room[j] PROVE i = j
    <3>1. i + k \in 1..Len(s) /\ j + k \in 1..Len(s)
      BY <1>2, <1>3
    <3>2. i + k = j + k
      BY <1>3, <2>1, <3>1 DEF IsInjective
    <3>3. QED BY <1>2, <3>2
  <2>2. QED BY <1>3, <2>1 DEF IsInjective
<1>7. CASE f \in Range(room)
  BY <1>1, <1>2, <1>3, <1>4, <1>5, <1>6, <1>7
<1>8. CASE f \notin Range(room)
  <2> DEFINE r == Append(room, f)
  <2>1. r \in Seq(T) /\ Len(r) = Len(room) + 1 /\ DOMAIN r = 1..(Len(room) + 1)
        /\ r[Len(room) + 1] = f /\ \A j \in 1..Len(room) : r[j] = room[j]
    BY <1>3
  <2> HIDE DEF r
  <2>2. IsInjective(r)
    BY <1>3, <1>6, <1>8, <2>1 DEF IsInjective, Range
  <2>3. Range(r) \subseteq Range(s) \cup {f}
    <3>1. ASSUME NEW j \in 1..Len(r) PROVE r[j] \in Range(s) \cup {f}
      <4>1. CASE j = Len(room) + 1
        BY <2>1, <4>1
      <4>2. CASE j # Len(room) + 1
        <5>1. j \in 1..Len(room) /\ j \in DOMAIN room
          BY <1>3, <2>1, <4>2
        <5>2. room[j] \in Range(room)
          BY <5>1 DEF Range
        <5>3. QED BY <1>5, <2>1, <5>1, <5>2
      <4>3. QED BY <4>1, <4>2
    <3>2. QED BY <2>1, <3>1, RangeWithin
  <2>4. Len(r) <= Cap
    BY <1>1, <1>2, <1>3, <2>1
  <2>5. QED BY <1>4, <1>8, <2>1, <2>2, <2>3, <2>4 DEF r
<1>9. QED BY <1>7, <1>8

-----------------------------------------------------------------------------
(* Types *)

\* A call has a file exactly while it works on one.
Filed ==
  \A c \in Clients : call[c].file = NoFile <=> call[c].pc \in {"idle", "names", "fields"}

\* The tables and the histories hold files in use; every upload is another one.
InUse ==
  /\ \A p \in Procs :
       /\ Range(db[p]) \subseteq DOMAIN created
       /\ Range(log.stored[p]) \subseteq DOMAIN created
       /\ IsInjective(log.stored[p])
  /\ log.pushed \subseteq DOMAIN created
  /\ shared \subseteq log.pushed
  /\ \A pf \in log.gone : pf[2] \in DOMAIN created

Typed == TypeOK /\ Filed /\ InUse

TiersTyped ==
  /\ mem \in [Procs -> Seq(Files)]
  /\ db \in [Procs -> Seq(Files)]
  /\ \A p \in Procs :
       /\ Len(mem[p]) <= Cap /\ IsInjective(mem[p])
       /\ Len(db[p]) <= Cap /\ IsInjective(db[p])
       /\ Range(db[p]) \subseteq DOMAIN created

CallsTyped ==
  /\ call \in [Clients -> Calls]
  /\ \A c \in Clients :
       /\ Active(c) => call[c].proc \in Procs
       /\ call[c].file \in DOMAIN created \cup {NoFile}
  /\ Filed

FilesTyped ==
  /\ shared \subseteq DOMAIN created /\ DOMAIN created \subseteq Files
  /\ now \in Nat /\ created \in [DOMAIN created -> 0..now]
  /\ known \subseteq DOMAIN created

LogTyped ==
  /\ log \in Histories
  /\ \A p \in Procs :
       /\ Range(log.stored[p]) \subseteq DOMAIN created
       /\ IsInjective(log.stored[p])
  /\ log.pushed \subseteq DOMAIN created
  /\ shared \subseteq log.pushed
  /\ \A pf \in log.gone : pf[2] \in DOMAIN created

LEMMA TypedParts == Typed <=> TiersTyped /\ CallsTyped /\ FilesTyped /\ LogTyped
BY DEF Typed, TypeOK, InUse, TiersTyped, CallsTyped, FilesTyped, LogTyped

\* The files of the calls that work on one.
LEMMA CallFile ==
  ASSUME Typed, NEW c \in Clients, call[c].pc \notin {"idle", "names", "fields"}
  PROVE  /\ call[c].file \in DOMAIN created /\ call[c].file \in Files
         /\ call[c].proc \in Procs /\ call[c] \in Calls
         /\ call[c].file # NoFile
BY DEF Typed, TypeOK, Filed, Active

\* A beginning call leaves the others as they are, but not alone on its file.
LEMMA BeginCalls ==
  ASSUME Typed, NEW c \in Clients, NEW f, NEW new \in Calls, Begin(c, f, new)
  PROVE  /\ call' \in [Clients -> Calls]
         /\ call'[c] = new
         /\ \A d \in Clients \ {c} :
              /\ call'[d].pc = call[d].pc /\ call'[d].proc = call[d].proc
              /\ call'[d].file = call[d].file /\ call'[d].got = call[d].got
              /\ call'[d].overflow = call[d].overflow
              /\ call'[d].alone => call[d].alone /\ (f = NoFile \/ call[d].file # f)
<1>1. \A d \in Clients : call[d] \in Calls
  BY DEF Typed, TypeOK
<1>2. QED
  BY <1>1 DEF Begin, Calls

\* A call on a file as it begins.
Started(c, p, f, pc) == [On(c, p, f) EXCEPT !.pc = pc]

LEMMA OnCalls ==
  ASSUME NEW c \in Clients, NEW p \in Procs, NEW f \in Files,
         NEW pc \in {"push", "fetch", "erase"}
  PROVE  /\ Started(c, p, f, pc) \in Calls
         /\ Started(c, p, f, pc).pc = pc
         /\ Started(c, p, f, pc).proc = p
         /\ Started(c, p, f, pc).file = f
         /\ Started(c, p, f, pc).alone <=> \A d \in Clients \ {c} : call[d].file # f
BY DEF Started, On, Idle, Calls

LEMMA IdleCall == Idle \in Calls /\ Idle.pc = "idle" /\ Idle.file = NoFile
BY DEF Idle, Calls

LEMMA PutFile ==
  ASSUME Typed, NEW c \in Clients, NEW p \in Procs, NEW f \in Files, Put(c, p, f)
  PROVE  /\ DOMAIN created' = DOMAIN created \cup {f}
         /\ f \notin DOMAIN created
         /\ \A g \in DOMAIN created : created'[g] = created[g]
         /\ now' \in Nat /\ now' >= now /\ created'[f] = now'
<1>1. now \in Nat
  BY DEF Typed, TypeOK
<1>2. PICK sec \in {0, 1} : now' = now + sec
  BY DEF Put
<1>3. created' = [g \in DOMAIN created \cup {f} |-> IF g = f THEN now' ELSE created[g]]
  BY DEF Put
<1>4. f \notin DOMAIN created
  BY DEF Put, NewId
<1>5. QED BY <1>1, <1>2, <1>3, <1>4

LEMMA FilesStep ==
  ASSUME Typed, Next
  PROVE  FilesTyped'
<1> USE DEF Typed, TypeOK, FilesTyped
<1>1. ASSUME NEW c \in Clients, NEW p \in Procs, NEW f \in Files, Put(c, p, f)
      PROVE  FilesTyped'
  <2>1. /\ DOMAIN created' = DOMAIN created \cup {f}
        /\ \A g \in DOMAIN created : created'[g] = created[g]
        /\ now' \in Nat /\ now' >= now /\ created'[f] = now'
    BY <1>1, PutFile
  <2>2. created' \in [DOMAIN created' -> 0..now']
    <3>1. created' = [g \in DOMAIN created \cup {f} |-> IF g = f THEN now' ELSE created[g]]
      BY <1>1 DEF Put
    <3>2. QED BY <2>1, <3>1
  <2>3. shared' = shared /\ known' = known
    BY <1>1 DEF Put
  <2>4. QED BY <2>1, <2>2, <2>3
<1>2. ASSUME NEW c \in Clients, Push(c) \/ Trim(c) \/ PutFails(c)
      PROVE  FilesTyped'
  <2>1. call[c].file \in DOMAIN created
    BY <1>2, CallFile DEF Push, Trim, PutFails
  <2>2. created' = created /\ now' = now
    BY <1>2 DEF Push, Trim, PutFails
  <2>3. shared' \subseteq shared \cup {call[c].file}
    BY <1>2 DEF Push, Trim, PutFails
  <2>4. known' \subseteq known \cup {call[c].file}
    BY <1>2 DEF Push, Trim, PutFails, Ack
  <2>5. QED BY <2>1, <2>2, <2>3, <2>4
<1>3. ASSUME NEW c \in Clients, Count(c) \/ Rank(c)
      PROVE  FilesTyped'
  <2>1. call[c].file \in DOMAIN created
    BY <1>3, CallFile DEF Count, Rank
  <2>2. known' \subseteq known \cup {call[c].file}
    BY <1>3 DEF Count, Rank, Ack
  <2>3. QED BY <1>3, <2>1, <2>2 DEF Count, Rank
<1>4. ASSUME NEW c \in Clients, NEW p \in Procs, List(c, p)
      PROVE  FilesTyped'
  BY <1>4 DEF List, InUse
<1>5. ASSUME NEW c \in Clients, Fields(c)
      PROVE  FilesTyped'
  BY <1>5 DEF Fields
<1>6. ASSUME NEW c \in Clients, Erase(c)
      PROVE  FilesTyped'
  BY <1>6 DEF Erase
<1>7. ASSUME NEW c \in Clients, NEW p \in Procs, NEW f \in Files,
             GetLocal(c, p, f) \/ GetShared(c, p, f) \/ Delete(c, p, f)
      PROVE  FilesTyped'
  BY <1>7 DEF GetLocal, GetShared, Delete
<1>8. ASSUME NEW c \in Clients, Fetch(c) \/ Remember(c) \/ Names(c)
      PROVE  FilesTyped'
  BY <1>8 DEF Fetch, Remember, Names
<1>9. ASSUME NEW p \in Procs, Restart(p)
      PROVE  FilesTyped'
  BY <1>9 DEF Restart
<1>10. QED
  BY <1>1, <1>2, <1>3, <1>4, <1>5, <1>6, <1>7, <1>8, <1>9 DEF Next, Upload

LEMMA CallsStep ==
  ASSUME Typed, Next
  PROVE  CallsTyped'
<1> USE DEF Typed, TypeOK, CallsTyped, Filed, Active
<1>1. ASSUME NEW c \in Clients, NEW f \in Files \cup {NoFile}, NEW new \in Calls, Begin(c, f, new),
             DOMAIN created \subseteq DOMAIN created',
             new.file \in DOMAIN created' \cup {NoFile},
             new.pc # "idle" => new.proc \in Procs,
             new.file = NoFile <=> new.pc \in {"idle", "names", "fields"}
      PROVE  CallsTyped'
  <2>1. /\ call' \in [Clients -> Calls]
        /\ call'[c] = new
        /\ \A d \in Clients \ {c} :
             call'[d].pc = call[d].pc /\ call'[d].proc = call[d].proc /\ call'[d].file = call[d].file
    <3> HIDE DEF Typed
    <3> QED BY <1>1, BeginCalls DEF Typed
  <2>2. QED BY <1>1, <2>1
<1>2. ASSUME NEW c \in Clients, NEW p \in Procs, NEW f \in Files, Put(c, p, f)
      PROVE  CallsTyped'
  <2> DEFINE new == Started(c, p, f, "push")
  <2>1. new \in Calls /\ new.pc = "push" /\ new.proc = p /\ new.file = f
    BY OnCalls
  <2>2. DOMAIN created' = DOMAIN created \cup {f}
    BY <1>2, PutFile
  <2>3. Begin(c, f, new)
    BY <1>2 DEF Put, Started
  <2>4. f # NoFile
    BY UploadAssumption
  <2> HIDE DEF new
  <2>5. QED BY <1>1, <2>1, <2>2, <2>3, <2>4
<1>3. ASSUME NEW c \in Clients, NEW p \in Procs, NEW f \in Files, GetShared(c, p, f) \/ Delete(c, p, f)
      PROVE  CallsTyped'
  <2>1. PICK pc \in {"fetch", "erase"} : Begin(c, f, [On(c, p, f) EXCEPT !.pc = pc])
    BY <1>3 DEF GetShared, Delete
  <2> DEFINE new == Started(c, p, f, pc)
  <2>2. new \in Calls /\ new.pc = pc /\ new.proc = p /\ new.file = f
    BY OnCalls
  <2>3. f \in DOMAIN created /\ created' = created
    BY <1>3 DEF GetShared, Delete
  <2>4. f # NoFile
    BY UploadAssumption
  <2>5. Begin(c, f, new)
    BY <2>1 DEF Started
  <2> HIDE DEF new
  <2>6. QED BY <1>1, <2>2, <2>3, <2>4, <2>5
<1>4. ASSUME NEW c \in Clients, NEW p \in Procs, NEW f \in Files, GetLocal(c, p, f)
      PROVE  CallsTyped'
  <2>1. Begin(c, NoFile, Idle) /\ created' = created
    BY <1>4 DEF GetLocal
  <2>2. QED BY <1>1, <2>1, IdleCall
<1>5. ASSUME NEW c \in Clients, NEW p \in Procs, List(c, p)
      PROVE  CallsTyped'
  <2> DEFINE new == [Idle EXCEPT !.pc = "names", !.proc = p]
  <2>1. new \in Calls /\ new.pc = "names" /\ new.proc = p /\ new.file = NoFile
    BY DEF Idle, Calls
  <2>2. Begin(c, NoFile, new) /\ created' = created
    BY <1>5 DEF List
  <2> HIDE DEF new
  <2>3. QED BY <1>1, <2>1, <2>2
<1>6. ASSUME NEW c \in Clients, Reply(c), created' = created
      PROVE  CallsTyped'
  BY <1>6, IdleCall DEF Reply
<1>moves. ASSUME NEW c \in Clients, NEW new \in Calls, call' = [call EXCEPT ![c] = new],
              new.proc = call[c].proc, new.file = call[c].file, call[c].pc # "idle",
              new.pc # "idle", new.pc \in {"names", "fields"} <=> call[c].pc \in {"names", "fields"},
              created' = created
       PROVE  CallsTyped'
  BY <1>moves
<1>7. ASSUME NEW c \in Clients, call[c].pc \notin {"idle", "names", "fields"},
             NEW pc \in {"count", "rank", "trim", "fetched"}, Goto(c, pc), created' = created
      PROVE  CallsTyped'
  <2> DEFINE new == [call[c] EXCEPT !.pc = pc]
  <2>1. call[c] \in Calls
    OBVIOUS
  <2>2. new \in Calls /\ new.pc = pc /\ new.proc = call[c].proc /\ new.file = call[c].file
    BY <1>7, <2>1 DEF Calls
  <2>3. call' = [call EXCEPT ![c] = new]
    BY <1>7 DEF Goto
  <2> HIDE DEF new, Typed, TypeOK, CallsTyped
  <2>4. QED BY <1>7, <1>moves, <2>2, <2>3
<1>8. ASSUME NEW c \in Clients, Count(c)
      PROVE  CallsTyped'
  <2>1. CASE Reply(c)
    BY <1>6, <1>8, <2>1 DEF Count
  <2>2. CASE Cardinality(shared) > Cap /\ call' = [call EXCEPT ![c].pc = "rank", ![c].overflow = Cardinality(shared) - Cap]
    <3>1. Cardinality(shared) - Cap \in Nat
      <4>1. IsFiniteSet(shared)
        BY UploadAssumption, FS_Subset
      <4>2. QED BY <2>2, <4>1, FS_CardinalityType, UploadAssumption
    <3>2. call[c].pc = "count" /\ created' = created
      BY <1>8 DEF Count
    <3> DEFINE new == [call[c] EXCEPT !.pc = "rank", !.overflow = Cardinality(shared) - Cap]
    <3>3. new \in Calls /\ new.pc = "rank" /\ new.proc = call[c].proc /\ new.file = call[c].file
      BY <3>1 DEF Calls
    <3>4. call' = [call EXCEPT ![c] = new]
      BY <2>2
    <3> HIDE DEF new
    <3>5. QED BY <1>moves, <3>2, <3>3, <3>4
  <2>3. Cap \in Nat /\ Cardinality(shared) \in Nat
    BY UploadAssumption, FS_Subset, FS_CardinalityType
  <2>4. CASE Cardinality(shared) <= Cap
    BY <1>8, <2>1, <2>4 DEF Count, Ack
  <2>5. CASE ~(Cardinality(shared) <= Cap)
    <3>1. Cardinality(shared) > Cap
      BY <2>3, <2>5
    <3>2. QED BY <1>8, <2>2, <2>5, <3>1 DEF Count
  <2>6. QED BY <2>4, <2>5
<1>9. ASSUME NEW c \in Clients, Rank(c)
      PROVE  CallsTyped'
  <2>1. CASE Reply(c)
    BY <1>6, <1>9, <2>1 DEF Rank
  <2>2. CASE call' = [call EXCEPT ![c].pc = "trim", ![c].got = Oldest(call[c].overflow)]
    <3>1. Oldest(call[c].overflow) \subseteq Files
      BY DEF Oldest
    <3>2. call[c].pc = "rank" /\ created' = created
      BY <1>9 DEF Rank
    <3> DEFINE new == [call[c] EXCEPT !.pc = "trim", !.got = Oldest(call[c].overflow)]
    <3>3. new \in Calls /\ new.pc = "trim" /\ new.proc = call[c].proc /\ new.file = call[c].file
      BY <3>1 DEF Calls
    <3>4. call' = [call EXCEPT ![c] = new]
      BY <2>2
    <3> HIDE DEF new
    <3>5. QED BY <1>moves, <3>2, <3>3, <3>4
  <2>3. QED BY <1>9, <2>1, <2>2 DEF Rank, Ack
<1>10. ASSUME NEW c \in Clients, Names(c)
      PROVE  CallsTyped'
  <2>1. CASE Reply(c)
    BY <1>6, <1>10, <2>1 DEF Names
  <2>2. CASE call' = [call EXCEPT ![c].pc = "fields", ![c].got = shared]
    <3> DEFINE new == [call[c] EXCEPT !.pc = "fields", !.got = shared]
    <3>1. new \in Calls /\ new.pc = "fields" /\ new.proc = call[c].proc /\ new.file = call[c].file
      BY DEF Calls
    <3>2. call' = [call EXCEPT ![c] = new] /\ created' = created /\ call[c].pc = "names"
      BY <1>10, <2>2 DEF Names
    <3> HIDE DEF new
    <3>3. QED BY <1>moves, <3>1, <3>2
  <2>3. QED BY <1>10, <2>1, <2>2 DEF Names
<1>11. ASSUME NEW c \in Clients, Push(c) \/ Fetch(c)
      PROVE  CallsTyped'
  <2>1. created' = created /\ call[c].pc \in {"push", "fetch"}
    BY <1>11 DEF Push, Fetch
  <2>2. Reply(c) \/ Goto(c, "count") \/ Goto(c, "fetched")
    BY <1>11 DEF Push, Fetch
  <2>3. QED BY <1>6, <1>7, <2>1, <2>2
<1>12. ASSUME NEW c \in Clients, Trim(c) \/ PutFails(c) \/ Remember(c) \/ Erase(c) \/ Fields(c)
      PROVE  CallsTyped'
  <2>1. Reply(c) /\ created' = created
    BY <1>12 DEF Trim, PutFails, Remember, Erase, Fields, Ack
  <2>2. QED BY <1>6, <2>1
<1>13. ASSUME NEW p \in Procs, Restart(p)
      PROVE  CallsTyped'
  BY <1>13, IdleCall DEF Restart
<1>14. QED
  BY <1>2, <1>3, <1>4, <1>5, <1>8, <1>9, <1>10, <1>11, <1>12, <1>13 DEF Next, Upload

LEMMA TiersStep ==
  ASSUME Typed, Next
  PROVE  TiersTyped'
<1> USE DEF Typed, TypeOK, TiersTyped, InUse
<1>1. ASSUME NEW p \in Procs
      PROVE  /\ mem[p] \in Seq(Files) /\ Len(mem[p]) <= Cap /\ IsInjective(mem[p])
             /\ db[p] \in Seq(Files) /\ Len(db[p]) <= Cap /\ IsInjective(db[p])
             /\ Range(db[p]) \subseteq DOMAIN created
  OBVIOUS
<1>2. ASSUME NEW p \in Procs, NEW m \in Seq(Files), Len(m) <= Cap, IsInjective(m),
             mem' = [mem EXCEPT ![p] = m], db' = db, created' = created
      PROVE  TiersTyped'
  BY <1>2
<1>3. ASSUME NEW p \in Procs, NEW f \in Files
      PROVE  /\ Remembered(mem[p], f) \in Seq(Files)
             /\ Len(Remembered(mem[p], f)) <= Cap /\ IsInjective(Remembered(mem[p], f))
  BY <1>1, RememberedFile
<1>4. ASSUME NEW p \in Procs, NEW files
      PROVE  /\ Dropped(mem[p], files) \in Seq(Files)
             /\ Len(Dropped(mem[p], files)) <= Cap /\ IsInjective(Dropped(mem[p], files))
             /\ Dropped(db[p], files) \in Seq(Files)
             /\ Len(Dropped(db[p], files)) <= Cap /\ IsInjective(Dropped(db[p], files))
             /\ Range(Dropped(db[p], files)) \subseteq Range(db[p])
  <2>1. Cap \in Nat /\ Len(mem[p]) \in Nat /\ Len(db[p]) \in Nat
    BY <1>1, UploadAssumption
  <2>2. /\ Dropped(mem[p], files) \in Seq(Files) /\ Len(Dropped(mem[p], files)) <= Len(mem[p])
        /\ IsInjective(Dropped(mem[p], files))
    BY <1>1, DroppedFiles
  <2>3. /\ Dropped(db[p], files) \in Seq(Files) /\ Len(Dropped(db[p], files)) <= Len(db[p])
        /\ IsInjective(Dropped(db[p], files)) /\ Range(Dropped(db[p], files)) \subseteq Range(db[p])
    BY <1>1, DroppedFiles
  <2>4. Len(Dropped(mem[p], files)) \in Nat /\ Len(Dropped(db[p], files)) \in Nat
    BY <2>2, <2>3
  <2>5. QED BY <1>1, <2>1, <2>2, <2>3, <2>4
<1>5. ASSUME NEW c \in Clients, NEW p \in Procs, NEW f \in Files, Put(c, p, f)
      PROVE  TiersTyped'
  <2> DEFINE table == Capped(Append(db[p], f))
             m == Stored(p, f, table)
  <2>1. DOMAIN created' = DOMAIN created \cup {f} /\ f \notin DOMAIN created
    BY <1>5, PutFile
  <2>2. /\ table \in Seq(Files) /\ Len(table) <= Cap /\ IsInjective(table)
        /\ Range(table) \subseteq Range(db[p]) \cup {f}
    <3>1. f \notin Range(db[p])
      BY <1>1, <2>1
    <3>2. QED BY <1>1, <3>1, CappedAppend
  <2>3. /\ m \in Seq(Files) /\ Len(m) <= Cap /\ IsInjective(m)
    <3> DEFINE r == Remembered(mem[p], f)
               d == Dropped(r, Range(db[p]) \ Range(table))
    <3>1. r \in Seq(Files) /\ Len(r) <= Cap /\ IsInjective(r)
      BY <1>3
    <3>2. m = d
      BY DEF Stored
    <3> HIDE DEF r, m, table
    <3>3. d \in Seq(Files) /\ Len(d) <= Len(r) /\ IsInjective(d)
      BY <3>1, DroppedFiles
    <3> HIDE DEF d
    <3>4. QED BY <3>1, <3>2, <3>3, UploadAssumption
  <2>4. mem' = [mem EXCEPT ![p] = m] /\ db' = [db EXCEPT ![p] = table]
    BY <1>5 DEF Put
  <2> HIDE DEF m, table
  <2>5. QED BY <1>1, <2>1, <2>2, <2>3, <2>4
<1>6. ASSUME NEW c \in Clients, NEW p \in Procs, NEW f \in Files, GetLocal(c, p, f)
      PROVE  TiersTyped'
  <2>1. db' = db /\ created' = created /\ (mem' = mem \/ mem' = [mem EXCEPT ![p] = Remembered(mem[p], f)])
    BY <1>6 DEF GetLocal
  <2>2. QED BY <1>2, <1>3, <2>1
<1>7. ASSUME NEW c \in Clients, NEW p \in Procs, NEW f \in Files, Delete(c, p, f)
      PROVE  TiersTyped'
  <2>1. /\ mem' = [mem EXCEPT ![p] = Dropped(mem[p], {f})]
        /\ db' = [db EXCEPT ![p] = Dropped(db[p], {f})]
        /\ created' = created
    BY <1>7 DEF Delete, RowDeleted
  <2>2. QED BY <1>1, <1>4, <2>1
<1>8. ASSUME NEW c \in Clients, Trim(c)
      PROVE  TiersTyped'
  <2>1. call[c].proc \in Procs
    BY <1>8, CallFile DEF Trim
  <2>2. /\ mem' = [mem EXCEPT ![call[c].proc] = Dropped(mem[call[c].proc], call[c].got)]
        /\ db' = db /\ created' = created
    BY <1>8 DEF Trim
  <2>3. QED BY <1>2, <1>4, <2>1, <2>2
<1>9. ASSUME NEW c \in Clients, Remember(c)
      PROVE  TiersTyped'
  <2>1. call[c].proc \in Procs /\ call[c].file \in Files
    BY <1>9, CallFile DEF Remember
  <2>2. /\ mem' = [mem EXCEPT ![call[c].proc] = Remembered(mem[call[c].proc], call[c].file)]
        /\ db' = db /\ created' = created
    BY <1>9 DEF Remember
  <2>3. QED BY <1>2, <1>3, <2>1, <2>2
<1>10. ASSUME NEW p \in Procs, Restart(p)
      PROVE  TiersTyped'
  <2>1. /\ <<>> \in Seq(Files) /\ Len(<<>>) <= Cap /\ IsInjective(<<>>)
    BY UploadAssumption DEF IsInjective
  <2>2. mem' = [mem EXCEPT ![p] = <<>>] /\ db' = db /\ created' = created
    BY <1>10 DEF Restart
  <2>3. QED BY <1>2, <2>1, <2>2
<1>11. ASSUME UNCHANGED <<mem, db, created>>
      PROVE  TiersTyped'
  BY <1>11
<1>12. ASSUME NEW c \in Clients,
             Push(c) \/ Count(c) \/ Rank(c) \/ PutFails(c) \/ Fetch(c) \/ Erase(c) \/ Names(c) \/ Fields(c)
      PROVE  UNCHANGED <<mem, db, created>>
  BY <1>12 DEF Push, Count, Rank, PutFails, Fetch, Erase, Names, Fields
<1>13. ASSUME NEW c \in Clients, NEW p \in Procs, List(c, p) \/ \E f \in Files : GetShared(c, p, f)
      PROVE  UNCHANGED <<mem, db, created>>
  BY <1>13 DEF List, GetShared
<1>14. QED
  BY <1>5, <1>6, <1>7, <1>8, <1>9, <1>10, <1>11, <1>12, <1>13 DEF Next, Upload

LEMMA LogStep ==
  ASSUME Typed, Next
  PROVE  LogTyped'
<1> USE DEF Typed, TypeOK, LogTyped, InUse
<1>1. ASSUME NEW c \in Clients, NEW p \in Procs, NEW f \in Files, Put(c, p, f)
      PROVE  LogTyped'
  <2>1. DOMAIN created' = DOMAIN created \cup {f} /\ f \notin DOMAIN created
    BY <1>1, PutFile
  <2>2. log' = [log EXCEPT !.stored[p] = Append(@, f)] /\ shared' = shared
    BY <1>1 DEF Put
  <2> DEFINE s == log.stored[p]
             t == Append(s, f)
  <2>3. log \in Histories /\ s \in Seq(Files) /\ f \notin Range(s) /\ IsInjective(s)
    BY <2>1 DEF Histories
  <2>4. t \in Seq(Files) /\ Range(t) = Range(s) \cup {f} /\ IsInjective(t)
    <3> HIDE DEF s
    <3> QED BY <2>3, AppendOne
  <2>5. /\ log' \in Histories
        /\ log'.stored = [log.stored EXCEPT ![p] = t]
        /\ log'.pushed = log.pushed /\ log'.gone = log.gone
    BY <2>2, <2>3, <2>4 DEF Histories
  <2>6. log.stored \in [Procs -> Seq(Files)]
    BY <2>3 DEF Histories
  <2> HIDE DEF t
  <2>7. IsInjective(t)
    BY <2>4
  <2>8. Range(t) \subseteq DOMAIN created'
    BY <2>1, <2>4
  <2>9. ASSUME NEW q \in Procs
        PROVE  Range(log'.stored[q]) \subseteq DOMAIN created' /\ IsInjective(log'.stored[q])
    <3>1. CASE q = p
      BY <2>5, <2>6, <2>7, <2>8, <3>1
    <3>2. CASE q # p
      BY <2>1, <2>5, <2>6, <3>2
    <3>3. QED BY <3>1, <3>2
  <2>10. QED BY <2>1, <2>2, <2>5, <2>9
<1>2. ASSUME NEW c \in Clients, Push(c)
      PROVE  LogTyped'
  <2>1. call[c].file \in DOMAIN created /\ call[c].file \in Files
    BY <1>2, CallFile DEF Push
  <2>2. /\ log' = [log EXCEPT !.pushed = @ \cup {call[c].file}, !.calm = @ /\ ~Disturbs(c)]
        /\ shared' = shared \cup {call[c].file} /\ created' = created
    BY <1>2 DEF Push
  <2>3. Disturbs(c) \in BOOLEAN
    BY DEF Disturbs
  <2>4. /\ log' \in Histories /\ log'.stored = log.stored /\ log'.gone = log.gone
        /\ log'.pushed = log.pushed \cup {call[c].file}
    BY <2>1, <2>2, <2>3 DEF Histories
  <2>5. QED BY <2>1, <2>2, <2>4
<1>3. ASSUME NEW c \in Clients, Trim(c)
      PROVE  LogTyped'
  <2>1. log' = [log EXCEPT !.calm = @ /\ ~Disturbs(c)] /\ created' = created /\ shared' \subseteq shared
    BY <1>3 DEF Trim
  <2>2. Disturbs(c) \in BOOLEAN
    BY DEF Disturbs
  <2>3. /\ log' \in Histories /\ log'.stored = log.stored /\ log'.gone = log.gone /\ log'.pushed = log.pushed
    BY <2>1, <2>2 DEF Histories
  <2>4. QED BY <2>1, <2>3
<1>4. ASSUME NEW c \in Clients, PutFails(c)
      PROVE  LogTyped'
  <2>1. call[c].file \in DOMAIN created /\ call[c].file \in Files
    BY <1>4, CallFile DEF PutFails
  <2>2. /\ log' = [log EXCEPT !.pushed = @ \cup (shared' \ shared), !.calm = @ /\ ~Disturbs(c)]
        /\ shared' \subseteq shared \cup {call[c].file} /\ created' = created
    BY <1>4 DEF PutFails
  <2>3. Disturbs(c) \in BOOLEAN
    BY DEF Disturbs
  <2>4. /\ log' \in Histories /\ log'.stored = log.stored /\ log'.gone = log.gone
        /\ log'.pushed = log.pushed \cup (shared' \ shared)
    BY <2>1, <2>2, <2>3 DEF Histories
  <2>5. QED BY <2>1, <2>2, <2>4
<1>5. ASSUME NEW c \in Clients, Remember(c)
      PROVE  LogTyped'
  <2>1. call[c].proc \in Procs /\ call[c].file \in Files
    BY <1>5, CallFile DEF Remember
  <2>2. /\ log' = [log EXCEPT !.fetched = @ \cup {<<call[c].proc, call[c].file>>}]
        /\ shared' = shared /\ created' = created
    BY <1>5 DEF Remember
  <2>3. /\ log' \in Histories /\ log'.stored = log.stored /\ log'.gone = log.gone /\ log'.pushed = log.pushed
    <3>1. <<call[c].proc, call[c].file>> \in Procs \X Files
      BY <2>1
    <3>2. QED BY <2>2, <3>1 DEF Histories
  <2>4. QED BY <2>2, <2>3
<1>6. ASSUME NEW c \in Clients, NEW p \in Procs, NEW f \in Files, Delete(c, p, f)
      PROVE  LogTyped'
  <2>1. log' = [log EXCEPT !.deleted = @ \cup {<<p, f>>}] /\ shared' = shared /\ created' = created
    BY <1>6 DEF Delete
  <2>2. /\ log' \in Histories /\ log'.stored = log.stored /\ log'.gone = log.gone /\ log'.pushed = log.pushed
    <3>1. <<p, f>> \in Procs \X Files
      OBVIOUS
    <3>2. QED BY <2>1, <3>1 DEF Histories
  <2>3. QED BY <2>1, <2>2
<1>7. ASSUME NEW c \in Clients, Erase(c)
      PROVE  LogTyped'
  <2> DEFINE p == call[c].proc
             f == call[c].file
             gone == IF call[c].alone THEN log.gone \cup {<<p, f>>} ELSE log.gone
  <2>1. p \in Procs /\ f \in Files /\ f \in DOMAIN created
    BY <1>7, CallFile DEF Erase
  <2>2. created' = created
    BY <1>7 DEF Erase
  <2>3. CASE shared' = shared \ {f} /\ log' = [log EXCEPT !.erased = @ \cup {f}, !.gone = gone, !.calm = @ /\ ~Disturbs(c)]
    <3>1. Disturbs(c) \in BOOLEAN
      BY DEF Disturbs
    <3>2. gone \subseteq log.gone \cup {<<p, f>>}
      OBVIOUS
    <3> HIDE DEF gone, p, f
    <3>3. gone \in SUBSET (Procs \X Files)
      BY <2>1, <3>2 DEF Histories
    <3>4. /\ log' \in Histories /\ log'.stored = log.stored /\ log'.gone = gone /\ log'.pushed = log.pushed
      BY <2>1, <2>3, <3>1, <3>3 DEF Histories
    <3>5. QED BY <2>1, <2>2, <2>3, <3>2, <3>4
  <2>4. CASE shared' = shared /\ log' = log
    BY <2>2, <2>4
  <2>5. QED BY <1>7, <2>3, <2>4 DEF Erase
<1>8. ASSUME UNCHANGED <<log, shared, created>>
      PROVE  LogTyped'
  BY <1>8
<1>9. ASSUME NEW c \in Clients, Count(c) \/ Rank(c) \/ Fetch(c) \/ Names(c) \/ Fields(c)
      PROVE  UNCHANGED <<log, shared, created>>
  BY <1>9 DEF Count, Rank, Fetch, Names, Fields
<1>10. ASSUME NEW c \in Clients, NEW p \in Procs,
              List(c, p) \/ \E f \in Files : GetLocal(c, p, f) \/ GetShared(c, p, f)
       PROVE  UNCHANGED <<log, shared, created>>
  BY <1>10 DEF List, GetLocal, GetShared
<1>11. ASSUME NEW p \in Procs, Restart(p)
       PROVE  UNCHANGED <<log, shared, created>>
  BY <1>11 DEF Restart
<1>12. QED
  BY <1>1, <1>2, <1>3, <1>4, <1>5, <1>6, <1>7, <1>8, <1>9, <1>10, <1>11 DEF Next, Upload

LEMMA TypedInit == Init => Typed
<1> SUFFICES ASSUME Init PROVE Typed
  OBVIOUS
<1>1. <<>> \in Seq(Files) /\ Len(<<>>) <= Cap /\ IsInjective(<<>>) /\ DOMAIN <<>> = {} /\ Range(<<>>) = {}
  BY UploadAssumption DEF IsInjective, Range
<1>2. TiersTyped
  BY <1>1 DEF Init, TiersTyped
<1>3. CallsTyped
  BY IdleCall DEF Init, CallsTyped, Filed, Active
<1>4. FilesTyped
  BY <1>1 DEF Init, FilesTyped
<1>5. LogTyped
  BY <1>1 DEF Init, LogTyped, Histories
<1>6. QED BY <1>2, <1>3, <1>4, <1>5, TypedParts

LEMMA TypedKept == Typed /\ [Next]_vars => Typed'
<1>1. ASSUME Typed, Next PROVE Typed'
  <2>1. TiersTyped' /\ CallsTyped' /\ FilesTyped' /\ LogTyped'
    BY <1>1, TiersStep, CallsStep, FilesStep, LogStep
  <2>2. QED BY <2>1 DEF Typed, TypeOK, InUse, TiersTyped, CallsTyped,
      FilesTyped, LogTyped
<1>2. ASSUME Typed, UNCHANGED vars PROVE Typed'
  <2>1. TiersTyped /\ CallsTyped /\ FilesTyped /\ LogTyped
    BY <1>2, TypedParts
  <2>2. TiersTyped'
    BY <1>2, <2>1 DEF TiersTyped, vars
  <2>3. CallsTyped'
    BY <1>2, <2>1 DEF CallsTyped, Filed, Active, vars
  <2>4. FilesTyped'
    BY <1>2, <2>1 DEF FilesTyped, vars
  <2>5. LogTyped'
    BY <1>2, <2>1 DEF LogTyped, vars
  <2>6. QED BY <2>2, <2>3, <2>4, <2>5 DEF Typed, TypeOK, InUse, TiersTyped, CallsTyped,
      FilesTyped, LogTyped
<1>3. QED BY <1>1, <1>2

\* Every variable keeps its type; no tier outgrows the cap.
THEOREM UploadTypes == Spec => []TypeOK
<1>1. Typed => TypeOK
  BY DEF Typed
<1>2. QED BY <1>1, TypedInit, TypedKept, PTL DEF Spec

-----------------------------------------------------------------------------
(* What the memory and the table of a process hold *)

\* What Put does to the tiers of its process, and to the history.
LEMMA PutTiers ==
  ASSUME Typed, NEW c \in Clients, NEW p \in Procs, NEW f \in Files, Put(c, p, f)
  PROVE  LET table == Capped(Append(db[p], f))
         IN  /\ \A q \in Procs \ {p} :
                  mem'[q] = mem[q] /\ db'[q] = db[q] /\ log'.stored[q] = log.stored[q]
             /\ db'[p] = table /\ f \notin Range(db[p])
             /\ Range(mem'[p]) \subseteq (Range(mem[p]) \cup {f}) \ (Range(db[p]) \ Range(table))
             /\ log'.stored[p] = Append(log.stored[p], f)
             /\ log.stored[p] \in Seq(Files)
             /\ f \notin Range(log.stored[p])
             /\ log' = [log EXCEPT !.stored = log'.stored]
<1> DEFINE table == Capped(Append(db[p], f))
           r == Remembered(mem[p], f)
           d == Dropped(r, Range(db[p]) \ Range(table))
<1>1. mem \in [Procs -> Seq(Files)] /\ db \in [Procs -> Seq(Files)] /\ log \in Histories
  BY DEF Typed, TypeOK
<1>2. log.stored \in [Procs -> Seq(Files)]
  BY <1>1 DEF Histories
<1>3. /\ mem' = [mem EXCEPT ![p] = d] /\ db' = [db EXCEPT ![p] = table]
      /\ log' = [log EXCEPT !.stored[p] = Append(@, f)]
  BY DEF Put, Stored
<1>4. log'.stored = [log.stored EXCEPT ![p] = Append(@, f)]
  BY <1>1, <1>3 DEF Histories
<1>5. log' = [log EXCEPT !.stored = log'.stored]
  BY <1>1, <1>3, <1>4 DEF Histories
<1>6. r \in Seq(Files) /\ Range(r) \subseteq Range(mem[p]) \cup {f}
  <2>1. mem[p] \in Seq(Files) /\ Len(mem[p]) <= Cap /\ IsInjective(mem[p])
    BY DEF Typed, TypeOK
  <2>2. QED BY <2>1, RememberedFile
<1>7. Range(d) = Range(r) \ (Range(db[p]) \ Range(table))
  <2> HIDE DEF r, table
  <2> QED BY <1>6, DroppedFiles
<1>8. f \notin Range(db[p]) /\ f \notin Range(log.stored[p])
  BY PutFile DEF Typed, InUse
<1> HIDE DEF r, d, table
<1>9. QED BY <1>1, <1>2, <1>3, <1>4, <1>5, <1>6, <1>7, <1>8 DEF table

LEMMA TableAfterPut ==
  ASSUME Typed, NEW p \in Procs, NEW f \in Files, f \notin Range(db[p])
  PROVE  LET a == Append(db[p], f)
             r == Capped(a)
         IN  /\ r \in Seq(Files)
             /\ f \in Range(r) /\ Range(r) \subseteq Range(db[p]) \cup {f}
             /\ \E k \in {0, 1} : /\ Len(r) = Len(a) - k
                                  /\ k = 1 <=> Len(db[p]) = Cap
                                  /\ \A j \in 1..Len(r) : r[j] = a[j + k]
<1>1. db[p] \in Seq(Files) /\ Len(db[p]) <= Cap /\ IsInjective(db[p])
  BY DEF Typed, TypeOK
<1>2. QED BY <1>1, CappedAppend

\* The steps of the other calls leave the tables and what they are compared with.
TablesStay == UNCHANGED db /\ log'.stored = log.stored /\ log'.deleted = log.deleted

LEMMA TableSteps ==
  ASSUME Typed, [Next]_vars,
         ~ \E c \in Clients, p \in Procs, f \in Files : Put(c, p, f) \/ Delete(c, p, f)
  PROVE  TablesStay
<1>1. log \in Histories
  BY DEF Typed, TypeOK
<1>2. ASSUME NEW c \in Clients, Upload(c) \/ Fetch(c) \/ Remember(c) \/ Erase(c) \/ Names(c) \/ Fields(c)
      PROVE  TablesStay
  <2>1. UNCHANGED db
    BY <1>2 DEF Upload, Push, Count, Rank, Trim, PutFails, Fetch, Remember, Erase, Names, Fields
  <2>2. CASE Push(c) \/ Trim(c) \/ PutFails(c)
    BY <1>1, <2>1, <2>2 DEF Push, Trim, PutFails, Histories, TablesStay
  <2>3. CASE Remember(c) \/ Erase(c)
    BY <1>1, <2>1, <2>3 DEF Remember, Erase, Histories, TablesStay
  <2>4. CASE Count(c) \/ Rank(c) \/ Fetch(c) \/ Names(c) \/ Fields(c)
    BY <2>1, <2>4 DEF Count, Rank, Fetch, Names, Fields, TablesStay
  <2>5. QED BY <1>2, <2>2, <2>3, <2>4 DEF Upload
<1>3. ASSUME NEW c \in Clients, NEW p \in Procs, List(c, p) \/ \E f \in Files : GetLocal(c, p, f) \/ GetShared(c, p, f)
      PROVE  TablesStay
  BY <1>3 DEF List, GetLocal, GetShared, TablesStay
<1>4. ASSUME NEW p \in Procs, Restart(p)
      PROVE  TablesStay
  BY <1>4 DEF Restart, TablesStay
<1>5. CASE UNCHANGED vars
  BY <1>5 DEF vars, TablesStay
<1>6. QED
  BY <1>2, <1>3, <1>4, <1>5 DEF Next

\* Memory holds no file that the table has evicted, or it came from Redis.
LEMMA EvictedKept ==
  ASSUME Typed, EvictedIsForgotten, [Next]_vars
  PROVE  EvictedIsForgotten'
<1> USE DEF EvictedIsForgotten
<1>1. log \in Histories /\ mem \in [Procs -> Seq(Files)] /\ db \in [Procs -> Seq(Files)]
  BY DEF Typed, TypeOK
<1>2. ASSUME NEW c \in Clients, NEW p \in Procs, NEW f \in Files, Put(c, p, f)
      PROVE  EvictedIsForgotten'
  <2> DEFINE table == Capped(Append(db[p], f))
  <2>1. /\ \A q \in Procs \ {p} :
             mem'[q] = mem[q] /\ db'[q] = db[q] /\ log'.stored[q] = log.stored[q]
        /\ db'[p] = table /\ f \notin Range(db[p])
        /\ Range(mem'[p]) \subseteq (Range(mem[p]) \cup {f}) \ (Range(db[p]) \ Range(table))
        /\ log'.stored[p] = Append(log.stored[p], f)
        /\ log.stored[p] \in Seq(Files)
        /\ log' = [log EXCEPT !.stored = log'.stored]
    <3> HIDE DEF EvictedIsForgotten
    <3> QED BY <1>2, PutTiers
  <2>2. f \in Range(table)
    BY <2>1, TableAfterPut
  <2>3. Range(log'.stored[p]) = Range(log.stored[p]) \cup {f}
    BY <2>1, AppendOne
  <2>4. log'.fetched = log.fetched
    BY <1>1, <2>1 DEF Histories
  <2> HIDE DEF table
  <2>5. ASSUME NEW q \in Procs, NEW g \in Range(log'.stored[q]) \ Range(db'[q]), g \in Range(mem'[q])
        PROVE  <<q, g>> \in log'.fetched
    <3>1. CASE q = p
      <4>1. g # f /\ g \in Range(log.stored[p]) /\ g \in Range(mem[p]) /\ g \notin Range(db[p])
        BY <2>1, <2>2, <2>3, <2>5, <3>1
      <4>2. QED BY <2>4, <3>1, <4>1
    <3>2. CASE q # p
      BY <2>1, <2>4, <2>5, <3>2
    <3>3. QED BY <3>1, <3>2
  <2>6. QED BY <2>5
<1>3. ASSUME NEW c \in Clients, NEW p \in Procs, NEW f \in Files, Delete(c, p, f)
      PROVE  EvictedIsForgotten'
  <2>1. /\ mem' = [mem EXCEPT ![p] = Dropped(mem[p], {f})]
        /\ db' = [db EXCEPT ![p] = Dropped(db[p], {f})]
        /\ log'.stored = log.stored /\ log'.fetched = log.fetched
    BY <1>1, <1>3 DEF Delete, RowDeleted, Histories
  <2>2. Range(mem'[p]) = Range(mem[p]) \ {f} /\ Range(db'[p]) = Range(db[p]) \ {f}
    BY <1>1, <2>1, DroppedFiles
  <2>3. \A q \in Procs \ {p} : mem'[q] = mem[q] /\ db'[q] = db[q]
    BY <1>1, <2>1
  <2>4. QED BY <2>1, <2>2, <2>3
<1>4. ASSUME NEW p \in Procs, TablesStay, \A q \in Procs : q # p => mem'[q] = mem[q],
             \A g \in Range(mem'[p]) \ Range(mem[p]) : g \in Range(db[p]) \/ <<p, g>> \in log'.fetched,
             log.fetched \subseteq log'.fetched
      PROVE  EvictedIsForgotten'
  BY <1>4 DEF TablesStay
<1>5. ASSUME NEW c \in Clients, NEW p \in Procs, NEW f \in Files, GetLocal(c, p, f), TablesStay
      PROVE  EvictedIsForgotten'
  <2>1. log' = log
    BY <1>5 DEF GetLocal
  <2>2. CASE mem' = mem
    BY <1>5, <2>1, <2>2 DEF TablesStay
  <2>3. CASE f \in Range(db[p]) /\ mem' = [mem EXCEPT ![p] = Remembered(mem[p], f)]
    <3>1. Range(mem'[p]) \subseteq Range(mem[p]) \cup {f}
      <4>1. mem[p] \in Seq(Files) /\ Len(mem[p]) <= Cap /\ IsInjective(mem[p])
        BY DEF Typed, TypeOK
      <4>2. Range(Remembered(mem[p], f)) \subseteq Range(mem[p]) \cup {f}
        BY <4>1, RememberedFile
      <4>3. QED BY <1>1, <2>3, <4>2
    <3>2. \A q \in Procs : q # p => mem'[q] = mem[q]
      BY <1>1, <2>3
    <3>3. QED BY <1>4, <1>5, <2>1, <2>3, <3>1, <3>2
  <2>4. QED BY <1>5, <2>2, <2>3 DEF GetLocal
<1>6. ASSUME NEW c \in Clients, Trim(c), TablesStay
      PROVE  EvictedIsForgotten'
  <2> DEFINE p == call[c].proc
  <2>1. p \in Procs
    BY <1>6, CallFile DEF Trim
  <2>2. mem' = [mem EXCEPT ![p] = Dropped(mem[p], call[c].got)]
    BY <1>6 DEF Trim
  <2>3. Range(mem'[p]) \subseteq Range(mem[p]) /\ \A q \in Procs : q # p => mem'[q] = mem[q]
    <3>1. Range(Dropped(mem[p], call[c].got)) = Range(mem[p]) \ call[c].got
      BY <1>1, <2>1, DroppedFiles
    <3>2. QED BY <1>1, <2>1, <2>2, <3>1
  <2>4. log'.fetched = log.fetched
    BY <1>1, <1>6 DEF Trim, Histories
  <2> HIDE DEF p
  <2>5. QED BY <1>4, <1>6, <2>1, <2>3, <2>4
<1>7. ASSUME NEW c \in Clients, Remember(c), TablesStay
      PROVE  EvictedIsForgotten'
  <2> DEFINE p == call[c].proc
             f == call[c].file
  <2>1. p \in Procs /\ f \in Files
    BY <1>7, CallFile DEF Remember
  <2>2. mem' = [mem EXCEPT ![p] = Remembered(mem[p], f)] /\ log' = [log EXCEPT !.fetched = @ \cup {<<p, f>>}]
    BY <1>7 DEF Remember
  <2>3. Range(mem'[p]) \subseteq Range(mem[p]) \cup {f} /\ \A q \in Procs : q # p => mem'[q] = mem[q]
    <3>1. mem[p] \in Seq(Files) /\ Len(mem[p]) <= Cap /\ IsInjective(mem[p])
      BY <2>1 DEF Typed, TypeOK
    <3>2. Range(Remembered(mem[p], f)) \subseteq Range(mem[p]) \cup {f}
      BY <2>1, <3>1, RememberedFile
    <3>3. QED BY <1>1, <2>1, <2>2, <3>2
  <2>4. log'.fetched = log.fetched \cup {<<p, f>>}
    BY <1>1, <2>2 DEF Histories
  <2> HIDE DEF p, f
  <2>5. QED BY <1>4, <1>7, <2>1, <2>3, <2>4
<1>8. ASSUME NEW p \in Procs, Restart(p), TablesStay
      PROVE  EvictedIsForgotten'
  <2>1. mem' = [mem EXCEPT ![p] = <<>>] /\ log' = log
    BY <1>8 DEF Restart
  <2>2. Range(<<>>) = {}
    BY DEF Range
  <2>3. QED BY <1>1, <1>4, <1>8, <2>1, <2>2
<1>9. ASSUME mem' = mem, log.fetched \subseteq log'.fetched, TablesStay
      PROVE  EvictedIsForgotten'
  BY <1>9 DEF TablesStay
<1>10. ASSUME NEW c \in Clients, Push(c) \/ PutFails(c) \/ Erase(c)
       PROVE  mem' = mem /\ log.fetched \subseteq log'.fetched
  BY <1>1, <1>10 DEF Push, PutFails, Erase, Histories
<1>11. ASSUME NEW c \in Clients, Count(c) \/ Rank(c) \/ Fetch(c) \/ Names(c) \/ Fields(c)
       PROVE  mem' = mem /\ log.fetched \subseteq log'.fetched
  BY <1>11 DEF Count, Rank, Fetch, Names, Fields
<1>12. ASSUME NEW c \in Clients, NEW p \in Procs, List(c, p) \/ \E f \in Files : GetShared(c, p, f)
       PROVE  mem' = mem /\ log.fetched \subseteq log'.fetched
  BY <1>12 DEF List, GetShared
<1>13. CASE UNCHANGED vars
  BY <1>13 DEF vars
<1>14. (~ \E c \in Clients, p \in Procs, f \in Files : Put(c, p, f) \/ Delete(c, p, f)) => TablesStay
  BY TableSteps
<1> HIDE DEF EvictedIsForgotten
<1>15. QED
  BY <1>2, <1>3, <1>5, <1>6, <1>7, <1>8, <1>9, <1>10, <1>11, <1>12, <1>13, <1>14 DEF Next, Upload

\* A file that its process has evicted is not served from its memory, for any
\* number of uploads, gets, deletes, restarts and failures of Redis: put pops
\* what the table lets go from the memory in the same step.
THEOREM EvictedForgotten == Spec => []EvictedIsForgotten
<1>1. Init => EvictedIsForgotten
  BY DEF Init, EvictedIsForgotten, Range
<1>2. QED
  BY <1>1, TypedInit, TypedKept, EvictedKept, PTL DEF Spec

-----------------------------------------------------------------------------
(* The last uploads *)

\* A row has at least as many uploads after it as there are rows after it.
Places ==
  \A p \in Procs : \A j \in 1..Len(db[p]) :
    \E i \in 1..Len(log.stored[p]) :
      db[p][j] = log.stored[p][i] /\ Len(db[p]) - j <= Len(log.stored[p]) - i

Survivors == UploadsSurvive /\ Places

LEMMA PlacesAfterPut ==
  ASSUME Typed, Survivors, NEW c \in Clients, NEW p \in Procs, NEW f \in Files, Put(c, p, f)
  PROVE  Survivors'
<1> DEFINE d == db[p]
           s == log.stored[p]
           a == Append(d, f)
           t == Append(s, f)
           r == Capped(a)
<1>1. /\ \A q \in Procs \ {p} : db'[q] = db[q] /\ log'.stored[q] = log.stored[q]
      /\ db'[p] = r /\ f \notin Range(d)
      /\ log'.stored[p] = t /\ s \in Seq(Files)
      /\ log' = [log EXCEPT !.stored = log'.stored]
  BY PutTiers
<1>2. /\ r \in Seq(Files) /\ f \in Range(r)
      /\ \E k \in {0, 1} : /\ Len(r) = Len(a) - k
                           /\ k = 1 <=> Len(d) = Cap
                           /\ \A j \in 1..Len(r) : r[j] = a[j + k]
  BY <1>1, TableAfterPut
<1>3. d \in Seq(Files) /\ Len(d) <= Cap /\ Cap \in Nat \ {0}
  BY UploadAssumption DEF Typed, TypeOK
<1>4. IsInjective(s)
  BY DEF Typed, InUse
<1>5. log'.deleted = log.deleted
  <2>1. log \in Histories
    BY DEF Typed, TypeOK
  <2>2. QED BY <1>1, <2>1 DEF Histories
<1>6. /\ \A j \in 1..Len(d) : \E i \in 1..Len(s) : d[j] = s[i] /\ Len(d) - j <= Len(s) - i
      /\ \A i \in 1..Len(s) : i + Cap > Len(s) /\ <<p, s[i]>> \notin log.deleted => s[i] \in Range(d)
  <2>1. DOMAIN s = 1..Len(s)
    BY <1>1
  <2>2. QED BY <2>1 DEF Survivors, Places, UploadsSurvive
<1> HIDE DEF d, s
<1>7. /\ a \in Seq(Files) /\ Len(a) = Len(d) + 1 /\ a[Len(d) + 1] = f
      /\ \A j \in 1..Len(d) : a[j] = d[j]
  BY <1>3, AppendOne
<1>8. /\ t \in Seq(Files) /\ Len(t) = Len(s) + 1 /\ t[Len(s) + 1] = f
      /\ \A j \in 1..Len(s) : t[j] = s[j]
  BY <1>1, AppendOne
<1> HIDE DEF a, t, r
<1>9. PICK k \in {0, 1} : /\ Len(r) = Len(a) - k
                          /\ k = 1 <=> Len(d) = Cap
                          /\ \A j \in 1..Len(r) : r[j] = a[j + k]
  BY <1>2
<1>10. Len(d) \in Nat /\ Len(s) \in Nat
  BY <1>1, <1>3
<1>11. ASSUME NEW j \in 1..Len(r)
       PROVE  \E i \in 1..Len(t) : r[j] = t[i] /\ Len(r) - j <= Len(t) - i
  <2>1. CASE j + k = Len(d) + 1
    <3>1. r[j] = f /\ Len(r) = j
      BY <1>7, <1>9, <1>10, <2>1
    <3>2. Len(s) + 1 \in 1..Len(t)
      BY <1>8, <1>10
    <3>3. QED BY <1>8, <1>10, <3>1, <3>2
  <2>2. CASE j + k # Len(d) + 1
    <3>1. j + k \in 1..Len(d)
      BY <1>7, <1>9, <1>10, <2>2
    <3>2. PICK i \in 1..Len(s) : d[j + k] = s[i] /\ Len(d) - (j + k) <= Len(s) - i
      BY <1>6, <3>1
    <3>3. r[j] = d[j + k] /\ t[i] = s[i]
      BY <1>7, <1>8, <1>9, <3>1
    <3>4. i \in 1..Len(t) /\ Len(r) - j <= Len(t) - i
      BY <1>7, <1>8, <1>9, <1>10, <3>2
    <3>5. QED BY <3>2, <3>3, <3>4
  <2>3. QED BY <2>1, <2>2
<1>12. ASSUME NEW i \in 1..Len(t), i + Cap > Len(t), <<p, t[i]>> \notin log.deleted
       PROVE  t[i] \in Range(r)
  <2>1. CASE i = Len(s) + 1
    BY <1>2, <1>8, <2>1
  <2>2. CASE i # Len(s) + 1
    <3>1. i \in 1..Len(s) /\ t[i] = s[i]
      BY <1>8, <1>10, <2>2
    <3>2. s[i] \in Range(d)
      BY <1>3, <1>6, <1>8, <1>10, <1>12, <3>1
    <3>3. PICK j \in 1..Len(d) : d[j] = s[i]
      BY <1>3, <3>2 DEF Range
    <3>4. PICK i2 \in 1..Len(s) : d[j] = s[i2] /\ Len(d) - j <= Len(s) - i2
      BY <1>6, <3>3
    <3>5. i2 = i
      <4>1. s[i] = s[i2] /\ i \in DOMAIN s /\ i2 \in DOMAIN s
        BY <1>1, <3>1, <3>3, <3>4
      <4>2. QED BY <1>4, <4>1 DEF IsInjective
    <3>6. j - k \in 1..Len(r) /\ (j - k) + k = j
      BY <1>3, <1>7, <1>8, <1>9, <1>10, <1>12, <3>1, <3>3, <3>4, <3>5
    <3>7. r[j - k] = s[i]
      <4>1. r[j - k] = a[(j - k) + k]
        BY <1>9, <3>6
      <4>2. QED BY <1>7, <3>3, <3>6, <4>1
    <3>8. QED BY <1>2, <3>1, <3>6, <3>7 DEF Range
  <2>3. QED BY <2>1, <2>2
<1>13. Places'
  <2>1. ASSUME NEW q \in Procs, NEW j \in 1..Len(db'[q])
        PROVE  \E i \in 1..Len(log'.stored[q]) :
                 db'[q][j] = log'.stored[q][i] /\ Len(db'[q]) - j <= Len(log'.stored[q]) - i
    <3>1. CASE q = p
      BY <1>1, <1>11, <2>1, <3>1
    <3>2. CASE q # p
      BY <1>1, <2>1, <3>2 DEF Survivors, Places
    <3> QED BY <3>1, <3>2
  <2> QED BY <2>1 DEF Places
<1>14. UploadsSurvive'
  <2>1. ASSUME NEW q \in Procs, NEW i \in DOMAIN log'.stored[q], i + Cap > Len(log'.stored[q]),
               <<q, log'.stored[q][i]>> \notin log'.deleted
        PROVE  log'.stored[q][i] \in Range(db'[q])
    <3>1. CASE q = p
      <4>1. i \in 1..Len(t)
        BY <1>1, <1>8, <2>1, <3>1
      <4>2. QED BY <1>1, <1>5, <1>12, <2>1, <3>1, <4>1
    <3>2. CASE q # p
      BY <1>1, <1>5, <2>1, <3>2 DEF Survivors, UploadsSurvive
    <3>3. QED BY <3>1, <3>2
  <2>2. QED BY <2>1 DEF UploadsSurvive
<1>15. QED BY <1>13, <1>14 DEF Survivors

LEMMA PlacesAfterDelete ==
  ASSUME Typed, Survivors, NEW c \in Clients, NEW p \in Procs, NEW f \in Files, Delete(c, p, f)
  PROVE  Survivors'
<1> DEFINE d == db[p]
           r == Dropped(d, {f})
<1>1. /\ log \in Histories /\ db \in [Procs -> Seq(Files)] /\ d \in Seq(Files)
      /\ log.stored \in [Procs -> Seq(Files)]
  BY DEF Typed, TypeOK, Histories
<1>2. /\ db' = [db EXCEPT ![p] = r]
      /\ log'.stored = log.stored /\ log'.deleted = log.deleted \cup {<<p, f>>}
  <2>1. log' = [log EXCEPT !.deleted = @ \cup {<<p, f>>}]
    BY DEF Delete
  <2>2. log'.stored = log.stored /\ log'.deleted = log.deleted \cup {<<p, f>>}
    BY <1>1, <2>1 DEF Histories
  <2>3. QED BY <2>2 DEF Delete, RowDeleted
<1>3. \A q \in Procs \ {p} : db'[q] = db[q]
  BY <1>1, <1>2
<1>4. db'[p] = r /\ Range(r) = Range(d) \ {f}
  <2>1. db'[p] = r
    BY <1>1, <1>2
  <2>2. Range(Dropped(d, {f})) = Range(d) \ {f}
    <3> HIDE DEF d
    <3> QED BY <1>1, DroppedFiles
  <2>3. QED BY <2>1, <2>2
<1>5. ASSUME NEW j \in 1..Len(r)
      PROVE  \E i \in 1..Len(log.stored[p]) :
               r[j] = log.stored[p][i] /\ Len(r) - j <= Len(log.stored[p]) - i
  <2> DEFINE S == Range(d) \ {f}
  <2>1. r = Among(d, S)
    BY DEF Dropped
  <2>2. PICK n \in 1..Len(d) : r[j] = d[n] /\ Len(r) - j <= Len(d) - n
    <3>1. j \in 1..Len(Among(d, S))
      BY <2>1
    <3> HIDE DEF d, r, S
    <3>2. QED BY <1>1, <2>1, <3>1, AmongPosition
  <2>3. PICK i \in 1..Len(log.stored[p]) : d[n] = log.stored[p][i] /\ Len(d) - n <= Len(log.stored[p]) - i
    BY DEF Survivors, Places
  <2>4. Len(r) \in Nat /\ Len(d) \in Nat /\ Len(log.stored[p]) \in Nat
    <3>1. Among(d, S) \in Seq(Files)
      <4> HIDE DEF d, S
      <4> QED BY <1>1, AmongRange
    <3> HIDE DEF d, r, S
    <3>2. QED BY <1>1, <2>1, <3>1
  <2> HIDE DEF r, d
  <2>5. QED BY <2>2, <2>3, <2>4
<1>6. Places'
  BY <1>2, <1>3, <1>4, <1>5 DEF Survivors, Places
<1>7. UploadsSurvive'
  <2>1. ASSUME NEW q \in Procs, NEW i \in DOMAIN log.stored[q], i + Cap > Len(log.stored[q]),
               <<q, log.stored[q][i]>> \notin log'.deleted
        PROVE  log.stored[q][i] \in Range(db'[q])
    <3>1. log.stored[q][i] \in Range(db[q])
      BY <1>2, <2>1 DEF Survivors, UploadsSurvive
    <3>2. QED BY <1>2, <1>3, <1>4, <2>1, <3>1
  <2>2. QED BY <1>2, <2>1 DEF UploadsSurvive
<1>8. QED BY <1>6, <1>7 DEF Survivors

LEMMA SurvivorsKept ==
  ASSUME Typed, Survivors, [Next]_vars
  PROVE  Survivors'
<1>1. CASE \E c \in Clients, p \in Procs, f \in Files : Put(c, p, f) \/ Delete(c, p, f)
  BY <1>1, PlacesAfterPut, PlacesAfterDelete
<1>2. CASE ~ \E c \in Clients, p \in Procs, f \in Files : Put(c, p, f) \/ Delete(c, p, f)
  BY <1>2, TableSteps DEF TablesStay, Survivors, Places, UploadsSurvive
<1>3. QED BY <1>1, <1>2

\* One of the last Cap uploads to a process is in its table until it is deleted
\* there, across restarts and whatever other processes do: put evicts the oldest
\* row only, and as many uploads follow a row as rows follow it.
THEOREM UploadsKept == Spec => []UploadsSurvive
<1>1. Init => Survivors
  <2>1. Len(<<>>) = 0 /\ DOMAIN <<>> = {}
    OBVIOUS
  <2>2. QED BY <2>1 DEF Init, Survivors, Places, UploadsSurvive
<1>2. Survivors => UploadsSurvive
  BY DEF Survivors
<1>3. QED
  BY <1>1, <1>2, TypedInit, TypedKept, SurvivorsKept, PTL DEF Spec

-----------------------------------------------------------------------------
(* Deletions *)

\* What alone says: no other call works on the file.
Alone ==
  \A c, d \in Clients :
    c # d /\ call[c].file # NoFile /\ call[c].alone => call[d].file # call[c].file

\* A delete that is alone has taken the file from its process.
Erasing ==
  \A c \in Clients :
    call[c].pc = "erase" /\ call[c].alone =>
      call[c].file \notin Range(mem[call[c].proc]) \cup Range(db[call[c].proc])

\* Nothing can bring back a file that is gone: calls on it only look or delete.
GoneForGood ==
  \A pf \in log.gone : \A c \in Clients :
    call[c].file = pf[2] => call[c].pc \in {"fetch", "erase"}

Deletions == DeletedIsGone /\ Alone /\ Erasing /\ GoneForGood

Held(p) == Range(mem[p]) \cup Range(db[p])

\* A file comes to a process by its upload and by what a fetch has brought.
LEMMA Additions ==
  ASSUME Typed, [Next]_vars, NEW p \in Procs, NEW g \in Held(p)' \ Held(p)
  PROVE  \/ \E c \in Clients : Put(c, p, g)
         \/ \E c \in Clients : Remember(c) /\ call[c].proc = p /\ call[c].file = g
<1>1. /\ mem \in [Procs -> Seq(Files)] /\ db \in [Procs -> Seq(Files)]
      /\ \A q \in Procs : mem[q] \in Seq(Files) /\ Len(mem[q]) <= Cap /\ IsInjective(mem[q])
  BY DEF Typed, TypeOK
<1>2. ASSUME NEW c \in Clients, NEW q \in Procs, NEW f \in Files, Put(c, q, f)
      PROVE  Put(c, p, g)
  <2>1. /\ \A o \in Procs \ {q} : mem'[o] = mem[o] /\ db'[o] = db[o]
        /\ db'[q] = Capped(Append(db[q], f)) /\ f \notin Range(db[q])
        /\ Range(mem'[q]) \subseteq Range(mem[q]) \cup {f}
    BY <1>2, PutTiers
  <2>2. Range(db'[q]) \subseteq Range(db[q]) \cup {f}
    BY <2>1, TableAfterPut
  <2>3. p = q /\ g = f
    BY <2>1, <2>2 DEF Held
  <2>4. QED BY <1>2, <2>3
<1>3. ASSUME NEW c \in Clients, NEW q \in Procs, NEW f \in Files, GetLocal(c, q, f)
      PROVE  FALSE
  <2>1. CASE mem' = mem
    BY <1>3, <2>1 DEF GetLocal, Held
  <2>2. CASE f \in Range(db[q]) /\ mem' = [mem EXCEPT ![q] = Remembered(mem[q], f)]
    <3>1. Range(mem'[q]) \subseteq Range(mem[q]) \cup {f}
      BY <1>1, <2>2, RememberedFile
    <3>2. db' = db /\ \A o \in Procs \ {q} : mem'[o] = mem[o]
      BY <1>1, <1>3, <2>2 DEF GetLocal
    <3>3. QED BY <2>2, <3>1, <3>2 DEF Held
  <2>3. QED BY <1>3, <2>1, <2>2 DEF GetLocal
<1>4. ASSUME NEW c \in Clients, NEW q \in Procs, NEW f \in Files, Delete(c, q, f)
      PROVE  FALSE
  <2>1. mem' = [mem EXCEPT ![q] = Dropped(mem[q], {f})] /\ db' = [db EXCEPT ![q] = Dropped(db[q], {f})]
    BY <1>4 DEF Delete, RowDeleted
  <2>2. Range(mem'[q]) \subseteq Range(mem[q]) /\ Range(db'[q]) \subseteq Range(db[q])
    BY <1>1, <2>1, DroppedFiles
  <2>3. \A o \in Procs \ {q} : mem'[o] = mem[o] /\ db'[o] = db[o]
    BY <1>1, <2>1
  <2>4. QED BY <2>2, <2>3 DEF Held
<1>5. ASSUME NEW c \in Clients, Trim(c)
      PROVE  FALSE
  <2> DEFINE q == call[c].proc
  <2>1. q \in Procs
    BY <1>5, CallFile DEF Trim
  <2>2. mem' = [mem EXCEPT ![q] = Dropped(mem[q], call[c].got)] /\ db' = db
    BY <1>5 DEF Trim
  <2> HIDE DEF q
  <2>3. Range(mem'[q]) \subseteq Range(mem[q])
    BY <1>1, <2>1, <2>2, DroppedFiles
  <2>4. QED BY <1>1, <2>2, <2>3 DEF Held
<1>6. ASSUME NEW c \in Clients, Remember(c)
      PROVE  Remember(c) /\ call[c].proc = p /\ call[c].file = g
  <2> DEFINE q == call[c].proc
             f == call[c].file
  <2>1. q \in Procs /\ f \in Files
    BY <1>6, CallFile DEF Remember
  <2>2. mem' = [mem EXCEPT ![q] = Remembered(mem[q], f)] /\ db' = db
    BY <1>6 DEF Remember
  <2> HIDE DEF q, f
  <2>3. Range(mem'[q]) \subseteq Range(mem[q]) \cup {f}
    BY <1>1, <2>1, <2>2, RememberedFile
  <2>4. p = q /\ g = f
    BY <1>1, <2>2, <2>3 DEF Held
  <2>5. QED BY <1>6, <2>4 DEF q, f
<1>7. ASSUME NEW q \in Procs, Restart(q)
      PROVE  FALSE
  <2>1. mem' = [mem EXCEPT ![q] = <<>>] /\ db' = db
    BY <1>7 DEF Restart
  <2>2. Range(<<>>) = {}
    BY DEF Range
  <2>3. QED BY <1>1, <2>1, <2>2 DEF Held
<1>8. ASSUME mem' = mem, db' = db PROVE FALSE
  BY <1>8 DEF Held
<1>9. ASSUME NEW c \in Clients,
             Push(c) \/ Count(c) \/ Rank(c) \/ PutFails(c) \/ Fetch(c) \/ Erase(c) \/ Names(c) \/ Fields(c)
      PROVE  FALSE
  BY <1>8, <1>9 DEF Push, Count, Rank, PutFails, Fetch, Erase, Names, Fields
<1>10. ASSUME NEW c \in Clients, NEW q \in Procs, List(c, q) \/ \E f \in Files : GetShared(c, q, f)
       PROVE  FALSE
  BY <1>8, <1>10 DEF List, GetShared
<1>11. CASE UNCHANGED vars
  BY <1>8, <1>11 DEF vars
<1>12. QED
  BY <1>2, <1>3, <1>4, <1>5, <1>6, <1>7, <1>9, <1>10, <1>11 DEF Next, Upload

\* How one call looks after a step.
CallEnded(d) == call'[d].file = NoFile /\ call'[d].pc # "erase"

CallGoesOn(d) ==
  /\ call'[d].file = call[d].file /\ call'[d].proc = call[d].proc
  /\ call'[d].alone => call[d].alone
  /\ \A e \in Clients \ {d} :
       call'[d].alone /\ call[d].file # NoFile /\ call'[e].file = call[d].file
         => call[e].file = call[d].file
  /\ \/ call'[d].pc = call[d].pc
     \/ /\ call'[d].pc # "erase"
        /\ call[d].pc = "fetch" => call[d].file \in shared
        /\ call[d].pc # "erase"

CallBegins(d) ==
  LET p == call'[d].proc
      f == call'[d].file
  IN  /\ call'[d].alone => \A e \in Clients \ {d} : call[e].file # f
      /\ \A e \in Clients \ {d} : call'[e].file = call[e].file
      /\ \/ Put(d, p, f) /\ call'[d].pc = "push"
         \/ Delete(d, p, f) /\ p \in Procs /\ f \in Files /\ call'[d].pc = "erase"
         \/ call'[d].pc = "fetch"

LEMMA CallSteps ==
  ASSUME Typed, [Next]_vars, NEW d \in Clients
  PROVE  CallEnded(d) \/ CallGoesOn(d) \/ CallBegins(d)
<1>1. call \in [Clients -> Calls]
  BY DEF Typed, TypeOK
<1>2. ASSUME NEW c \in Clients, NEW f, NEW new \in Calls, Begin(c, f, new), new.file = f, d # c
      PROVE  CallGoesOn(d)
  BY <1>2, BeginCalls DEF CallGoesOn
<1>3. ASSUME NEW c \in Clients, Reply(c)
      PROVE  CallEnded(d) \/ CallGoesOn(d)
  BY <1>1, <1>3, IdleCall DEF Reply, CallEnded, CallGoesOn
<1>4. ASSUME NEW c \in Clients, NEW p \in Procs, NEW f \in Files, NEW pc \in {"push", "fetch", "erase"},
             Begin(c, f, [On(c, p, f) EXCEPT !.pc = pc]),
             pc = "push" => Put(c, p, f), pc = "erase" => Delete(c, p, f)
      PROVE  CallGoesOn(d) \/ CallBegins(d)
  <2> DEFINE new == Started(c, p, f, pc)
  <2>1. /\ new \in Calls /\ new.pc = pc /\ new.proc = p /\ new.file = f
        /\ new.alone <=> \A e \in Clients \ {c} : call[e].file # f
    BY OnCalls
  <2>2. Begin(c, f, new)
    BY <1>4 DEF Started
  <2> HIDE DEF new
  <2>3. CASE d # c
    BY <1>2, <2>1, <2>2, <2>3
  <2>4. CASE d = c
    <3>1. call'[d] = new /\ \A e \in Clients \ {d} : call'[e].file = call[e].file
      BY <2>1, <2>2, <2>4, BeginCalls
    <3>2. QED BY <1>4, <2>1, <2>4, <3>1 DEF CallBegins
  <2>5. QED BY <2>3, <2>4
<1>5. ASSUME NEW c \in Clients, NEW p \in Procs, NEW f \in Files, Put(c, p, f)
      PROVE  CallGoesOn(d) \/ CallBegins(d)
  <2>1. Begin(c, f, [On(c, p, f) EXCEPT !.pc = "push"])
    BY <1>5 DEF Put
  <2>2. QED BY <1>4, <1>5, <2>1
<1>6. ASSUME NEW c \in Clients, NEW p \in Procs, NEW f \in Files, GetShared(c, p, f)
      PROVE  CallGoesOn(d) \/ CallBegins(d)
  <2>1. Begin(c, f, [On(c, p, f) EXCEPT !.pc = "fetch"])
    BY <1>6 DEF GetShared
  <2>2. QED BY <1>4, <2>1
<1>7. ASSUME NEW c \in Clients, NEW p \in Procs, NEW f \in Files, Delete(c, p, f)
      PROVE  CallGoesOn(d) \/ CallBegins(d)
  <2>1. Begin(c, f, [On(c, p, f) EXCEPT !.pc = "erase"])
    BY <1>7 DEF Delete
  <2>2. QED BY <1>4, <1>7, <2>1
<1>8. ASSUME NEW c \in Clients, NEW new \in Calls, Begin(c, NoFile, new), new.file = NoFile, new.pc # "erase"
      PROVE  CallGoesOn(d) \/ CallEnded(d)
  <2>1. CASE d # c
    BY <1>2, <1>8, <2>1
  <2>2. CASE d = c
    BY <1>8, <2>2, BeginCalls DEF CallEnded
  <2>3. QED BY <2>1, <2>2
<1>9. ASSUME NEW c \in Clients, NEW p \in Procs, NEW f \in Files, GetLocal(c, p, f)
      PROVE  CallGoesOn(d) \/ CallEnded(d)
  BY <1>8, <1>9, IdleCall DEF GetLocal
<1>10. ASSUME NEW c \in Clients, NEW p \in Procs, List(c, p)
       PROVE  CallGoesOn(d) \/ CallEnded(d)
  <2> DEFINE new == [Idle EXCEPT !.pc = "names", !.proc = p]
  <2>1. new \in Calls /\ new.pc = "names" /\ new.file = NoFile
    BY DEF Idle, Calls
  <2>2. Begin(c, NoFile, new)
    BY <1>10 DEF List
  <2> HIDE DEF new
  <2>3. QED BY <1>8, <2>1, <2>2
<1>11. ASSUME NEW c \in Clients, NEW pc \in {"count", "fetched"}, Goto(c, pc), call[c].pc # "erase",
              call[c].pc = "fetch" => call[c].file \in shared
       PROVE  CallGoesOn(d)
  BY <1>1, <1>11 DEF Goto, CallGoesOn, Calls
<1>12. ASSUME NEW c \in Clients, Push(c) \/ Fetch(c)
       PROVE  CallGoesOn(d) \/ CallEnded(d)
  <2>1. CASE Reply(c)
    BY <1>3, <2>1
  <2>2. CASE Push(c)
    BY <1>11, <2>2 DEF Push
  <2>3. CASE Fetch(c) /\ ~Reply(c)
    BY <1>11, <2>3 DEF Fetch
  <2>4. QED BY <1>12, <2>1, <2>2, <2>3
<1>13. ASSUME NEW c \in Clients, Count(c) \/ Rank(c) \/ Names(c), ~Reply(c)
       PROVE  CallGoesOn(d)
  <2>1. PICK new \in Calls : /\ call' = [call EXCEPT ![c] = new]
                             /\ new.file = call[c].file /\ new.proc = call[c].proc
                             /\ new.alone = call[c].alone /\ new.pc # "erase"
    <3>1. call[c] \in Calls
      BY <1>1
    <3>2. CASE Count(c)
      <4> DEFINE new == [call[c] EXCEPT !.pc = "rank", !.overflow = Cardinality(shared) - Cap]
      <4>1. call' = [call EXCEPT ![c] = new] /\ Cardinality(shared) - Cap \in Nat
        <5>1. call' = [call EXCEPT ![c].pc = "rank", ![c].overflow = Cardinality(shared) - Cap]
              /\ ~(Cardinality(shared) <= Cap)
          BY <1>13, <3>2 DEF Count, Ack
        <5>2. Cardinality(shared) \in Nat /\ Cap \in Nat
          <6>1. shared \subseteq Files
            BY DEF Typed, TypeOK
          <6>2. QED BY <6>1, UploadAssumption, FS_Subset, FS_CardinalityType
        <5>3. call' = [call EXCEPT ![c] = new]
          BY <5>1
        <5>4. Cardinality(shared) - Cap \in Nat
          BY <5>1, <5>2
        <5>5. QED BY <5>3, <5>4
      <4>2. new \in Calls /\ new.file = call[c].file /\ new.proc = call[c].proc
            /\ new.alone = call[c].alone /\ new.pc = "rank"
        BY <3>1, <4>1 DEF Calls
      <4> HIDE DEF new
      <4>3. QED BY <4>1, <4>2
    <3>3. CASE Rank(c)
      <4> DEFINE new == [call[c] EXCEPT !.pc = "trim", !.got = Oldest(call[c].overflow)]
      <4>1. call' = [call EXCEPT ![c] = new]
        BY <1>13, <3>3 DEF Rank, Ack
      <4>2. Oldest(call[c].overflow) \subseteq Files
        BY DEF Oldest, Typed, TypeOK
      <4>3. new \in Calls /\ new.file = call[c].file /\ new.proc = call[c].proc
            /\ new.alone = call[c].alone /\ new.pc = "trim"
        BY <3>1, <4>2 DEF Calls
      <4> HIDE DEF new
      <4>4. QED BY <4>1, <4>3
    <3>4. CASE Names(c)
      <4> DEFINE new == [call[c] EXCEPT !.pc = "fields", !.got = shared]
      <4>1. call' = [call EXCEPT ![c] = new]
        BY <1>13, <3>4 DEF Names
      <4>2. shared \subseteq Files
        BY DEF Typed, TypeOK
      <4>3. new \in Calls /\ new.file = call[c].file /\ new.proc = call[c].proc
            /\ new.alone = call[c].alone /\ new.pc = "fields"
        BY <3>1, <4>2 DEF Calls
      <4> HIDE DEF new
      <4>4. QED BY <4>1, <4>3
    <3>5. QED BY <1>13, <3>2, <3>3, <3>4
  <2>2. call[c].pc \in {"count", "rank", "names"}
    BY <1>13 DEF Count, Rank, Names
  <2>3. QED BY <1>1, <2>1, <2>2 DEF CallGoesOn
<1>14. ASSUME NEW c \in Clients, Trim(c) \/ PutFails(c) \/ Remember(c) \/ Erase(c) \/ Fields(c)
       PROVE  Reply(c)
  BY <1>14 DEF Trim, PutFails, Remember, Erase, Fields, Ack
<1>15. ASSUME NEW p \in Procs, Restart(p)
       PROVE  CallGoesOn(d) \/ CallEnded(d)
  BY <1>1, <1>15, IdleCall DEF Restart, CallGoesOn, CallEnded
<1>16. CASE UNCHANGED vars
  BY <1>16 DEF vars, CallGoesOn
<1>17. QED
  BY <1>3, <1>5, <1>6, <1>7, <1>9, <1>10, <1>12, <1>13, <1>14, <1>15, <1>16 DEF Next, Upload

LEMMA AloneKept ==
  ASSUME Typed, Alone, [Next]_vars
  PROVE  Alone'
<1> SUFFICES ASSUME NEW c \in Clients, NEW d \in Clients, c # d,
                    call'[c].file # NoFile, call'[c].alone
             PROVE  call'[d].file # call'[c].file
  BY DEF Alone
<1>1. /\ CallEnded(c) \/ CallGoesOn(c) \/ CallBegins(c)
      /\ CallEnded(d) \/ CallGoesOn(d) \/ CallBegins(d)
  BY CallSteps
<1>2. CASE CallGoesOn(c)
  BY <1>2 DEF CallGoesOn, Alone
<1>3. CASE CallBegins(c)
  BY <1>3 DEF CallBegins
<1>4. QED BY <1>1, <1>2, <1>3 DEF CallEnded

\* What Erase does when it reaches Redis, and when it does not.
LEMMA GoneFiles ==
  ASSUME Typed, [Next]_vars, NEW pf \in log'.gone \ log.gone
  PROVE  \E c \in Clients :
           /\ Erase(c) /\ call[c].alone
           /\ pf = <<call[c].proc, call[c].file>>
           /\ shared' = shared \ {call[c].file}
           /\ mem' = mem /\ db' = db
           /\ call' = [call EXCEPT ![c] = Idle]
<1>1. log \in Histories
  BY DEF Typed, TypeOK
<1>2. ASSUME NEW c \in Clients, Upload(c) \/ Fetch(c) \/ Remember(c) \/ Names(c) \/ Fields(c)
      PROVE  log'.gone = log.gone
  <2>1. CASE Push(c) \/ Trim(c) \/ PutFails(c) \/ Remember(c)
    BY <1>1, <2>1 DEF Push, Trim, PutFails, Remember, Histories
  <2>2. CASE Count(c) \/ Rank(c) \/ Fetch(c) \/ Names(c) \/ Fields(c)
    BY <2>2 DEF Count, Rank, Fetch, Names, Fields
  <2>3. QED BY <1>2, <2>1, <2>2 DEF Upload
<1>3. ASSUME NEW c \in Clients, NEW p \in Procs,
             \/ List(c, p)
             \/ \E f \in Files : Put(c, p, f) \/ GetLocal(c, p, f) \/ GetShared(c, p, f) \/ Delete(c, p, f)
      PROVE  log'.gone = log.gone
  BY <1>1, <1>3 DEF List, Put, GetLocal, GetShared, Delete, Histories
<1>4. CASE UNCHANGED vars \/ \E p \in Procs : Restart(p)
  BY <1>4 DEF vars, Restart
<1>5. ASSUME NEW c \in Clients, Erase(c)
      PROVE  /\ call[c].alone
             /\ pf = <<call[c].proc, call[c].file>>
             /\ shared' = shared \ {call[c].file}
             /\ mem' = mem /\ db' = db
             /\ call' = [call EXCEPT ![c] = Idle]
  <2>1. log' # log
    OBVIOUS
  <2>2. /\ shared' = shared \ {call[c].file}
        /\ log'.gone = IF call[c].alone THEN log.gone \cup {<<call[c].proc, call[c].file>>} ELSE log.gone
    BY <1>1, <1>5, <2>1 DEF Erase, Histories
  <2>3. QED BY <1>5, <2>2 DEF Erase, Reply
<1>6. QED BY <1>2, <1>3, <1>4, <1>5 DEF Next

\* A file comes to Redis by its own upload alone.
LEMMA SharedSteps ==
  ASSUME Typed, [Next]_vars, NEW g \in shared' \ shared
  PROVE  \E c \in Clients : call[c].pc = "push" /\ call[c].file = g
<1>1. ASSUME NEW c \in Clients, Upload(c) \/ Fetch(c) \/ Remember(c) \/ Erase(c) \/ Names(c) \/ Fields(c)
      PROVE  call[c].pc = "push" /\ call[c].file = g
  BY <1>1 DEF Upload, Push, Count, Rank, Trim, PutFails, Fetch, Remember, Erase, Names, Fields
<1>2. ASSUME NEW c \in Clients, NEW p \in Procs,
             \/ List(c, p)
             \/ \E f \in Files : Put(c, p, f) \/ GetLocal(c, p, f) \/ GetShared(c, p, f) \/ Delete(c, p, f)
      PROVE  FALSE
  BY <1>2 DEF List, Put, GetLocal, GetShared, Delete
<1>3. CASE UNCHANGED vars \/ \E p \in Procs : Restart(p)
  BY <1>3 DEF vars, Restart
<1>4. QED BY <1>1, <1>2, <1>3 DEF Next

LEMMA ErasingKept ==
  ASSUME Typed, Deletions, [Next]_vars
  PROVE  Erasing'
<1> SUFFICES ASSUME NEW c \in Clients, NEW p, NEW f, p = call'[c].proc, f = call'[c].file,
                    call'[c].pc = "erase", call'[c].alone
             PROVE  f \notin Held(p)'
  BY DEF Erasing, Held
<1>1. CASE CallGoesOn(c)
  <2>1. /\ call[c].pc = "erase" /\ call[c].alone /\ call[c].file = f /\ call[c].proc = p
    BY <1>1 DEF CallGoesOn
  <2>2. f \notin Held(p)
    BY <2>1 DEF Deletions, Erasing, Held
  <2>3. p \in Procs /\ f \in DOMAIN created /\ f # NoFile
    BY <2>1, CallFile
  <2>4. ASSUME NEW d \in Clients, Put(d, p, f) PROVE FALSE
    BY <2>3, <2>4 DEF Put, NewId
  <2>5. ASSUME NEW d \in Clients, Remember(d), call[d].file = f PROVE FALSE
    <3>1. call[d].pc = "fetched"
      BY <2>5 DEF Remember
    <3>2. QED BY <2>1, <2>3, <2>5, <3>1 DEF Deletions, Alone
  <2>6. f \notin Held(p)'
    BY <2>2, <2>3, <2>4, <2>5, Additions
  <2>7. QED BY <2>6
<1>2. CASE Delete(c, p, f) /\ p \in Procs /\ f \in Files
  <2>1. mem \in [Procs -> Seq(Files)] /\ db \in [Procs -> Seq(Files)]
    BY DEF Typed, TypeOK
  <2>2. mem' = [mem EXCEPT ![p] = Dropped(mem[p], {f})] /\ db' = [db EXCEPT ![p] = Dropped(db[p], {f})]
    BY <1>2 DEF Delete, RowDeleted
  <2>3. Range(Dropped(mem[p], {f})) = Range(mem[p]) \ {f} /\ Range(Dropped(db[p], {f})) = Range(db[p]) \ {f}
    BY <1>2, <2>1, DroppedFiles
  <2>4. f \notin Held(p)'
    BY <1>2, <2>1, <2>2, <2>3 DEF Held
  <2>5. QED BY <2>4
<1>3. CASE CallBegins(c)
  BY <1>2, <1>3 DEF CallBegins
<1>4. CASE CallEnded(c)
  BY <1>4 DEF CallEnded
<1>5. QED BY <1>1, <1>3, <1>4, CallSteps

LEMMA GoneForGoodKept ==
  ASSUME Typed, Deletions, [Next]_vars
  PROVE  GoneForGood'
<1> SUFFICES ASSUME NEW pf \in log'.gone, NEW c \in Clients, call'[c].file = pf[2]
             PROVE  call'[c].pc \in {"fetch", "erase"}
  BY DEF GoneForGood
<1>1. CASE pf \notin log.gone
  <2>1. PICK e \in Clients : /\ Erase(e) /\ call[e].alone
                             /\ pf = <<call[e].proc, call[e].file>>
                             /\ call' = [call EXCEPT ![e] = Idle]
    BY <1>1, GoneFiles
  <2>2. call[e].file # NoFile /\ pf[2] = call[e].file
    BY <2>1, CallFile DEF Erase
  <2>3. call \in [Clients -> Calls]
    BY DEF Typed, TypeOK
  <2>4. CASE c = e
    BY <2>1, <2>2, <2>3, <2>4, IdleCall
  <2>5. CASE c # e
    <3>1. call'[c] = call[c]
      BY <2>1, <2>3, <2>5
    <3>2. QED BY <2>1, <2>2, <2>5, <3>1 DEF Deletions, Alone
  <2>6. QED BY <2>4, <2>5
<1>2. CASE pf \in log.gone
  <2>1. pf[2] \in DOMAIN created /\ pf[2] # NoFile /\ pf[2] \notin shared
    BY <1>2, UploadAssumption DEF Typed, TypeOK, InUse, Deletions, DeletedIsGone
  <2>2. CASE CallGoesOn(c)
    <3>1. call[c].pc \in {"fetch", "erase"} /\ call[c].file = pf[2]
      BY <1>2, <2>2 DEF CallGoesOn, Deletions, GoneForGood
    <3>2. QED BY <2>1, <2>2, <3>1 DEF CallGoesOn
  <2>3. CASE CallBegins(c)
    BY <2>1, <2>3 DEF CallBegins, Put, NewId
  <2>4. CASE CallEnded(c)
    BY <2>1, <2>4 DEF CallEnded
  <2>5. QED BY <2>2, <2>3, <2>4, CallSteps
<1>3. QED BY <1>1, <1>2

LEMMA DeletedKept ==
  ASSUME Typed, Deletions, [Next]_vars
  PROVE  DeletedIsGone'
<1> SUFFICES ASSUME NEW pf \in log'.gone
             PROVE  pf[2] \notin Held(pf[1])' /\ pf[2] \notin shared'
  BY DEF DeletedIsGone, Held
<1>1. CASE pf \notin log.gone
  <2>1. PICK e \in Clients : /\ Erase(e) /\ call[e].alone
                             /\ pf = <<call[e].proc, call[e].file>>
                             /\ shared' = shared \ {call[e].file}
                             /\ mem' = mem /\ db' = db
    BY <1>1, GoneFiles
  <2>2. call[e].file \notin Held(call[e].proc)
    BY <2>1 DEF Deletions, Erasing, Held, Erase
  <2>3. QED BY <2>1, <2>2 DEF Held
<1>2. CASE pf \in log.gone
  <2> DEFINE p == pf[1]
             f == pf[2]
  <2>1. f \in DOMAIN created /\ f \notin Held(p) /\ f \notin shared
    BY <1>2 DEF Typed, InUse, Deletions, DeletedIsGone, Held
  <2>2. p \in Procs
    BY <1>2 DEF Typed, TypeOK, Histories
  <2>3. \A c \in Clients : call[c].file = f => call[c].pc \in {"fetch", "erase"}
    BY <1>2 DEF Deletions, GoneForGood
  <2> HIDE DEF p, f
  <2>4. ASSUME NEW c \in Clients, Put(c, p, f) PROVE FALSE
    BY <2>1, <2>4 DEF Put, NewId
  <2>5. ASSUME NEW c \in Clients, Remember(c), call[c].file = f PROVE FALSE
    BY <2>3, <2>5 DEF Remember
  <2>6. f \notin Held(p)'
    BY <2>1, <2>2, <2>4, <2>5, Additions
  <2>7. f \notin shared'
    BY <2>1, <2>3, SharedSteps
  <2>8. QED BY <2>6, <2>7 DEF p, f
<1>3. QED BY <1>1, <1>2

\* A deletion that reached Redis, and met no other call on its file, is final
\* where it was made: no fetch begun before it can put the file back, because a
\* call on the same file takes away that it is alone, and later fetches find
\* nothing in Redis.
THEOREM DeletionsFinal == Spec => []DeletedIsGone
<1>1. Init => Deletions
  BY IdleCall DEF Init, Deletions, DeletedIsGone, Alone, Erasing, GoneForGood
<1>2. Deletions => DeletedIsGone
  BY DEF Deletions
<1>3. Typed /\ Deletions /\ [Next]_vars => Deletions'
  <2> SUFFICES ASSUME Typed, Deletions, [Next]_vars PROVE Deletions'
    OBVIOUS
  <2>1. Alone'
    BY AloneKept DEF Deletions
  <2>2. QED BY <2>1, ErasingKept, GoneForGoodKept, DeletedKept DEF Deletions
<1>4. QED
  BY <1>1, <1>2, <1>3, TypedInit, TypedKept, PTL DEF Spec
-----------------------------------------------------------------------------
(* The cap in Redis *)

\* As long as no trim has met another write, an upload that is about to trim
\* has counted, and ranked, what is in Redis now.
Counted ==
  log.calm => \A c \in Clients :
    /\ call[c].pc \in {"rank", "trim"} => Cardinality(shared) > Cap
    /\ call[c].pc = "rank" => call[c].overflow = Cardinality(shared) - Cap
    /\ call[c].pc = "trim" => call[c].got = Oldest(Cardinality(shared) - Cap)

Newer(f) == {g \in log.pushed : Older(f, g)}

\* Call d begins, ends, or is left as it is while Redis keeps its files.
StillThere(d) ==
  /\ shared' = shared
  /\ \A f \in DOMAIN created : f \in DOMAIN created' /\ created'[f] = created[f]
  /\ log.calm
  /\ \/ call'[d].pc = call[d].pc /\ call'[d].overflow = call[d].overflow /\ call'[d].got = call[d].got
     \/ Count(d) \/ Rank(d)

LEMMA SharedFinite ==
  ASSUME Typed
  PROVE  /\ IsFiniteSet(shared) /\ Cardinality(shared) \in Nat
         /\ IsFiniteSet(log.pushed) /\ Cardinality(log.pushed) \in Nat
<1>1. shared \in SUBSET Files /\ log.pushed \in SUBSET Files
  BY DEF Typed, TypeOK, InUse
<1>2. IsFiniteSet(Files)
  BY UploadAssumption
<1>3. IsFiniteSet(shared) /\ IsFiniteSet(log.pushed)
  BY <1>1, <1>2, FS_Subset
<1>4. QED BY <1>3, FS_CardinalityType

\* A file among the oldest beyond the cap has Cap newer ones.
LEMMA OldestHaveNewer ==
  ASSUME Typed, Cardinality(shared) > Cap,
         NEW f \in Oldest(Cardinality(shared) - Cap)
  PROVE  Cardinality({g \in shared : Older(f, g)}) >= Cap
<1> DEFINE before == {g \in shared : Older(g, f)}
           after == {g \in shared : Older(f, g)}
<1>1. IsFiniteSet(shared) /\ Cardinality(shared) \in Nat /\ Cap \in Nat
  BY SharedFinite, UploadAssumption
<1>2. f \in shared /\ Cardinality(before) < Cardinality(shared) - Cap
  BY DEF Oldest
<1>3. before \in SUBSET shared /\ after \in SUBSET shared
  OBVIOUS
<1>4. shared = (before \cup after) \cup {f}
  <2>1. shared \subseteq DOMAIN created /\ shared \subseteq Nat
    BY UploadAssumption DEF Typed, TypeOK
  <2>2. \A g \in shared : created[g] \in Nat
    BY <2>1 DEF Typed, TypeOK
  <2>3. \A g \in shared : Older(g, f) \/ Older(f, g) \/ g = f
    BY <1>2, <2>1, <2>2 DEF Older
  <2>4. QED BY <1>2, <2>3
<1> HIDE DEF before, after
<1>5. /\ IsFiniteSet(before) /\ IsFiniteSet(after)
  BY <1>1, <1>3, FS_Subset
<1>6. Cardinality(before) \in Nat /\ Cardinality(after) \in Nat
  BY <1>5, FS_CardinalityType
<1>7. /\ IsFiniteSet(before \cup after)
      /\ Cardinality(before \cup after) = Cardinality(before) + Cardinality(after) - Cardinality(before \cap after)
  BY <1>5, FS_Union
<1>8. IsFiniteSet(before \cap after) /\ Cardinality(before \cap after) \in Nat
  <2>1. before \cap after \in SUBSET before
    OBVIOUS
  <2>2. IsFiniteSet(before \cap after)
    BY <1>5, <2>1, FS_Subset
  <2>3. QED BY <2>2, FS_CardinalityType
<1>9. Cardinality(shared) <= Cardinality(before \cup after) + 1
  <2>1. Cardinality(before \cup after) \in Nat
    BY <1>7, FS_CardinalityType
  <2>2. \/ Cardinality((before \cup after) \cup {f}) = Cardinality(before \cup after)
        \/ Cardinality((before \cup after) \cup {f}) = Cardinality(before \cup after) + 1
    BY <1>7, FS_AddElement
  <2>3. QED BY <1>4, <2>1, <2>2
<1>10. Cardinality(after) >= Cap
  BY <1>1, <1>2, <1>6, <1>7, <1>8, <1>9
<1>11. QED BY <1>10 DEF after

LEMMA TrimmingSteps ==
  ASSUME Typed, [Next]_vars, log'.calm, NEW d \in Clients, call'[d].pc \in {"rank", "trim"}
  PROVE  StillThere(d)
<1> USE DEF StillThere
<1>1. call \in [Clients -> Calls] /\ log \in Histories
  BY DEF Typed, TypeOK
<1>2. ASSUME NEW c \in Clients, Push(c) \/ Trim(c) \/ PutFails(c) \/ Erase(c)
      PROVE  StillThere(d)
  <2>1. log.calm /\ created' = created
    BY <1>1, <1>2 DEF Push, Trim, PutFails, Erase, Histories
  <2>2. c # d
    <3>1. call[c] \in Calls
      BY <1>1
    <3>2. CASE Push(c)
      <4>1. call'[c].pc = "count"
        BY <1>1, <3>1, <3>2 DEF Push, Goto, Calls
      <4>2. QED BY <4>1
    <3>3. CASE Trim(c) \/ PutFails(c) \/ Erase(c)
      <4>1. call'[c] = Idle
        BY <1>1, <3>3 DEF Trim, PutFails, Erase, Ack, Reply
      <4>2. QED BY <4>1, IdleCall
    <3>4. QED BY <1>2, <3>2, <3>3
  <2>3. call'[d] = call[d]
    BY <1>1, <1>2, <2>2 DEF Push, Trim, PutFails, Erase, Ack, Reply, Goto
  <2>4. Disturbs(c)
    BY <2>2, <2>3 DEF Disturbs, Trimming
  <2>5. shared' = shared
    BY <1>1, <1>2, <2>4 DEF Push, Trim, PutFails, Erase, Histories
  <2>6. QED BY <2>1, <2>3, <2>5
<1>3. ASSUME NEW c \in Clients, Count(c) \/ Rank(c) \/ Fetch(c) \/ Remember(c) \/ Names(c) \/ Fields(c)
      PROVE  StillThere(d)
  <2>1. /\ log.calm /\ created' = created /\ shared' = shared
    BY <1>1, <1>3 DEF Count, Rank, Fetch, Remember, Names, Fields, Histories
  <2>2. CASE c # d
    <3>1. call'[d] = call[d]
      BY <1>1, <1>3, <2>2 DEF Count, Rank, Fetch, Remember, Names, Fields, Ack, Reply, Goto
    <3>2. QED BY <2>1, <3>1
  <2>3. CASE c = d
    <3>1. ASSUME Fetch(d) \/ Remember(d) \/ Names(d) \/ Fields(d)
          PROVE  FALSE
      <4>1. \/ call' = [call EXCEPT ![d] = Idle]
            \/ call' = [call EXCEPT ![d].pc = "fetched"]
            \/ call' = [call EXCEPT ![d].pc = "fields", ![d].got = shared]
        BY <3>1 DEF Fetch, Remember, Names, Fields, Reply, Goto
      <4>2. call[d] \in Calls
        BY <1>1
      <4>3. CASE call' = [call EXCEPT ![d] = Idle]
        BY <1>1, <4>3, IdleCall
      <4>4. CASE call' = [call EXCEPT ![d].pc = "fetched"]
        BY <1>1, <4>2, <4>4 DEF Calls
      <4>5. CASE call' = [call EXCEPT ![d].pc = "fields", ![d].got = shared]
        BY <1>1, <4>2, <4>5 DEF Calls
      <4>6. QED BY <4>1, <4>3, <4>4, <4>5
    <3>2. QED BY <1>3, <2>1, <2>3, <3>1
  <2>4. QED BY <2>2, <2>3
<1>4. ASSUME NEW c \in Clients, NEW f, NEW new \in Calls, Begin(c, f, new), new.pc \notin {"rank", "trim"}
      PROVE  call'[d].pc = call[d].pc /\ call'[d].overflow = call[d].overflow /\ call'[d].got = call[d].got
  BY <1>4, BeginCalls
<1>5. ASSUME NEW c \in Clients, NEW p \in Procs, NEW f \in Files, Put(c, p, f)
      PROVE  StillThere(d)
  <2>1. call'[d].pc = call[d].pc /\ call'[d].overflow = call[d].overflow /\ call'[d].got = call[d].got
    <3>1. Started(c, p, f, "push") \in Calls /\ Started(c, p, f, "push").pc = "push"
      BY OnCalls
    <3>2. Begin(c, f, Started(c, p, f, "push"))
      BY <1>5 DEF Put, Started
    <3>3. QED BY <1>4, <3>1, <3>2
  <2>2. \A g \in DOMAIN created : g \in DOMAIN created' /\ created'[g] = created[g]
    BY <1>5, PutFile
  <2>3. shared' = shared /\ log.calm
    BY <1>1, <1>5 DEF Put, Histories
  <2>4. QED BY <2>1, <2>2, <2>3
<1>6. ASSUME NEW c \in Clients, NEW p \in Procs, NEW f \in Files,
             GetLocal(c, p, f) \/ GetShared(c, p, f) \/ Delete(c, p, f)
      PROVE  StillThere(d)
  <2>1. call'[d].pc = call[d].pc /\ call'[d].overflow = call[d].overflow /\ call'[d].got = call[d].got
    <3>1. /\ Started(c, p, f, "fetch") \in Calls /\ Started(c, p, f, "fetch").pc = "fetch"
          /\ Started(c, p, f, "erase") \in Calls /\ Started(c, p, f, "erase").pc = "erase"
      BY OnCalls
    <3>2. \/ Begin(c, f, Started(c, p, f, "fetch")) \/ Begin(c, f, Started(c, p, f, "erase"))
          \/ Begin(c, NoFile, Idle)
      BY <1>6 DEF GetLocal, GetShared, Delete, Started
    <3>3. QED BY <1>4, <3>1, <3>2, IdleCall
  <2>2. shared' = shared /\ log.calm /\ created' = created
    BY <1>1, <1>6 DEF GetLocal, GetShared, Delete, Histories
  <2>3. QED BY <2>1, <2>2
<1>7. ASSUME NEW c \in Clients, NEW p \in Procs, List(c, p)
      PROVE  StillThere(d)
  <2> DEFINE new == [Idle EXCEPT !.pc = "names", !.proc = p]
  <2>1. new \in Calls /\ new.pc = "names"
    BY DEF Idle, Calls
  <2>2. Begin(c, NoFile, new) /\ shared' = shared /\ log' = log /\ created' = created
    BY <1>7 DEF List
  <2> HIDE DEF new
  <2>3. QED BY <1>4, <2>1, <2>2
<1>8. ASSUME NEW p \in Procs, Restart(p)
      PROVE  StillThere(d)
  BY <1>1, <1>8 DEF Restart, Idle
<1>9. CASE UNCHANGED vars
  BY <1>9 DEF vars
<1>10. QED BY <1>2, <1>3, <1>5, <1>6, <1>7, <1>8, <1>9 DEF Next, Upload

LEMMA CountedKept ==
  ASSUME Typed, Counted, [Next]_vars
  PROVE  Counted'
<1> SUFFICES ASSUME log'.calm, NEW d \in Clients, call'[d].pc \in {"rank", "trim"}
             PROVE  /\ Cardinality(shared') > Cap
                    /\ call'[d].pc = "rank" => call'[d].overflow = Cardinality(shared') - Cap
                    /\ call'[d].pc = "trim" => call'[d].got = Oldest(Cardinality(shared) - Cap)'
  BY DEF Counted
<1>1. StillThere(d)
  BY TrimmingSteps
<1>2. shared' = shared /\ log.calm
  BY <1>1 DEF StillThere
<1>3. \A n : Oldest(n)' = Oldest(n)
  <2>1. \A f, g \in shared : Older(f, g)' <=> Older(f, g)
    BY <1>1 DEF StillThere, Older, Typed, TypeOK
  <2>2. QED BY <1>2, <2>1 DEF Oldest
<1>4. call \in [Clients -> Calls]
  BY DEF Typed, TypeOK
<1>5. Cardinality(shared) \in Nat /\ Cap \in Nat
  BY SharedFinite, UploadAssumption
<1>6. CASE Count(d)
  <2>1. call[d] \in Calls /\ call[d].pc = "count"
    BY <1>4, <1>6 DEF Count
  <2>2. CASE Cardinality(shared) <= Cap
    BY <1>4, <1>6, <2>2, IdleCall DEF Count, Ack, Reply
  <2>3. CASE Cardinality(shared) > Cap
    <3>1. call' = [call EXCEPT ![d].pc = "rank", ![d].overflow = Cardinality(shared) - Cap]
      BY <1>5, <1>6, <2>3 DEF Count
    <3>2. call'[d].pc = "rank" /\ call'[d].overflow = Cardinality(shared) - Cap
      BY <1>4, <2>1, <3>1 DEF Calls
    <3>3. QED BY <1>2, <2>3, <3>2
  <2>4. QED BY <1>5, <2>2, <2>3
<1>7. CASE Rank(d)
  <2>1. call[d].overflow = Cardinality(shared) - Cap /\ Cardinality(shared) > Cap
    BY <1>2, <1>7 DEF Counted, Rank
  <2>2. call'[d].pc = "trim" /\ call'[d].got = Oldest(call[d].overflow)
    <3>1. call[d] \in Calls
      BY <1>4
    <3>2. CASE shared = {}
      BY <1>4, <1>7, <3>2, IdleCall DEF Rank, Ack, Reply
    <3>3. CASE shared # {}
      <4>1. call' = [call EXCEPT ![d].pc = "trim", ![d].got = Oldest(call[d].overflow)]
        BY <1>7, <3>3 DEF Rank
      <4>2. QED BY <1>4, <3>1, <4>1 DEF Calls
    <3>4. QED BY <3>2, <3>3
  <2>3. QED BY <1>2, <1>3, <2>1, <2>2
<1>8. CASE call'[d].pc = call[d].pc /\ call'[d].overflow = call[d].overflow /\ call'[d].got = call[d].got
  BY <1>2, <1>3, <1>8 DEF Counted
<1>9. QED BY <1>1, <1>6, <1>7, <1>8 DEF StillThere

\* What the calls in flight write into the histories.
LEMMA Written ==
  ASSUME Typed, NEW c \in Clients,
         Upload(c) \/ Fetch(c) \/ Remember(c) \/ Erase(c) \/ Names(c) \/ Fields(c)
  PROVE  /\ log'.calm => log.calm
         /\ log.pushed \subseteq log'.pushed
         /\ log'.pushed \subseteq log.pushed \cup shared'
         /\ log.erased \subseteq log'.erased
         /\ Erase(c) => shared \ shared' \subseteq log'.erased
<1>1. log \in Histories
  BY DEF Typed, TypeOK
<1>2. CASE Push(c)
  <2>1. log'.pushed = log.pushed \cup {call[c].file} /\ log'.erased = log.erased
    BY <1>1, <1>2 DEF Push, Histories
  <2>2. log'.calm => log.calm
    BY <1>1, <1>2 DEF Push, Histories
  <2>3. call[c].file \in shared' /\ ~Erase(c)
    BY <1>2 DEF Push, Erase
  <2>4. QED BY <2>1, <2>2, <2>3
<1>3. CASE Trim(c)
  <2>1. log'.pushed = log.pushed /\ log'.erased = log.erased
    BY <1>1, <1>3 DEF Trim, Histories
  <2>2. log'.calm => log.calm
    BY <1>1, <1>3 DEF Trim, Histories
  <2>3. ~Erase(c)
    BY <1>3 DEF Trim, Erase
  <2>4. QED BY <2>1, <2>2, <2>3
<1>4. CASE PutFails(c)
  <2>1. log'.pushed = log.pushed \cup (shared' \ shared) /\ log'.erased = log.erased
    BY <1>1, <1>4 DEF PutFails, Histories
  <2>2. log'.calm => log.calm
    BY <1>1, <1>4 DEF PutFails, Histories
  <2>3. ~Erase(c)
    BY <1>4 DEF PutFails, Erase
  <2>4. QED BY <2>1, <2>2, <2>3
<1>5. CASE Remember(c)
  <2>1. /\ log'.pushed = log.pushed /\ log'.erased = log.erased
        /\ log'.calm = log.calm /\ shared' = shared
    BY <1>1, <1>5 DEF Remember, Histories
  <2>2. QED BY <2>1
<1>6. CASE Erase(c)
  <2>1. CASE log' = log /\ shared' = shared
    BY <2>1
  <2>2. CASE log' # log \/ shared' # shared
    <3>1. log'.erased = log.erased \cup {call[c].file} /\ log'.pushed = log.pushed
      BY <1>1, <1>6, <2>2 DEF Erase, Histories
    <3>2. log'.calm => log.calm
      BY <1>1, <1>6, <2>2 DEF Erase, Histories
    <3>3. shared' = shared \ {call[c].file}
      BY <1>6, <2>2 DEF Erase
    <3>4. QED BY <3>1, <3>2, <3>3
  <2>3. QED BY <2>1, <2>2
<1>7. CASE Count(c) \/ Rank(c) \/ Fetch(c) \/ Names(c) \/ Fields(c)
  <2>1. log' = log /\ shared' = shared
    BY <1>7 DEF Count, Rank, Fetch, Names, Fields
  <2>2. QED BY <2>1
<1>8. QED BY <1>2, <1>3, <1>4, <1>5, <1>6, <1>7 DEF Upload

\* The past and the times of the files stay what they were.
LEMMA PastSteps ==
  ASSUME Typed, [Next]_vars
  PROVE  /\ log'.calm => log.calm
         /\ log.pushed \subseteq log'.pushed /\ log.erased \subseteq log'.erased
         /\ \A g \in DOMAIN created : g \in DOMAIN created' /\ created'[g] = created[g]
<1>1. log \in Histories
  BY DEF Typed, TypeOK
<1>2. ASSUME NEW c \in Clients, NEW p \in Procs, NEW f \in Files, Put(c, p, f)
      PROVE  \A g \in DOMAIN created : g \in DOMAIN created' /\ created'[g] = created[g]
  BY <1>2, PutFile
<1>3. ASSUME NEW c \in Clients, NEW p \in Procs, NEW f \in Files,
             Put(c, p, f) \/ GetLocal(c, p, f) \/ GetShared(c, p, f) \/ Delete(c, p, f)
      PROVE  log'.calm = log.calm /\ log'.pushed = log.pushed /\ log'.erased = log.erased
  BY <1>1, <1>3 DEF Put, GetLocal, GetShared, Delete, Histories
<1>4. ASSUME NEW c \in Clients, NEW p \in Procs, NEW f \in Files,
             GetLocal(c, p, f) \/ GetShared(c, p, f) \/ Delete(c, p, f)
      PROVE  created' = created
  BY <1>4 DEF GetLocal, GetShared, Delete
<1>5. ASSUME NEW c \in Clients, Upload(c) \/ Fetch(c) \/ Remember(c) \/ Erase(c) \/ Names(c) \/ Fields(c)
      PROVE  /\ log'.calm => log.calm
             /\ log.pushed \subseteq log'.pushed /\ log.erased \subseteq log'.erased
             /\ created' = created
  <2>1. created' = created
    BY <1>5 DEF Upload, Push, Count, Rank, Trim, PutFails, Fetch, Remember, Erase, Names, Fields
  <2>2. QED BY <1>5, <2>1, Written
<1>6. CASE (\E p \in Procs : Restart(p) \/ \E c \in Clients : List(c, p)) \/ UNCHANGED vars
  BY <1>6 DEF Restart, List, vars
<1>7. QED BY <1>2, <1>3, <1>4, <1>5, <1>6 DEF Next

\* A file the histories learn of as pushed is in Redis.
LEMMA PushedSteps ==
  ASSUME Typed, [Next]_vars
  PROVE  log'.pushed \ log.pushed \subseteq shared'
<1>1. log \in Histories
  BY DEF Typed, TypeOK
<1>2. ASSUME NEW c \in Clients, NEW p \in Procs, NEW f \in Files,
             Put(c, p, f) \/ GetLocal(c, p, f) \/ GetShared(c, p, f) \/ Delete(c, p, f)
      PROVE  log'.pushed = log.pushed
  BY <1>1, <1>2 DEF Put, GetLocal, GetShared, Delete, Histories
<1>3. ASSUME NEW c \in Clients, Upload(c) \/ Fetch(c) \/ Remember(c) \/ Erase(c) \/ Names(c) \/ Fields(c)
      PROVE  log'.pushed \ log.pushed \subseteq shared'
  BY <1>3, Written
<1>4. CASE (\E p \in Procs : Restart(p) \/ \E c \in Clients : List(c, p)) \/ UNCHANGED vars
  BY <1>4 DEF Restart, List, vars
<1>5. QED BY <1>2, <1>3, <1>4 DEF Next

\* A file leaves Redis by a trim or by its deletion.
LEMMA LostSteps ==
  ASSUME Typed, [Next]_vars, NEW f \in shared \ shared', f \notin log'.erased
  PROVE  \E c \in Clients : call[c].pc = "trim" /\ f \in call[c].got
<1>1. ASSUME NEW c \in Clients, NEW p \in Procs, NEW g \in Files,
             Put(c, p, g) \/ GetLocal(c, p, g) \/ GetShared(c, p, g) \/ Delete(c, p, g)
      PROVE  FALSE
  BY <1>1 DEF Put, GetLocal, GetShared, Delete
<1>2. ASSUME NEW c \in Clients, Erase(c)
      PROVE  FALSE
  BY <1>2, Written
<1>3. ASSUME NEW c \in Clients, Upload(c) \/ Fetch(c) \/ Remember(c) \/ Names(c) \/ Fields(c)
      PROVE  call[c].pc = "trim" /\ f \in call[c].got
  BY <1>3 DEF Upload, Push, Count, Rank, Trim, PutFails, Fetch, Remember, Names, Fields
<1>4. CASE (\E p \in Procs : Restart(p) \/ \E c \in Clients : List(c, p)) \/ UNCHANGED vars
  BY <1>4 DEF Restart, List, vars
<1>5. QED BY <1>1, <1>2, <1>3, <1>4 DEF Next

LEMMA NewestKept ==
  ASSUME Typed, Counted, SharedKeepsNewest, [Next]_vars
  PROVE  SharedKeepsNewest'
<1> SUFFICES ASSUME log'.calm, NEW f \in log'.pushed \ log'.erased, f \notin shared'
             PROVE  Cardinality({g \in log'.pushed : Older(f, g)'}) >= Cap
  BY DEF SharedKeepsNewest, KeepsNewest
<1> DEFINE newer == {g \in log'.pushed : Older(f, g)'}
<1>1. log \in Histories /\ created \in [DOMAIN created -> 0..now] /\ log.pushed \subseteq DOMAIN created
  BY DEF Typed, TypeOK, InUse
<1>2. /\ log.calm /\ log.pushed \subseteq log'.pushed /\ log.erased \subseteq log'.erased
      /\ \A g \in DOMAIN created : g \in DOMAIN created' /\ created'[g] = created[g]
  BY PastSteps
<1>3. f \in log.pushed \ log.erased
  BY <1>2, PushedSteps
<1>4. IsFiniteSet(newer)
  <2>1. Typed'
    BY TypedKept
  <2>2. log'.pushed \in SUBSET Files /\ IsFiniteSet(Files)
    BY <2>1, UploadAssumption DEF Typed, TypeOK, InUse
  <2>3. newer \in SUBSET Files
    BY <2>2
  <2>4. QED BY <2>2, <2>3, FS_Subset
<1>5. Newer(f) \in SUBSET newer
  BY <1>1, <1>2, <1>3 DEF Newer, Older
<1>6. ASSUME NEW S \in SUBSET newer, Cardinality(S) >= Cap
      PROVE  Cardinality(newer) >= Cap
  <2> HIDE DEF newer
  <2>1. Cardinality(S) \in Nat /\ Cardinality(newer) \in Nat /\ Cardinality(S) <= Cardinality(newer)
    BY <1>4, FS_Subset, FS_CardinalityType
  <2>2. QED BY <1>6, <2>1, UploadAssumption
<1>7. CASE f \notin shared
  <2>1. Cardinality(Newer(f)) >= Cap
    BY <1>2, <1>3, <1>7 DEF SharedKeepsNewest, KeepsNewest, Newer
  <2>2. QED BY <1>5, <1>6, <2>1
<1>8. CASE f \in shared
  <2> DEFINE after == {g \in shared : Older(f, g)}
  <2>1. PICK c \in Clients : call[c].pc = "trim" /\ f \in call[c].got
    BY <1>8, LostSteps
  <2>2. Cardinality(shared) > Cap /\ f \in Oldest(Cardinality(shared) - Cap)
    BY <1>2, <2>1 DEF Counted
  <2>3. Cardinality(after) >= Cap
    BY <2>2, OldestHaveNewer
  <2>4. after \in SUBSET newer
    BY <1>5 DEF Newer, Typed, InUse
  <2> HIDE DEF after, newer
  <2>5. Cardinality(newer) >= Cap
    BY <1>6, <2>3, <2>4
  <2>6. QED BY <2>5 DEF newer
<1>9. QED BY <1>7, <1>8

\* As long as no trim meets another upload or deletion, the Cap newest uploads
\* of all processes are in Redis: what a trim takes away was counted and ranked
\* among the files that are still there, so every file of it has Cap newer ones.
THEOREM NewestShared == Spec => []SharedKeepsNewest
<1>1. Init => Counted /\ SharedKeepsNewest
  <2> SUFFICES ASSUME Init PROVE Counted /\ SharedKeepsNewest
    OBVIOUS
  <2>1. Counted
    BY IdleCall DEF Init, Counted
  <2>2. log.pushed = {}
    BY DEF Init
  <2>3. SharedKeepsNewest
    BY <2>2 DEF SharedKeepsNewest, KeepsNewest
  <2>4. QED BY <2>1, <2>3
<1>2. Typed /\ Counted /\ SharedKeepsNewest /\ [Next]_vars => Counted' /\ SharedKeepsNewest'
  BY CountedKept, NewestKept
<1>3. QED
  BY <1>1, <1>2, TypedInit, TypedKept, PTL DEF Spec
=============================================================================
