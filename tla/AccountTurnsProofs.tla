-------------------------- MODULE AccountTurnsProofs --------------------------
(***************************************************************************)
(* Proofs about AccountTurns for any number of slots, requests and clients, *)
(* and, at the end, about CiteStream, the text a streamed turn delivers, for *)
(* texts of any length and any number of symbols held back.                 *)
(***************************************************************************)
EXTENDS AccountTurns, CiteStream, SubsequencesProofs, SequenceTheorems, TLAPS

-----------------------------------------------------------------------------
(* Lemmas about the operators the actions are built from *)

\* After(s), where the round-robin cursor goes, is a slot again.
LEMMA AfterIsSlot == ASSUME NEW s \in Slots PROVE After(s) \in Slots
BY SizesAssumption DEF After, Slots

\* Removing a waiter leaves a sequence of the same tasks.
LEMMA WithoutWaiterType ==
  ASSUME NEW S, NEW queue \in Seq(S), NEW who
  PROVE  WithoutWaiter(queue, who) \in Seq(S)
<1>1. CASE ~\E i \in DOMAIN queue : queue[i] = who
  BY <1>1 DEF WithoutWaiter
<1>2. CASE \E i \in DOMAIN queue : queue[i] = who
  <2> DEFINE i == CHOOSE j \in DOMAIN queue : queue[j] = who
  <2>1. i \in 1..Len(queue)
    BY <1>2
  <2>2. WithoutWaiter(queue, who) = SubSeq(queue, 1, i - 1) \o SubSeq(queue, i + 1, Len(queue))
    BY <1>2 DEF WithoutWaiter, RemoveAt
  <2> HIDE DEF i
  <2> QED BY <2>1, <2>2
<1> QED BY <1>1, <1>2

\* report() keeps the strike counts in range.
LEMMA ReportedType ==
  ASSUME failures \in [Slots -> 0..MaxStrikes], NEW s \in Slots, NEW ok \in BOOLEAN,
         Reported(s, ok)
  PROVE  failures' \in [Slots -> 0..MaxStrikes]
BY SizesAssumption DEF Reported

\* A request task that is over is idle and keeps its slot and client legal.
LEMMA NoRequestType ==
  ASSUME TypeOK, NEW served \in 0..MaxServed
  PROVE  NoRequest(served) \in RequestRecords
BY SizesAssumption DEF NoRequest, RequestRecords, Slots, TypeOK

\* The changes a step makes to its request record keep the record's type.
LEMMA RequestUpdates ==
  ASSUME NEW r \in RequestRecords
  PROVE  /\ \A pc \in {"idle", "picked", "queued", "sending", "saving"} :
              [r EXCEPT !.pc = pc] \in RequestRecords
         /\ \A x \in SUBSET (1..MaxTurns) : [r EXCEPT !.staged = x] \in RequestRecords
         /\ \A x \in SUBSET {1, 2} : [r EXCEPT !.delivered = x] \in RequestRecords
         /\ \A p \in 0..MaxTurns, x \in SUBSET (1..MaxTurns) :
              [r EXCEPT !.part = p, !.staged = x] \in RequestRecords
         /\ \A c \in 0..made, p \in 0..MaxTurns :
              [r EXCEPT !.client = c, !.part = p] \in RequestRecords
         /\ \A p \in 0..MaxTurns, x \in SUBSET (1..MaxTurns) :
              [r EXCEPT !.resume = FALSE, !.retried = TRUE, !.part = p, !.staged = x]
                \in RequestRecords
BY DEF RequestRecords

\* Taking, releasing and waiting for a lock keep the types of its parts.
LEMMA LockTypes ==
  ASSUME TypeOK, NEW s \in Slots, NEW who \in Requests \cup {Healer}
  PROVE  /\ who \in Requests /\ Take(who, s) =>
              holder' \in [Slots -> Requests \cup {NoTask}]
         /\ Take(NoTask, s) => holder' \in [Slots -> Requests \cup {NoTask}]
         /\ Wait(who, s) => waiters' \in [Slots -> Seq(Requests \cup {Healer})]
         /\ waiters[s] # <<>> /\ Dequeue(s) =>
              waiters' \in [Slots -> Seq(Requests \cup {Healer})]
         /\ Leave(who, s) => /\ holder' \in [Slots -> Requests \cup {NoTask}]
                             /\ waiters' \in [Slots -> Seq(Requests \cup {Healer})]
<1>1. waiters[s] \in Seq(Requests \cup {Healer})
  BY DEF TypeOK
<1>2. WithoutWaiter(waiters[s], who) \in Seq(Requests \cup {Healer})
  BY <1>1, WithoutWaiterType
<1>3. Append(waiters[s], who) \in Seq(Requests \cup {Healer})
  BY <1>1
<1>4. waiters[s] # <<>> => Tail(waiters[s]) \in Seq(Requests \cup {Healer})
  BY <1>1
<1> QED
  BY <1>2, <1>3, <1>4 DEF TypeOK, Take, Wait, Dequeue, Leave

-----------------------------------------------------------------------------
(* Type correctness.  TypeOK is not inductive: a queued request must have a  *)
(* client and a current turn, a replacement under way must exist.            *)

LegalRecord(r) ==
  /\ r.pc = "picked" => r.turns # 0
  /\ r.pc \in {"queued", "sending"} => r.client # 0 /\ r.part \in 1..r.turns

TypeInv ==
  /\ TypeOK
  /\ \A t \in Requests : LegalRecord(req[t])
  /\ heal.pc \in {"building", "queued"} => heal.fresh # 0

LEMMA InitType == Init => TypeInv
<1> SUFFICES ASSUME Init PROVE TypeInv
  OBVIOUS
<1>1. \A t \in Requests : req[t] \in RequestRecords /\ LegalRecord(req[t])
  BY SizesAssumption DEF Init, NoRequest, RequestRecords, Slots, LegalRecord
<1>2. heal \in HealRecords /\ heal.pc = "idle"
  BY SizesAssumption DEF Init, Idle, HealRecords, Slots
<1>3. failures \in [Slots -> 0..MaxStrikes]
  BY SizesAssumption DEF Init
<1>4. TypeOK
  BY <1>1, <1>2, <1>3, SizesAssumption DEF Init, TypeOK, Slots
<1> QED
  BY <1>1, <1>2, <1>4 DEF TypeInv

\* A request that was given its slot's client and its first turn is legal.
LEMMA CapturedLegal ==
  ASSUME TypeInv, NEW r \in RequestRecords, r.turns # 0
  PROVE  /\ Captured(r) \in RequestRecords
         /\ Captured(r).slot = r.slot /\ Captured(r).client = client[r.slot]
         /\ \A pc \in {"queued", "sending"} : LegalRecord([Captured(r) EXCEPT !.pc = pc])
<1>1. client[r.slot] \in 1..made /\ client[r.slot] \in 0..made /\ made \in Nat /\ 1 \in 0..MaxTurns /\ r.turns \in 0..MaxTurns
  <2>1. r.slot \in Slots /\ r.turns \in 0..MaxTurns
    BY DEF RequestRecords
  <2>2. client \in [Slots -> 1..made] /\ made \in Nat
    BY SizesAssumption DEF TypeInv, TypeOK
  <2> QED BY <2>1, <2>2, SizesAssumption
<1>2. Captured(r) \in RequestRecords
  BY <1>1, RequestUpdates DEF Captured
<1>3. /\ Captured(r).slot = r.slot /\ Captured(r).client = client[r.slot]
      /\ Captured(r).turns = r.turns /\ Captured(r).part = 1
  BY DEF Captured, RequestRecords
<1>4. \A pc \in {"queued", "sending"} : LegalRecord([Captured(r) EXCEPT !.pc = pc])
  BY <1>1, <1>2, <1>3, SizesAssumption DEF LegalRecord, RequestRecords
<1> QED BY <1>2, <1>3, <1>4

\* What the steps of a request task leave alone.
Untouched == UNCHANGED <<client, up, retired, closing, made, heal>>

\* It is enough to look at the variables a request step changes.
LEMMA RequestStepType ==
  ASSUME TypeInv, Untouched, NEW t \in Requests, NEW r \in RequestRecords, Update(t, r),
         LegalRecord(r),
         open' \subseteq 1..made, rr' \in Slots,
         failures' \in [Slots -> 0..MaxStrikes],
         holder' \in [Slots -> Requests \cup {NoTask}],
         waiters' \in [Slots -> Seq(Requests \cup {Healer})]
  PROVE  TypeInv'
<1>1. req' \in [Requests -> RequestRecords] /\ \A u \in Requests : LegalRecord(req'[u])
  BY DEF TypeInv, TypeOK, Update
<1>2. TypeOK'
  BY <1>1 DEF TypeInv, TypeOK, Untouched, RequestRecords, HealRecords
<1>3. \A u \in Requests : LegalRecord(req[u])'
  BY <1>1 DEF LegalRecord
<1> QED BY <1>2, <1>3 DEF TypeInv, Untouched

\* Every step of a request task keeps the types.
LEMMA RequestType ==
  ASSUME TypeInv, NEW t \in Requests,
         Accept(t) \/ Step(t) \/ Delta(t) \/ Cancel(t)
  PROVE  TypeInv'
<1> DEFINE r == req[t]
<1>r. r \in RequestRecords /\ LegalRecord(r)
  BY DEF TypeInv, TypeOK
<1>s. /\ r.slot \in Slots /\ r.served \in 0..MaxServed /\ r.part \in 0..MaxTurns
      /\ r.staged \in SUBSET (1..MaxTurns) /\ r.client \in 0..made
      /\ r.delivered \in SUBSET {1, 2} /\ r.turns \in 0..MaxTurns
  BY <1>r DEF RequestRecords
<1>u. /\ open \subseteq 1..made /\ rr \in Slots /\ made \in Nat
      /\ failures \in [Slots -> 0..MaxStrikes]
      /\ holder \in [Slots -> Requests \cup {NoTask}]
      /\ waiters \in [Slots -> Seq(Requests \cup {Healer})]
  BY DEF TypeInv, TypeOK
<1>l. /\ Take(t, r.slot) => holder' \in [Slots -> Requests \cup {NoTask}]
      /\ Take(NoTask, r.slot) => holder' \in [Slots -> Requests \cup {NoTask}]
      /\ Wait(t, r.slot) => waiters' \in [Slots -> Seq(Requests \cup {Healer})]
      /\ waiters[r.slot] # <<>> /\ Dequeue(r.slot) =>
           waiters' \in [Slots -> Seq(Requests \cup {Healer})]
      /\ Leave(t, r.slot) => /\ holder' \in [Slots -> Requests \cup {NoTask}]
                             /\ waiters' \in [Slots -> Seq(Requests \cup {Healer})]
  BY <1>s, LockTypes DEF TypeInv
<1>f. \A ok \in BOOLEAN : Reported(r.slot, ok) => failures' \in [Slots -> 0..MaxStrikes]
  BY <1>s, <1>u, ReportedType
<1>x. /\ r.staged \ {r.part} \in SUBSET (1..MaxTurns)
      /\ [r EXCEPT !.staged = r.staged \ {r.part}] \in RequestRecords
  BY <1>r, <1>s, RequestUpdates
<1>i. \A left \in SUBSET (1..MaxTurns) :
        /\ NoRequest(r.served) \in RequestRecords /\ LegalRecord(NoRequest(r.served))
        /\ [NoRequest(r.served) EXCEPT !.staged = left] \in RequestRecords
        /\ LegalRecord([NoRequest(r.served) EXCEPT !.staged = left])
  <2> SUFFICES ASSUME NEW left \in SUBSET (1..MaxTurns)
               PROVE  /\ NoRequest(r.served) \in RequestRecords
                      /\ LegalRecord(NoRequest(r.served))
                      /\ [NoRequest(r.served) EXCEPT !.staged = left] \in RequestRecords
                      /\ LegalRecord([NoRequest(r.served) EXCEPT !.staged = left])
    OBVIOUS
  <2>1. NoRequest(r.served) \in RequestRecords
    BY <1>s, NoRequestType DEF TypeInv
  <2>2. [NoRequest(r.served) EXCEPT !.staged = left] \in RequestRecords
    BY <2>1, RequestUpdates
  <2> QED BY <2>1, <2>2 DEF LegalRecord, NoRequest
<1> HIDE DEF r
<1>1. CASE Accept(t)
  <2>1. PICK n \in 1..MaxTurns, stream \in Streaming, resume \in Resuming, s \in Slots :
          \E uploads \in SUBSET (1..n) :
            /\ (resume /\ UNCHANGED <<rr, failures>>)
               \/ (rr' = After(s) /\ (Pick(s) \/ PickAvailable(s)))
            /\ Update(t, [NoRequest(r.served + 1) EXCEPT
                            !.pc = "picked", !.slot = s, !.turns = n,
                            !.stream = stream, !.resume = resume,
                            !.uploads = uploads, !.staged = uploads])
    BY <1>1 DEF Accept, r
  <2>p. PICK uploads \in SUBSET (1..n) :
          /\ (resume /\ UNCHANGED <<rr, failures>>)
             \/ (rr' = After(s) /\ (Pick(s) \/ PickAvailable(s)))
          /\ Update(t, [NoRequest(r.served + 1) EXCEPT
                          !.pc = "picked", !.slot = s, !.turns = n,
                          !.stream = stream, !.resume = resume,
                          !.uploads = uploads, !.staged = uploads])
    BY <2>1
  <2> DEFINE q == [NoRequest(r.served + 1) EXCEPT
                          !.pc = "picked", !.slot = s, !.turns = n,
                          !.stream = stream, !.resume = resume,
                          !.uploads = uploads, !.staged = uploads]
  <2>2. r.served + 1 \in 0..MaxServed
    <3>1. r.served < MaxServed /\ MaxServed \in Nat
      BY <1>1, SizesAssumption DEF Accept, r
    <3> QED BY <1>s, <3>1
  <2>3. n \in 0..MaxTurns /\ n # 0 /\ uploads \in SUBSET (1..MaxTurns)
        /\ stream \in BOOLEAN /\ resume \in BOOLEAN
    <3>1. n \in 0..MaxTurns /\ n # 0 /\ 1..n \subseteq 1..MaxTurns
      BY SizesAssumption
    <3>2. stream \in BOOLEAN /\ resume \in BOOLEAN
      BY ModesAssumption
    <3> QED BY <3>1, <3>2
  <2>4. NoRequest(r.served + 1) \in RequestRecords
    BY <2>2, NoRequestType DEF TypeInv
  <2>5. q \in RequestRecords
    BY <2>3, <2>4 DEF RequestRecords
  <2>6. LegalRecord(q)
    BY <2>3, <2>4 DEF LegalRecord, RequestRecords
  <2>7. failures' \in [Slots -> 0..MaxStrikes]
    BY <2>p, <1>u, SizesAssumption DEF Pick, PickAvailable
  <2>8. rr' \in Slots
    BY <2>p, <1>u, AfterIsSlot
  <2>9. Untouched /\ open' = open /\ holder' = holder /\ waiters' = waiters
    BY <1>1 DEF Accept, clients, locks, Untouched
  <2> HIDE DEF q
  <2>10. Update(t, q)
    BY <2>p DEF q
  <2> QED BY <1>u, <2>5, <2>6, <2>7, <2>8, <2>9, <2>10, RequestStepType
<1>2. CASE Refuse(t)
  BY <1>2, <1>f, <1>i, <1>u, RequestStepType DEF Refuse, Finished, Untouched, clients, locks, r
<1>3. CASE Begin(t)
  <2>1. r.turns # 0
    BY <1>3, <1>r DEF Begin, LegalRecord, r
  <2>2. /\ Captured(r) \in RequestRecords
        /\ Captured(r).slot = r.slot /\ Captured(r).client = client[r.slot]
        /\ \A pc \in {"queued", "sending"} : LegalRecord([Captured(r) EXCEPT !.pc = pc])
    BY <1>r, <2>1, CapturedLegal
  <2>3. PICK pc \in {"queued", "sending"} : Becomes(t, Captured(r), pc)
    BY <1>3 DEF Begin, r
  <2>4. open' \subseteq 1..made
    BY <1>3, <1>s, <1>u, <2>2 DEF Begin, r, TypeInv, TypeOK
  <2>5. /\ holder' \in [Slots -> Requests \cup {NoTask}]
        /\ waiters' \in [Slots -> Seq(Requests \cup {Healer})]
    BY <1>3, <1>l, <1>u, <2>2 DEF Begin, r
  <2>6. [Captured(r) EXCEPT !.pc = pc] \in RequestRecords
    BY <2>2, RequestUpdates
  <2> QED BY <1>3, <1>u, <2>2, <2>3, <2>4, <2>5, <2>6, RequestStepType
       DEF Begin, Untouched, Becomes
<1>4. CASE StartSending(t)
  <2> DEFINE q == [r EXCEPT !.pc = "sending"]
  <2>0. r.pc = "queued" /\ open' = open \cup {r.client}
    BY <1>4 DEF StartSending, r
  <2>1. r.client # 0 /\ r.part \in 1..r.turns
    BY <1>r, <2>0 DEF LegalRecord
  <2>5. q \in RequestRecords
    BY <1>r, RequestUpdates
  <2>4. q.client = r.client /\ q.part = r.part /\ q.turns = r.turns /\ q.pc = "sending"
    BY <1>r DEF RequestRecords
  <2>6. LegalRecord(q)
    BY <2>1, <2>4 DEF LegalRecord
  <2>7. r.client \in 1..made
    BY <1>s, <1>u, <2>1
  <2>2. open' \subseteq 1..made
    BY <1>u, <2>0, <2>7
  <2>3. /\ holder' \in [Slots -> Requests \cup {NoTask}]
        /\ waiters' \in [Slots -> Seq(Requests \cup {Healer})]
    BY <1>4, <1>l DEF StartSending, Woken, r
  <2> QED BY <1>4, <1>u, <2>5, <2>6, <2>2, <2>3, RequestStepType
       DEF StartSending, Untouched, Becomes, r
<1>5. CASE NextTurn(t)
  <2> DEFINE q == [r EXCEPT !.part = r.part + 1, !.staged = r.staged \ {r.part}]
  <2>1. r.pc = "sending" /\ r.client # 0 /\ r.part + 1 \in 1..r.turns /\ r.part + 1 \in 0..MaxTurns
    BY <1>5, <1>r, <1>s, SizesAssumption DEF NextTurn, LastTurn, LegalRecord, r, LeftFiles
  <2>2. q \in RequestRecords
    BY <1>r, <1>x, <2>1, RequestUpdates
  <2>3. LegalRecord(q)
    BY <1>r, <2>1 DEF LegalRecord, RequestRecords
  <2>4. open' \subseteq 1..made
    BY <1>5, <1>s, <1>u, <2>1 DEF NextTurn, r, LeftFiles
  <2> QED BY <1>5, <1>u, <2>2, <2>3, <2>4, RequestStepType
       DEF NextTurn, Untouched, r, locks, LeftFiles
<1>6. CASE Complete(t)
  <2>1. /\ open' = open /\ rr' = rr /\ Untouched
        /\ failures' \in [Slots -> 0..MaxStrikes]
    BY <1>6, <1>f DEF Complete, clients, Untouched, r, LeftFiles
  <2>2. /\ holder' \in [Slots -> Requests \cup {NoTask}]
        /\ waiters' \in [Slots -> Seq(Requests \cup {Healer})]
    BY <1>6, <1>l, <1>u DEF Complete, Release, locks, r, LeftFiles
  <2>3. CASE r.stream
    <3> DEFINE q == [[r EXCEPT !.staged = r.staged \ {r.part}] EXCEPT !.pc = "saving"]
    <3>1. q \in RequestRecords
      BY <1>x, RequestUpdates
    <3>2. LegalRecord(q)
      BY <1>x DEF LegalRecord, RequestRecords
    <3>3. Update(t, q)
      BY <1>6, <2>3 DEF Complete, Becomes, r, LeftFiles
    <3> QED BY <1>u, <2>1, <2>2, <3>1, <3>2, <3>3, RequestStepType
  <2>4. CASE ~r.stream
    <3>1. Update(t, [NoRequest(r.served) EXCEPT !.staged = r.staged \ {r.part}])
      BY <1>6, <2>4 DEF Complete, Abandoned, r, LeftFiles
    <3> QED BY <1>i, <1>x, <1>u, <2>1, <2>2, <3>1, RequestStepType
  <2> QED BY <2>3, <2>4
<1>7. CASE SaveDone(t)
  <2>1. Update(t, [NoRequest(r.served) EXCEPT !.staged = r.staged])
    BY <1>7 DEF SaveDone, Abandoned, r
  <2> QED BY <1>7, <1>i, <1>s, <1>l, <1>u, <2>1, RequestStepType
       DEF SaveDone, Release, clients, Untouched, r
<1>8. CASE SendFails(t)
  <2>1. Update(t, [NoRequest(r.served) EXCEPT !.staged = r.staged \ {r.part}])
    BY <1>8 DEF SendFails, Abandoned, r, LeftFiles
  <2>2. open' \subseteq 1..made
    BY <1>8, <1>u DEF SendFails, OpenAfter, r, LeftFiles
  <2>3. failures' \in [Slots -> 0..MaxStrikes]
    BY <1>8, <1>u, <1>f DEF SendFails, r, LeftFiles
  <2> QED BY <1>8, <1>i, <1>x, <1>l, <1>u, <2>1, <2>2, <2>3, RequestStepType
       DEF SendFails, Release, Untouched, r, LeftFiles
<1>9. CASE RetryFresh(t)
  <2> DEFINE left == [r EXCEPT !.resume = FALSE, !.retried = TRUE, !.part = 1,
                               !.staged = r.staged \ {r.part}]
             again == IF r.stream THEN left ELSE Captured(left)
  <2>1. r.pc = "sending" /\ r.client # 0 /\ r.turns # 0 /\ 1 \in 1..r.turns
    BY <1>9, <1>r, <1>s DEF RetryFresh, LegalRecord, r, LeftFiles
  <2>2. left \in RequestRecords
    <3>1. 1 \in 0..MaxTurns
      BY SizesAssumption
    <3> QED BY <1>r, <1>x, <3>1, RequestUpdates
  <2>3. /\ left.turns = r.turns /\ left.client = r.client /\ left.part = 1
        /\ left.slot = r.slot
    BY <1>r DEF RequestRecords
  <2>4. again \in RequestRecords /\ again.slot = r.slot /\ again.client \in 1..made
        /\ \A pc \in {"queued", "sending"} : LegalRecord([again EXCEPT !.pc = pc])
    <3>1. CASE r.stream
      BY <3>1, <1>s, <1>u, <2>1, <2>2, <2>3 DEF LegalRecord, RequestRecords
    <3>2. CASE ~r.stream
      <4>1. /\ Captured(left) \in RequestRecords
            /\ Captured(left).slot = left.slot /\ Captured(left).client = client[left.slot]
            /\ \A pc \in {"queued", "sending"} :
                 LegalRecord([Captured(left) EXCEPT !.pc = pc])
        BY <2>1, <2>2, <2>3, CapturedLegal
      <4> QED BY <3>2, <4>1, <1>s, <2>3 DEF TypeInv, TypeOK
    <3> QED BY <3>1, <3>2
  <2> HIDE DEF left, again
  <2>5. \A pc \in {"queued", "sending"} : [again EXCEPT !.pc = pc] \in RequestRecords
    BY <2>4, RequestUpdates
  <2>6. open' \subseteq 1..made
    BY <1>9, <1>u, <2>4 DEF RetryFresh, OpenAfter, r, left, again, LeftFiles
  <2>7. failures' \in [Slots -> 0..MaxStrikes]
    <3>1. r.stream \in BOOLEAN
      BY <1>r DEF RequestRecords
    <3> QED BY <1>9, <1>f, <3>1 DEF RetryFresh, r, LeftFiles
  <2>8. /\ holder' \in [Slots -> Requests \cup {NoTask}]
        /\ waiters' \in [Slots -> Seq(Requests \cup {Healer})]
    BY <1>9, <1>l, <1>u DEF RetryFresh, Release, locks, r, LeftFiles
  <2>9. \/ Finished(t)
        \/ \E pc \in {"queued", "sending"} : Becomes(t, again, pc)
    BY <1>9 DEF RetryFresh, r, left, again, LeftFiles
  <2>10. Untouched /\ rr' = rr
    BY <1>9 DEF RetryFresh, Untouched, LeftFiles
  <2>11. CASE Finished(t)
    BY <2>11, <1>i, <1>u, <2>6, <2>7, <2>8, <2>10, RequestStepType DEF Finished, r
  <2>12. CASE \E pc \in {"queued", "sending"} : Becomes(t, again, pc)
    BY <2>12, <1>u, <2>4, <2>5, <2>6, <2>7, <2>8, <2>10, RequestStepType DEF Becomes
  <2> QED BY <2>9, <2>11, <2>12
<1>10. CASE Delta(t)
  <2> DEFINE q == [r EXCEPT !.delivered = r.delivered \cup {Attempt(r)}]
  <2>1. q \in RequestRecords
    BY <1>r, <1>s, RequestUpdates DEF Attempt
  <2>2. LegalRecord(q)
    BY <1>r DEF LegalRecord, RequestRecords
  <2> QED BY <1>10, <1>u, <2>1, <2>2, RequestStepType
       DEF Delta, clients, locks, Untouched, r
<1>11. CASE Cancel(t)
  <2> DEFINE left == IF r.pc = "sending" THEN r.staged \ {r.part} ELSE r.staged
  <2>1. Update(t, [NoRequest(r.served) EXCEPT !.staged = left])
    BY <1>11 DEF Cancel, Abandoned, r, LeftFiles
  <2>2. left \in SUBSET (1..MaxTurns)
    BY <1>s, <1>x
  <2>3. open' \subseteq 1..made
    BY <1>11, <1>u DEF Cancel, r, LeftFiles
  <2> HIDE DEF left
  <2> QED BY <1>11, <1>i, <1>l, <1>u, <2>1, <2>2, <2>3, RequestStepType
       DEF Cancel, Untouched, r, LeftFiles
<1> QED
  BY <1>1, <1>2, <1>3, <1>4, <1>5, <1>6, <1>7, <1>8, <1>9, <1>10, <1>11 DEF Step

\* NextSlot, with which the healer moves on, is a legal state of the healer.
LEMMA NextSlotType ==
  ASSUME made \in Nat, NEW s \in Slots
  PROVE  NextSlot(s) \in HealRecords /\ NextSlot(s).pc \in {"idle", "scan"}
<1>1. Idle \in HealRecords /\ Idle.pc = "idle"
  BY SizesAssumption DEF Idle, HealRecords, Slots
<1>2. s # N => s + 1 \in Slots
  BY SizesAssumption DEF Slots
<1>3. 0 \in 0..made
  OBVIOUS
<1>4. s # N => [pc |-> "scan", slot |-> s + 1, fresh |-> 0] \in HealRecords
  BY <1>2, <1>3 DEF HealRecords
<1> QED BY <1>1, <1>4 DEF NextSlot

\* It is enough to look at the variables a step outside the requests changes.
LEMMA HealStepType ==
  ASSUME TypeInv, UNCHANGED <<req, rr, holder>>,
         made' \in {made, made + 1}, made' \in N..MaxClients,
         client' \in [Slots -> 1..made'], failures' \in [Slots -> 0..MaxStrikes],
         waiters' \in [Slots -> Seq(Requests \cup {Healer})],
         up' \subseteq 1..made', open' \subseteq 1..made', retired' \subseteq 1..made',
         closing' \subseteq retired',
         heal'.pc \in {"idle", "scan", "building", "queued"}, heal'.slot \in Slots,
         heal'.fresh \in 0..made', heal' \in HealRecords \/ heal' \in HealRecords',
         heal'.pc \in {"building", "queued"} => heal'.fresh # 0
  PROVE  TypeInv'
<1>1. 0..made \subseteq 0..made'
  BY SizesAssumption DEF TypeInv, TypeOK
<1>2. req' \in [Requests -> RequestRecords']
  BY <1>1 DEF TypeInv, TypeOK, RequestRecords
<1>3. heal' \in HealRecords'
  BY <1>1 DEF HealRecords
<1>4. TypeOK'
  BY <1>2, <1>3 DEF TypeInv, TypeOK
<1>5. \A t \in Requests : LegalRecord(req[t])'
  BY DEF TypeInv, LegalRecord
<1> QED BY <1>4, <1>5 DEF TypeInv

\* The steps of the healer, of the background close and of Google keep the types.
LEMMA HealType ==
  ASSUME TypeInv,
         \/ HealStart \/ Healing
         \/ \E o \in closing : CloseReplaced(o)
         \/ \E s \in Slots : Degrade(s) \/ Recover(s)
  PROVE  TypeInv'
<1>u. /\ made \in Nat /\ made \in N..MaxClients
      /\ up \subseteq 1..made /\ open \subseteq 1..made /\ retired \subseteq 1..made
      /\ closing \subseteq retired
      /\ client \in [Slots -> 1..made] /\ failures \in [Slots -> 0..MaxStrikes]
      /\ waiters \in [Slots -> Seq(Requests \cup {Healer})]
  BY SizesAssumption DEF TypeInv, TypeOK
<1>h. /\ heal \in HealRecords /\ heal.slot \in Slots /\ heal.fresh \in 0..made
      /\ heal.pc \in {"idle", "scan", "building", "queued"}
      /\ heal.pc \in {"building", "queued"} => heal.fresh \in 1..made
  BY SizesAssumption DEF TypeInv, TypeOK, HealRecords
<1>n. /\ NextSlot(heal.slot) \in HealRecords
      /\ NextSlot(heal.slot).pc \in {"idle", "scan"}
      /\ NextSlot(heal.slot).slot \in Slots /\ NextSlot(heal.slot).fresh \in 0..made
  BY <1>u, <1>h, NextSlotType DEF HealRecords
<1>f. \A ok \in BOOLEAN : Reported(heal.slot, ok) => failures' \in [Slots -> 0..MaxStrikes]
  BY <1>u, <1>h, ReportedType
<1>l. /\ Wait(Healer, heal.slot) => waiters' \in [Slots -> Seq(Requests \cup {Healer})]
      /\ waiters[heal.slot] # <<>> /\ Dequeue(heal.slot) =>
           waiters' \in [Slots -> Seq(Requests \cup {Healer})]
  BY <1>h, LockTypes DEF TypeInv
<1>1. CASE HealStart
  <2>1. heal' = [pc |-> "scan", slot |-> 1, fresh |-> 0]
    BY <1>1 DEF HealStart, Idle
  <2>2. 1 \in Slots /\ 0 \in 0..made
    BY SizesAssumption, <1>u DEF Slots
  <2>3. heal' \in HealRecords
    BY <2>1, <2>2 DEF HealRecords
  <2>4. /\ heal'.pc = "scan" /\ heal'.slot \in Slots /\ heal'.fresh \in 0..made
    BY <2>1, <2>2
  <2>5. UNCHANGED <<client, up, open, retired, closing, made, failures, holder, waiters, rr, req>>
    BY <1>1 DEF HealStart, clients, locks
  <2> QED BY <1>u, <2>3, <2>4, <2>5, HealStepType
<1>2. CASE HealSkip
  BY <1>2, <1>u, <1>n, HealStepType DEF HealSkip, clients, locks
<1>3. CASE HealBuild
  <2>1. made' = made + 1 /\ made' \in N..MaxClients /\ 1..made \subseteq 1..made'
        /\ made' \in 1..made' /\ made' # 0
    BY <1>3, <1>u, SizesAssumption DEF HealBuild
  <2>2. /\ heal'.pc = "building" /\ heal'.slot = heal.slot /\ heal'.fresh = made'
        /\ heal' \in HealRecords'
    <3>1. heal' = [heal EXCEPT !.pc = "building", !.fresh = made']
      BY <1>3, <2>1 DEF HealBuild
    <3>2. made' \in 0..made'
      BY <2>1
    <3> QED BY <1>h, <3>1, <3>2 DEF HealRecords
  <2>3. client' \in [Slots -> 1..made']
    BY <1>3, <1>u, <2>1 DEF HealBuild
  <2>4. /\ up' \subseteq 1..made' /\ open' \subseteq 1..made' /\ retired' \subseteq 1..made'
        /\ closing' \subseteq retired'
    BY <1>3, <1>u, <2>1 DEF HealBuild
  <2>5. UNCHANGED <<failures, waiters, holder, req, rr>>
    BY <1>3 DEF HealBuild, locks
  <2>6. heal'.fresh \in 0..made'
    BY <1>u, <2>1, <2>2
  <2> QED BY <1>u, <1>h, <2>1, <2>2, <2>3, <2>4, <2>5, <2>6, HealStepType
<1>4. CASE HealFails
  <2>1. heal.fresh \in 1..made
    BY <1>4, <1>h DEF HealFails
  <2> QED BY <1>4, <1>u, <1>n, <1>f, <2>1, HealStepType DEF HealFails, locks
<1>5. CASE HealWaits
  <2>1. heal.fresh \in 1..made /\ heal.fresh # 0
    BY <1>5, <1>h DEF HealWaits
  <2>2. /\ heal' \in HealRecords /\ heal'.pc = "queued" /\ heal'.slot = heal.slot
        /\ heal'.fresh = heal.fresh
    BY <1>5, <1>h DEF HealWaits, HealRecords
  <2> QED BY <1>5, <1>u, <1>h, <1>l, <2>1, <2>2, HealStepType DEF HealWaits
<1>6. ASSUME HealLocked
      PROVE  /\ heal.fresh \in 1..made /\ heal.fresh # 0 /\ UNCHANGED holder
             /\ waiters' \in [Slots -> Seq(Requests \cup {Healer})]
             /\ up' \subseteq 1..made
  <2>1. heal.fresh \in 1..made /\ heal.fresh # 0
    BY <1>6, <1>h DEF HealLocked
  <2>2. UNCHANGED holder /\ up' \subseteq 1..made
    BY <1>6, <1>u, <2>1 DEF HealLocked, locks
  <2>3. waiters' \in [Slots -> Seq(Requests \cup {Healer})]
    BY <1>6, <1>u, <1>l DEF HealLocked, locks, Woken
  <2> QED BY <2>1, <2>2, <2>3
<1>7. CASE HealSwap
  <2>1. client[heal.slot] \in 1..made
    BY <1>u, <1>h
  <2>2. failures' \in [Slots -> 0..MaxStrikes]
    <3>1. 0 \in 0..MaxStrikes
      BY SizesAssumption
    <3> QED BY <1>7, <1>u, <3>1 DEF HealSwap
  <2>3. HealLocked
    BY <1>7 DEF HealSwap
  <2>4. client' \in [Slots -> 1..made]
    BY <1>7, <1>u, <1>6, <2>3 DEF HealSwap
  <2> QED BY <1>7, <1>u, <1>n, <1>6, <2>1, <2>2, <2>3, <2>4, HealStepType DEF HealSwap
<1>8. CASE HealDiscard
  <2>1. HealLocked
    BY <1>8 DEF HealDiscard
  <2> QED BY <1>8, <1>u, <1>n, <1>6, <2>1, HealStepType DEF HealDiscard
<1>9. CASE \E o \in closing : CloseReplaced(o)
  BY <1>9, <1>u, <1>h, HealStepType DEF CloseReplaced, locks, TypeInv
<1>10. CASE \E s \in Slots : Degrade(s) \/ Recover(s)
  BY <1>10, <1>u, <1>h, HealStepType DEF Degrade, Recover, locks, TypeInv
<1> QED
  BY <1>1, <1>2, <1>3, <1>4, <1>5, <1>7, <1>8, <1>9, <1>10 DEF Healing

\* TypeInv is inductive.
LEMMA NextType == TypeInv /\ [Next]_vars => TypeInv'
<1> SUFFICES ASSUME TypeInv, [Next]_vars PROVE TypeInv'
  OBVIOUS
<1>1. ASSUME NEW t \in Requests, Accept(t) \/ Step(t) \/ Delta(t) \/ Cancel(t)
      PROVE  TypeInv'
  BY <1>1, RequestType
<1>2. CASE HealStart \/ Healing \/ (\E o \in closing : CloseReplaced(o))
           \/ \E s \in Slots : Degrade(s) \/ Recover(s)
  BY <1>2, HealType
<1>3. CASE UNCHANGED vars
  BY <1>3 DEF vars, TypeInv, TypeOK, LegalRecord, RequestRecords, HealRecords
<1> QED BY <1>1, <1>2, <1>3 DEF Next

\* Every variable keeps its type, for any number of slots, requests and clients.
THEOREM TypeCorrect == Spec => []TypeOK
<1>1. TypeInv => TypeOK
  BY DEF TypeInv
<1> QED BY <1>1, InitType, NextType, PTL DEF Spec

-----------------------------------------------------------------------------
(* Mutual exclusion.  OneTurnPerAccount follows from its first conjunct,     *)
(* which is inductive together with the types.                               *)

TurnsHoldLocks == \A t \in Requests : InTurn(t) => holder[req[t].slot] = t

LockInv == TypeInv /\ TurnsHoldLocks

\* A request that only moves its own or a free lock, and has the lock of its
\* slot when it is in its turn, disturbs no other turn.
LEMMA OwnLocksOnly ==
  ASSUME LockInv, NEW t \in Requests, NEW r, Update(t, r),
         \A s \in Slots : holder'[s] = holder[s] \/ holder[s] \in {t, NoTask},
         r.pc \in {"sending", "saving"} => holder'[r.slot] = t
  PROVE  TurnsHoldLocks'
<1> SUFFICES ASSUME NEW u \in Requests, InTurn(u)' PROVE holder'[req'[u].slot] = u
  BY DEF TurnsHoldLocks
<1>r. req \in [Requests -> RequestRecords] /\ req' = [req EXCEPT ![t] = r]
  BY DEF LockInv, TypeInv, TypeOK, Update
<1>1. CASE u = t
  BY <1>1, <1>r DEF InTurn
<1>2. CASE u # t
  <2>1. req'[u] = req[u] /\ req[u].slot \in Slots
    BY <1>2, <1>r DEF RequestRecords
  <2>2. holder[req[u].slot] = u
    BY <2>1 DEF InTurn, LockInv, TurnsHoldLocks
  <2>3. u # NoTask
    BY TasksAssumption
  <2> QED BY <1>2, <2>1, <2>2, <2>3
<1> QED BY <1>1, <1>2

\* Every step of a request task keeps the turns under their locks.
LEMMA RequestLocks ==
  ASSUME LockInv, NEW t \in Requests,
         Accept(t) \/ Step(t) \/ Delta(t) \/ Cancel(t)
  PROVE  TurnsHoldLocks'
<1> DEFINE r == req[t]
<1>r. r \in RequestRecords /\ r.slot \in Slots
  BY DEF LockInv, TypeInv, TypeOK, RequestRecords
<1>h. holder \in [Slots -> Requests \cup {NoTask}]
  BY DEF LockInv, TypeInv, TypeOK
<1>t. r.pc \in {"sending", "saving"} => holder[r.slot] = t
  BY DEF LockInv, TurnsHoldLocks, InTurn
<1>c. /\ Captured(r).slot = r.slot /\ Captured(r).pc = r.pc
      /\ \A pc \in {"queued", "sending"} :
           /\ [Captured(r) EXCEPT !.pc = pc].slot = r.slot
           /\ [Captured(r) EXCEPT !.pc = pc].pc = pc
  BY <1>r DEF Captured, RequestRecords
<1>e. \A pc \in {"sending", "saving", "queued"}, x \in SUBSET (1..MaxTurns) :
        /\ [r EXCEPT !.pc = pc].slot = r.slot /\ [r EXCEPT !.pc = pc].pc = pc
        /\ [[r EXCEPT !.staged = x] EXCEPT !.pc = pc].slot = r.slot
  BY <1>r DEF RequestRecords
<1>i. \A served, left : /\ NoRequest(served).pc = "idle"
                        /\ [NoRequest(served) EXCEPT !.staged = left].pc = "idle"
  BY DEF NoRequest
<1> HIDE DEF r
<1>1. CASE Accept(t)
  <2>1. PICK q : Update(t, q) /\ q.pc = "picked" /\ UNCHANGED holder
    BY <1>1 DEF Accept, locks, NoRequest
  <2> QED BY <2>1, OwnLocksOnly
<1>2. CASE Refuse(t)
  BY <1>2, <1>i, OwnLocksOnly DEF Refuse, Finished, locks
<1>3. CASE Begin(t)
  <2>1. CASE Free(r.slot)
    <3>1. /\ Update(t, [Captured(r) EXCEPT !.pc = "sending"]) /\ Take(t, r.slot)
          /\ holder[r.slot] = NoTask
      BY <1>3, <1>c, <2>1 DEF Begin, Becomes, Free, r
    <3>2. \A s \in Slots : holder'[s] = holder[s] \/ holder[s] \in {t, NoTask}
      BY <1>h, <3>1 DEF Take
    <3>3. holder'[r.slot] = t
      BY <1>h, <1>r, <3>1 DEF Take
    <3> QED BY <1>c, <3>1, <3>2, <3>3, OwnLocksOnly
  <2>2. CASE ~Free(r.slot)
    <3>1. Update(t, [Captured(r) EXCEPT !.pc = "queued"]) /\ UNCHANGED holder
      BY <1>3, <1>c, <2>2 DEF Begin, Becomes, r
    <3> QED BY <1>c, <3>1, OwnLocksOnly
  <2> QED BY <2>1, <2>2
<1>4. CASE StartSending(t)
  <2>1. /\ Update(t, [r EXCEPT !.pc = "sending"]) /\ Take(t, r.slot)
        /\ holder[r.slot] = NoTask
    BY <1>4 DEF StartSending, Becomes, Woken, r
  <2>2. \A s \in Slots : holder'[s] = holder[s] \/ holder[s] \in {t, NoTask}
    BY <1>h, <2>1 DEF Take
  <2>3. holder'[r.slot] = t
    BY <1>h, <1>r, <2>1 DEF Take
  <2> QED BY <1>e, <2>1, <2>2, <2>3, OwnLocksOnly
<1>5. CASE NextTurn(t)
  <2> DEFINE q == [r EXCEPT !.part = r.part + 1, !.staged = r.staged \ {r.part}]
  <2>1. Update(t, q) /\ r.pc = "sending" /\ UNCHANGED holder
    BY <1>5 DEF NextTurn, LeftFiles, locks, r
  <2>2. q.slot = r.slot
    BY <1>r DEF RequestRecords
  <2> QED BY <1>t, <2>1, <2>2, OwnLocksOnly
<1>6. CASE Complete(t)
  <2>1. r.pc = "sending" /\ holder[r.slot] = t
    BY <1>6, <1>t DEF Complete, r, LeftFiles
  <2>2. CASE r.stream
    <3> DEFINE q == [[r EXCEPT !.staged = r.staged \ {r.part}] EXCEPT !.pc = "saving"]
    <3>1. Update(t, q) /\ UNCHANGED holder
      BY <1>6, <2>2 DEF Complete, Becomes, locks, r, LeftFiles
    <3>2. q.slot = r.slot
      BY <1>r DEF RequestRecords
    <3> QED BY <2>1, <3>1, <3>2, OwnLocksOnly
  <2>3. CASE ~r.stream
    <3>1. /\ Update(t, [NoRequest(r.served) EXCEPT !.staged = r.staged \ {r.part}])
          /\ Take(NoTask, r.slot)
      BY <1>6, <2>3 DEF Complete, Abandoned, Release, r, LeftFiles
    <3>2. \A s \in Slots : holder'[s] = holder[s] \/ holder[s] \in {t, NoTask}
      BY <1>h, <2>1, <3>1 DEF Take
    <3> QED BY <1>i, <3>1, <3>2, OwnLocksOnly
  <2> QED BY <2>2, <2>3
<1>7. CASE SaveDone(t)
  <2>1. /\ Update(t, [NoRequest(r.served) EXCEPT !.staged = r.staged])
        /\ Take(NoTask, r.slot) /\ holder[r.slot] = t
    BY <1>7, <1>t DEF SaveDone, Abandoned, Release, r
  <2>2. \A s \in Slots : holder'[s] = holder[s] \/ holder[s] \in {t, NoTask}
    BY <1>h, <2>1 DEF Take
  <2> QED BY <1>i, <2>1, <2>2, OwnLocksOnly
<1>8. CASE SendFails(t)
  <2>1. /\ Update(t, [NoRequest(r.served) EXCEPT !.staged = r.staged \ {r.part}])
        /\ Take(NoTask, r.slot) /\ holder[r.slot] = t
    BY <1>8, <1>t DEF SendFails, Abandoned, Release, r, LeftFiles
  <2>2. \A s \in Slots : holder'[s] = holder[s] \/ holder[s] \in {t, NoTask}
    BY <1>h, <2>1 DEF Take
  <2> QED BY <1>i, <2>1, <2>2, OwnLocksOnly
<1>9. CASE RetryFresh(t)
  <2> DEFINE left == [r EXCEPT !.resume = FALSE, !.retried = TRUE, !.part = 1,
                               !.staged = r.staged \ {r.part}]
             again == IF r.stream THEN left ELSE Captured(left)
  <2>1. again.slot = r.slot
        /\ \A pc \in {"queued", "sending"} :
             /\ [again EXCEPT !.pc = pc].slot = r.slot
             /\ [again EXCEPT !.pc = pc].pc = pc
    BY <1>r DEF Captured, RequestRecords
  <2>2. holder[r.slot] = t
    BY <1>9, <1>t DEF RetryFresh, r, LeftFiles
  <2> HIDE DEF left, again
  <2>3. \/ Update(t, NoRequest(r.served)) /\ Take(NoTask, r.slot)
        \/ Update(t, [again EXCEPT !.pc = "sending"]) /\ UNCHANGED holder
        \/ Update(t, [again EXCEPT !.pc = "queued"]) /\ Take(NoTask, r.slot)
    BY <1>9 DEF RetryFresh, Finished, Becomes, Release, locks, r, left, again, LeftFiles
  <2>4. Take(NoTask, r.slot) =>
          \A s \in Slots : holder'[s] = holder[s] \/ holder[s] \in {t, NoTask}
    BY <1>h, <2>2 DEF Take
  <2>5. CASE Update(t, NoRequest(r.served)) /\ Take(NoTask, r.slot)
    BY <1>i, <2>4, <2>5, OwnLocksOnly
  <2>6. CASE Update(t, [again EXCEPT !.pc = "sending"]) /\ UNCHANGED holder
    BY <2>1, <2>2, <2>6, OwnLocksOnly
  <2>7. CASE Update(t, [again EXCEPT !.pc = "queued"]) /\ Take(NoTask, r.slot)
    BY <2>1, <2>4, <2>7, OwnLocksOnly
  <2> QED BY <2>3, <2>5, <2>6, <2>7
<1>10. CASE Delta(t)
  <2> DEFINE q == [r EXCEPT !.delivered = r.delivered \cup {Attempt(r)}]
  <2>1. Update(t, q) /\ r.pc = "sending" /\ UNCHANGED holder
    BY <1>10 DEF Delta, locks, r
  <2>2. q.slot = r.slot
    BY <1>r DEF RequestRecords
  <2> QED BY <1>t, <2>1, <2>2, OwnLocksOnly
<1>11. CASE Cancel(t)
  <2> DEFINE left == IF r.pc = "sending" THEN r.staged \ {r.part} ELSE r.staged
  <2>1. Update(t, [NoRequest(r.served) EXCEPT !.staged = left]) /\ Leave(t, r.slot)
    BY <1>11 DEF Cancel, Abandoned, r, LeftFiles
  <2> HIDE DEF left
  <2>2. \A s \in Slots : holder'[s] = holder[s] \/ holder[s] \in {t, NoTask}
    BY <1>h, <2>1 DEF Leave
  <2> QED BY <1>i, <2>1, <2>2, OwnLocksOnly
<1> QED
  BY <1>1, <1>2, <1>3, <1>4, <1>5, <1>6, <1>7, <1>8, <1>9, <1>10, <1>11 DEF Step

\* No other step holds a lock or changes a request.
LEMMA HealLeavesLocks ==
  ASSUME \/ HealStart \/ Healing
         \/ \E o \in closing : CloseReplaced(o)
         \/ \E s \in Slots : Degrade(s) \/ Recover(s)
  PROVE  UNCHANGED <<holder, req>>
<1>1. HealLocked => UNCHANGED holder
  BY DEF HealLocked, locks
<1>2. CASE HealStart
  BY <1>2 DEF HealStart, locks
<1>3. CASE Healing
  BY <1>1, <1>3 DEF Healing, HealSkip, HealBuild, HealFails, HealWaits, HealSwap,
                    HealDiscard, locks
<1>4. CASE (\E o \in closing : CloseReplaced(o)) \/ \E s \in Slots : Degrade(s) \/ Recover(s)
  BY <1>4 DEF CloseReplaced, Degrade, Recover, locks
<1> QED BY <1>2, <1>3, <1>4

\* LockInv is inductive and holds in every reachable state.
LEMMA LocksKept == Spec => []LockInv
<1>1. Init => LockInv
  BY InitType DEF LockInv, Init, TurnsHoldLocks, InTurn, NoRequest
<1>2. LockInv /\ [Next]_vars => LockInv'
  <2> SUFFICES ASSUME LockInv, [Next]_vars PROVE LockInv'
    OBVIOUS
  <2>1. TypeInv'
    BY NextType DEF LockInv
  <2>2. ASSUME NEW t \in Requests, Accept(t) \/ Step(t) \/ Delta(t) \/ Cancel(t)
        PROVE  TurnsHoldLocks'
    BY <2>2, RequestLocks
  <2>3. UNCHANGED <<holder, req>> => TurnsHoldLocks'
    BY DEF LockInv, TurnsHoldLocks, InTurn
  <2>4. UNCHANGED vars => UNCHANGED <<holder, req>>
    BY DEF vars
  <2>5. TurnsHoldLocks'
    <3>1. CASE \E t \in Requests : Accept(t) \/ Step(t) \/ Delta(t) \/ Cancel(t)
      BY <2>2, <3>1
    <3>2. CASE \/ HealStart \/ Healing
               \/ \E o \in closing : CloseReplaced(o)
               \/ \E s \in Slots : Degrade(s) \/ Recover(s)
      BY <2>3, <3>2, HealLeavesLocks
    <3> QED BY <2>3, <2>4, <3>1, <3>2 DEF Next
  <2> QED BY <2>1, <2>5 DEF LockInv
<1> QED BY <1>1, <1>2, PTL DEF Spec

\* Two requests never run turns on one account at the same time: the promise of
\* _Entry.lock, for any number of accounts, requests, swaps and cancellations.
THEOREM AccountMutex == Spec => []OneTurnPerAccount
<1>1. LockInv => OneTurnPerAccount
  BY DEF LockInv, TurnsHoldLocks, OneTurnPerAccount
<1> QED BY <1>1, LocksKept, PTL

\* The client of a slot is only replaced while no turn runs on it.
THEOREM SwapMutex == Spec => SwapUnderLock
<1> DEFINE Quiet == \A s \in Slots : client'[s] # client[s] =>
                      \A t \in Requests : req[t].slot = s => ~InTurn(t)
<1>1. LockInv /\ [Next]_vars => [Quiet]_client
  <2> SUFFICES ASSUME LockInv, Next, NEW s \in Slots, client'[s] # client[s],
                      NEW t \in Requests, req[t].slot = s
               PROVE  ~InTurn(t)
    BY DEF vars
  <2>1. HealSwap
    BY DEF Next, Step, Healing, Accept, Refuse, Begin, StartSending, NextTurn, Complete,
           SaveDone, SendFails, RetryFresh, Delta, Cancel, Degrade, Recover, HealStart,
           HealSkip, HealBuild, HealFails, HealWaits, HealDiscard, CloseReplaced, clients
  <2>2. s = heal.slot
    BY <2>1 DEF HealSwap, LockInv, TypeInv, TypeOK
  <2>3. holder[s] = NoTask
    BY <2>1, <2>2 DEF HealSwap, HealLocked, Free, Woken
  <2> QED BY <2>3, TasksAssumption DEF LockInv, TurnsHoldLocks
<1> QED BY <1>1, LocksKept, PTL DEF Spec, SwapUnderLock

-----------------------------------------------------------------------------
(* No client leaks.  ClientsAccounted is inductive once it is known that the *)
(* healer has a client in hand only while it builds or waits.                *)

NothingInHand == heal.pc \in {"idle", "scan"} => heal.fresh = 0

ClientInv == TypeInv /\ ClientsAccounted /\ NothingInHand

\* Leaving a slot, the healer has nothing in hand.
LEMMA NextSlotEmpty ==
  ASSUME NEW s PROVE NextSlot(s).fresh = 0
BY DEF NextSlot, Idle

\* The steps of the requests move no client between pool, healer and close().
LEMMA RequestClients ==
  ASSUME ClientInv, NEW t \in Requests,
         Accept(t) \/ Step(t) \/ Delta(t) \/ Cancel(t)
  PROVE  ClientsAccounted' /\ NothingInHand'
<1>1. UNCHANGED <<client, retired, made, heal>>
  BY DEF Accept, Step, Refuse, Begin, StartSending, NextTurn, Complete, SaveDone, SendFails,
         RetryFresh, Delta, Cancel, clients
<1> QED BY <1>1 DEF ClientInv, ClientsAccounted, NothingInHand

\* Nor do those that change only the status of a client or close one.
LEMMA StatusClients ==
  ASSUME ClientInv,
         \/ HealStart
         \/ \E o \in closing : CloseReplaced(o)
         \/ \E s \in Slots : Degrade(s) \/ Recover(s)
  PROVE  ClientsAccounted' /\ NothingInHand'
<1>1. UNCHANGED <<client, retired, made>>
  BY DEF HealStart, CloseReplaced, Degrade, Recover, clients
<1>2. CASE HealStart
  <2>1. heal.fresh = 0 /\ heal'.fresh = 0
    BY <1>2 DEF HealStart, Idle, ClientInv, NothingInHand
  <2> QED BY <1>1, <2>1 DEF ClientInv, ClientsAccounted, NothingInHand
<1>3. CASE UNCHANGED heal
  BY <1>1, <1>3 DEF ClientInv, ClientsAccounted, NothingInHand
<1>4. HealStart \/ UNCHANGED heal
  BY DEF CloseReplaced, Degrade, Recover
<1> QED BY <1>2, <1>3, <1>4

\* A client the healer built is published in exchange for the one it replaces,
\* which is retired, or is retired itself.
LEMMA HealClients ==
  ASSUME ClientInv, Healing
  PROVE  ClientsAccounted' /\ NothingInHand'
<1>u. /\ made \in Nat /\ retired \subseteq 1..made /\ client \in [Slots -> 1..made]
      /\ heal.slot \in Slots /\ heal.fresh \in 0..made
  BY SizesAssumption DEF ClientInv, TypeInv, TypeOK, HealRecords
<1>n. NextSlot(heal.slot).fresh = 0
  BY NextSlotEmpty
<1>z. 0 \notin retired /\ \A s \in Slots : client[s] # 0
  BY <1>u
<1>1. CASE HealSkip
  <2>1. heal.fresh = 0 /\ heal'.fresh = 0 /\ UNCHANGED <<client, retired, made>>
    BY <1>1, <1>n DEF HealSkip, ClientInv, NothingInHand, clients
  <2> QED BY <2>1 DEF ClientInv, ClientsAccounted, NothingInHand
<1>2. CASE HealBuild
  <2>1. /\ heal.fresh = 0 /\ made' = made + 1 /\ UNCHANGED <<client, retired>>
        /\ heal' = [heal EXCEPT !.pc = "building", !.fresh = made + 1]
    BY <1>2 DEF HealBuild, ClientInv, NothingInHand
  <2>2. heal'.fresh = made + 1 /\ heal'.pc = "building"
    BY <2>1 DEF ClientInv, TypeInv, TypeOK, HealRecords
  <2>3. made + 1 \notin retired /\ \A s \in Slots : client[s] # made + 1
    BY <1>u
  <2>4. \A o \in 1..(made + 1) : o = made + 1 \/ o \in 1..made
    BY <1>u
  <2>5. \A o \in 1..made : o \in retired \/ \E s \in Slots : client[s] = o
    BY <1>u, <2>1 DEF ClientInv, ClientsAccounted
  <2> QED BY <2>1, <2>2, <2>3, <2>4, <2>5 DEF ClientInv, ClientsAccounted, NothingInHand
<1>3. CASE HealFails
  <2>1. /\ retired' = retired \cup {heal.fresh} /\ UNCHANGED <<client, made>>
        /\ heal'.fresh = 0 /\ heal.fresh # 0
    BY <1>3, <1>n DEF HealFails, ClientInv, TypeInv
  <2> QED BY <1>z, <2>1 DEF ClientInv, ClientsAccounted, NothingInHand
<1>4. CASE HealWaits
  <2>1. heal'.fresh = heal.fresh /\ heal'.pc = "queued" /\ UNCHANGED <<client, retired, made>>
    BY <1>4 DEF HealWaits, ClientInv, TypeInv, TypeOK, HealRecords
  <2> QED BY <2>1 DEF ClientInv, ClientsAccounted, NothingInHand
<1>l. HealLocked => heal.fresh # 0
  BY DEF HealLocked, ClientInv, TypeInv
<1>5. CASE HealSwap
  <2> DEFINE s == heal.slot
  <2>1. /\ client' = [client EXCEPT ![s] = heal.fresh]
        /\ retired' = retired \cup {client[s]} /\ UNCHANGED made
        /\ heal'.fresh = 0 /\ heal.fresh # 0
    BY <1>5, <1>l, <1>n DEF HealSwap
  <2>2. client'[s] = heal.fresh /\ \A z \in Slots \ {s} : client'[z] = client[z]
    BY <1>u, <2>1
  <2>3. /\ \A a, z \in Slots : client[a] = client[z] => a = z
        /\ \A a \in Slots : client[a] \notin retired /\ client[a] # heal.fresh
        /\ heal.fresh \notin retired
        /\ \A o \in 1..made : o \in retired \/ o = heal.fresh \/ \E a \in Slots : client[a] = o
    BY DEF ClientInv, ClientsAccounted
  <2> HIDE DEF s
  <2>s. s \in Slots
    BY <1>u DEF s
  <2>4. \A a, z \in Slots : client'[a] = client'[z] => a = z
    BY <2>2, <2>3, <2>s
  <2>5. \A a \in Slots : client'[a] \notin retired' /\ client'[a] # heal'.fresh
    BY <1>z, <2>1, <2>2, <2>3, <2>s
  <2>6. heal'.fresh \notin retired'
    BY <1>z, <2>1, <2>s
  <2>7. ASSUME NEW o \in 1..made
        PROVE  o \in retired' \/ o = heal'.fresh \/ \E a \in Slots : client'[a] = o
    BY <2>1, <2>2, <2>3, <2>s, <2>7
  <2> QED BY <2>1, <2>4, <2>5, <2>6, <2>7 DEF ClientsAccounted, NothingInHand
<1>6. CASE HealDiscard
  <2>1. /\ retired' = retired \cup {heal.fresh} /\ UNCHANGED <<client, made>>
        /\ heal'.fresh = 0 /\ heal.fresh # 0
    BY <1>6, <1>l, <1>n DEF HealDiscard
  <2> QED BY <1>z, <2>1 DEF ClientInv, ClientsAccounted, NothingInHand
<1> QED BY <1>1, <1>2, <1>3, <1>4, <1>5, <1>6 DEF Healing

\* ClientInv is inductive and holds in every reachable state.
LEMMA ClientsKept == Spec => []ClientInv
<1>1. Init => ClientInv
  <2> SUFFICES ASSUME Init PROVE ClientsAccounted /\ NothingInHand
    BY InitType DEF ClientInv
  <2>1. /\ \A s \in Slots : client[s] = s
        /\ retired = {} /\ made = N /\ heal.fresh = 0
    BY DEF Init, Idle
  <2>2. \A o \in 1..made : o \in Slots
    BY <2>1 DEF Slots
  <2>3. \A s \in Slots : s # 0
    BY SizesAssumption DEF Slots
  <2> QED BY <2>1, <2>2, <2>3 DEF ClientsAccounted, NothingInHand
<1>2. ClientInv /\ [Next]_vars => ClientInv'
  <2> SUFFICES ASSUME ClientInv, [Next]_vars PROVE ClientsAccounted' /\ NothingInHand'
    BY NextType DEF ClientInv
  <2>1. ASSUME NEW t \in Requests, Accept(t) \/ Step(t) \/ Delta(t) \/ Cancel(t)
        PROVE  ClientsAccounted' /\ NothingInHand'
    BY <2>1, RequestClients
  <2>2. CASE UNCHANGED vars
    BY <2>2 DEF vars, ClientInv, ClientsAccounted, NothingInHand
  <2> QED BY <2>1, <2>2, HealClients, StatusClients DEF Next
<1> QED BY <1>1, <1>2, PTL DEF Spec

\* Every client that was ever built belongs to exactly one slot, is in the hand
\* of the healer, or was given to close(): healing leaks none, however long it
\* goes on (build_replacement: "no background tasks leak").
THEOREM NoClientLeaks == Spec => []ClientsAccounted
<1>1. ClientInv => ClientsAccounted
  BY DEF ClientInv
<1> QED BY <1>1, ClientsKept, PTL

-----------------------------------------------------------------------------
(* Locks have owners.  A task must also stand at most once in a queue, or    *)
(* the second of its entries would outlive the first.                        *)

Once(queue) == \A i, j \in DOMAIN queue : queue[i] = queue[j] => i = j

Waits(who, s) ==
  IF who = Healer THEN heal.pc = "queued" /\ heal.slot = s
  ELSE req[who].slot = s /\ req[who].pc = "queued"

Owners ==
  \A s \in Slots :
    /\ holder[s] # NoTask =>
         req[holder[s]].slot = s /\ req[holder[s]].pc \in {"sending", "saving"}
    /\ \A who \in ToSet(waiters[s]) : Waits(who, s)
    /\ Once(waiters[s])

OwnInv == LockInv /\ Owners

\* A task that joins a queue it is not in stands there once.
LEMMA JoinedOnce ==
  ASSUME NEW S, NEW queue \in Seq(S), NEW who \in S, Once(queue), who \notin ToSet(queue)
  PROVE  /\ Once(Append(queue, who))
         /\ ToSet(Append(queue, who)) = ToSet(queue) \cup {who}
<1> DEFINE longer == Append(queue, who)
<1>1. /\ DOMAIN queue = 1..Len(queue) /\ DOMAIN longer = 1..(Len(queue) + 1)
      /\ Len(queue) \in Nat /\ longer[Len(queue) + 1] = who
      /\ \A i \in 1..Len(queue) : longer[i] = queue[i]
  OBVIOUS
<1>2. \A i \in 1..Len(queue) : queue[i] # who
  BY <1>1 DEF ToSet
<1>3. \A i \in DOMAIN longer : i \in 1..Len(queue) \/ i = Len(queue) + 1
  BY <1>1
<1> HIDE DEF longer
<1>4. Once(longer)
  BY <1>1, <1>2, <1>3 DEF Once
<1>5. ToSet(longer) = ToSet(queue) \cup {who}
  BY <1>1, <1>3 DEF ToSet
<1> QED BY <1>4, <1>5 DEF longer

\* Without its head a queue has the others once, and not the head.
LEMMA ServedOnce ==
  ASSUME NEW S, NEW queue \in Seq(S), queue # <<>>, Once(queue)
  PROVE  /\ Once(Tail(queue))
         /\ ToSet(Tail(queue)) \subseteq ToSet(queue) \ {Head(queue)}
<1> DEFINE rest == Tail(queue)
<1>1. /\ DOMAIN queue = 1..Len(queue) /\ DOMAIN rest = 1..(Len(queue) - 1)
      /\ Len(queue) \in Nat \ {0} /\ Head(queue) = queue[1]
      /\ \A i \in DOMAIN rest : rest[i] = queue[i + 1]
  OBVIOUS
<1>2. \A i \in DOMAIN rest : i + 1 \in DOMAIN queue /\ i \in Nat /\ i + 1 # 1
  BY <1>1
<1>3. 1 \in DOMAIN queue
  BY <1>1
<1> HIDE DEF rest
<1>4. Once(rest)
  <2> SUFFICES ASSUME NEW i \in DOMAIN rest, NEW j \in DOMAIN rest, rest[i] = rest[j]
               PROVE  i = j
    BY DEF Once
  <2>1. i + 1 = j + 1
    BY <1>1, <1>2 DEF Once
  <2> QED BY <1>2, <2>1
<1>5. ToSet(rest) \subseteq ToSet(queue) \ {Head(queue)}
  BY <1>1, <1>2, <1>3 DEF ToSet, Once
<1> QED BY <1>4, <1>5 DEF rest

\* A task that leaves a queue is not in it any more.
LEMMA LeftOnce ==
  ASSUME NEW S, NEW queue \in Seq(S), NEW who, Once(queue)
  PROVE  /\ Once(WithoutWaiter(queue, who))
         /\ ToSet(WithoutWaiter(queue, who)) \subseteq ToSet(queue) \ {who}
<1>1. CASE ~\E i \in DOMAIN queue : queue[i] = who
  BY <1>1 DEF WithoutWaiter, ToSet
<1>2. CASE \E i \in DOMAIN queue : queue[i] = who
  <2> DEFINE k == CHOOSE i \in DOMAIN queue : queue[i] = who
             rest == SubSeq(queue, 1, k - 1) \o SubSeq(queue, k + 1, Len(queue))
             Old(i) == IF i < k THEN i ELSE i + 1
  <2>1. k \in DOMAIN queue /\ queue[k] = who
    BY <1>2
  <2>2. WithoutWaiter(queue, who) = rest
    BY <1>2 DEF WithoutWaiter, RemoveAt
  <2> HIDE DEF k
  <2>3. DOMAIN queue = 1..Len(queue) /\ Len(queue) \in Nat /\ k \in 1..Len(queue)
    BY <2>1
  <2>4. /\ DOMAIN rest = 1..(Len(queue) - 1)
        /\ \A i \in 1..(Len(queue) - 1) : rest[i] = queue[Old(i)]
    <3> DEFINE front == SubSeq(queue, 1, k - 1)
               back == SubSeq(queue, k + 1, Len(queue))
    <3>q. \A i \in 1..Len(queue) : queue[i] \in S
      OBVIOUS
    <3>1. /\ front \in Seq(S) /\ Len(front) = k - 1
          /\ \A i \in 1..(k - 1) : front[i] = queue[i]
      <4>1. /\ 1 \in Int /\ k - 1 \in Int /\ \A i \in 1..(k - 1) : queue[i] \in S
            /\ (IF 1 <= k - 1 THEN k - 1 - 1 + 1 ELSE 0) = k - 1
            /\ k - 1 - 1 + 1 = k - 1 /\ \A i \in 1..(k - 1) : 1 + i - 1 = i
        BY <2>3, <3>q
      <4> QED BY <4>1, SubSeqProperties
    <3>2. /\ back \in Seq(S) /\ Len(back) = Len(queue) - k
          /\ \A i \in 1..(Len(queue) - k) : back[i] = queue[k + i]
      <4> DEFINE n == Len(queue)
      <4>1. /\ k + 1 \in Int /\ n \in Int
            /\ \A i \in (k + 1)..n : queue[i] \in S
        BY <2>3, <3>q
      <4>2. /\ back \in Seq(S)
            /\ Len(back) = IF k + 1 <= n THEN n - (k + 1) + 1 ELSE 0
            /\ \A i \in 1..(n - (k + 1) + 1) : back[i] = queue[k + 1 + i - 1]
        BY <4>1, SubSeqProperties
      <4>3. /\ (IF k + 1 <= n THEN n - (k + 1) + 1 ELSE 0) = n - k
            /\ n - (k + 1) + 1 = n - k
            /\ \A i \in 1..(n - k) : k + 1 + i - 1 = k + i
        <5>1. ASSUME NEW l \in Nat, NEW j \in 1..l
              PROVE  /\ (IF j + 1 <= l THEN l - (j + 1) + 1 ELSE 0) = l - j
                     /\ l - (j + 1) + 1 = l - j
                     /\ \A i \in 1..(l - j) : j + 1 + i - 1 = j + i
          OBVIOUS
        <5> HIDE DEF n
        <5>2. n \in Nat /\ k \in 1..n
          BY <2>3 DEF n
        <5> QED BY <5>1, <5>2
      <4> HIDE DEF back
      <4> QED BY <4>2, <4>3
    <3> HIDE DEF front, back
    <3>3. /\ DOMAIN (front \o back) = 1..(Len(queue) - 1)
          /\ \A i \in 1..(Len(queue) - 1) :
               (front \o back)[i] = IF i <= k - 1 THEN front[i] ELSE back[i - (k - 1)]
      <4>1. /\ front \o back \in Seq(S)
            /\ Len(front \o back) = Len(front) + Len(back)
            /\ \A i \in 1..(Len(front) + Len(back)) :
                 (front \o back)[i] = IF i <= Len(front) THEN front[i] ELSE back[i - Len(front)]
        BY <3>1, <3>2, ConcatProperties
      <4>2. Len(front) + Len(back) = Len(queue) - 1
        BY <2>3, <3>1, <3>2
      <4> QED BY <3>1, <4>1, <4>2, LenProperties
    <3>4. ASSUME NEW i \in 1..(Len(queue) - 1)
          PROVE  (front \o back)[i] = queue[Old(i)]
      <4>1. CASE i < k
        <5>1. i <= k - 1 /\ i \in 1..(k - 1)
          BY <2>3, <4>1
        <5> QED BY <3>1, <3>3, <4>1, <5>1
      <4>2. CASE ~(i < k)
        <5>1. /\ i - (k - 1) \in 1..(Len(queue) - k) /\ k + (i - (k - 1)) = i + 1
              /\ ~(i <= k - 1)
          BY <2>3, <4>2
        <5> QED BY <3>2, <3>3, <4>2, <5>1
      <4> QED BY <4>1, <4>2
    <3> QED BY <3>3, <3>4 DEF front, back
  <2> HIDE DEF rest
  <2>5. \A i \in DOMAIN rest : i \in Nat /\ Old(i) \in DOMAIN queue /\ Old(i) # k
    BY <2>3, <2>4
  <2>6. \A i, j \in DOMAIN rest : Old(i) = Old(j) => i = j
    BY <2>5, <2>3
  <2> HIDE DEF Old
  <2>7. Once(rest)
    BY <2>4, <2>5, <2>6 DEF Once
  <2>8. ToSet(rest) \subseteq ToSet(queue) \ {who}
    BY <2>1, <2>4, <2>5 DEF ToSet, Once
  <2> QED BY <2>2, <2>7, <2>8
<1> QED BY <1>1, <1>2

\* What a step of request t must do to keep every lock and queue owned.
LEMMA RequestOwns ==
  ASSUME OwnInv, NEW t \in Requests, NEW r, Update(t, r), UNCHANGED heal,
         \A s \in Slots : holder'[s] \in {holder[s], NoTask, t},
         \A s \in Slots : holder'[s] = t => r.slot = s /\ r.pc \in {"sending", "saving"},
         \A s \in Slots : ToSet(waiters'[s]) \subseteq ToSet(waiters[s]) \cup {t},
         \A s \in Slots : t \in ToSet(waiters'[s]) => r.slot = s /\ r.pc = "queued",
         \A s \in Slots : Once(waiters'[s])
  PROVE  Owners'
<1>r. /\ req \in [Requests -> RequestRecords] /\ req' = [req EXCEPT ![t] = r]
      /\ holder \in [Slots -> Requests \cup {NoTask}]
      /\ waiters \in [Slots -> Seq(Requests \cup {Healer})]
  BY DEF OwnInv, LockInv, TypeInv, TypeOK, Update
<1>1. req'[t] = r /\ \A u \in Requests \ {t} : req'[u] = req[u]
  BY <1>r
<1> SUFFICES ASSUME NEW s \in Slots
             PROVE  /\ holder'[s] # NoTask =>
                         /\ req'[holder'[s]].slot = s
                         /\ req'[holder'[s]].pc \in {"sending", "saving"}
                    /\ \A who \in ToSet(waiters'[s]) : Waits(who, s)'
                    /\ Once(waiters'[s])
  BY DEF Owners
<1>2. ASSUME holder'[s] # NoTask
      PROVE  req'[holder'[s]].slot = s /\ req'[holder'[s]].pc \in {"sending", "saving"}
  <2>1. CASE holder'[s] = t
    BY <1>1, <2>1
  <2>2. CASE holder'[s] # t
    <3>1. holder'[s] = holder[s] /\ holder[s] \in Requests \ {t}
      BY <1>2, <1>r, <2>2
    <3> QED BY <1>1, <1>2, <3>1 DEF OwnInv, Owners
  <2> QED BY <2>1, <2>2
<1>3. ASSUME NEW who \in ToSet(waiters'[s]) PROVE Waits(who, s)'
  <2>1. CASE who = t
    BY <1>1, <2>1, TasksAssumption DEF Waits
  <2>2. CASE who # t
    <3>1. who \in ToSet(waiters[s])
      BY <2>2
    <3>2. who = Healer \/ who \in Requests \ {t}
      BY <1>r, <2>2, <3>1 DEF ToSet
    <3> QED BY <1>1, <3>1, <3>2 DEF OwnInv, Owners, Waits
  <2> QED BY <2>1, <2>2
<1> QED BY <1>2, <1>3

\* Every step of a request task keeps the locks and the queues owned.
LEMMA RequestOwners ==
  ASSUME OwnInv, NEW t \in Requests,
         Accept(t) \/ Step(t) \/ Delta(t) \/ Cancel(t)
  PROVE  Owners'
<1> DEFINE r == req[t]
<1>r. r \in RequestRecords /\ r.slot \in Slots
  BY DEF OwnInv, LockInv, TypeInv, TypeOK, RequestRecords
<1>h. /\ holder \in [Slots -> Requests \cup {NoTask}]
      /\ waiters \in [Slots -> Seq(Requests \cup {Healer})]
      /\ \A s \in Slots : waiters[s] \in Seq(Requests \cup {Healer})
  BY DEF OwnInv, LockInv, TypeInv, TypeOK
<1>t. t # NoTask /\ t # Healer /\ t \in Requests \cup {Healer}
  BY TasksAssumption
<1>o. \A s \in Slots : /\ holder[s] = t => r.slot = s /\ r.pc \in {"sending", "saving"}
                       /\ t \in ToSet(waiters[s]) => r.slot = s /\ r.pc = "queued"
                       /\ Once(waiters[s])
  BY <1>t DEF OwnInv, Owners, Waits
<1>i. \A served, left : /\ NoRequest(served).pc = "idle"
                        /\ [NoRequest(served) EXCEPT !.staged = left].pc = "idle"
  BY DEF NoRequest
<1>c. \A pc \in {"queued", "sending"} :
        /\ [Captured(r) EXCEPT !.pc = pc].slot = r.slot
        /\ [Captured(r) EXCEPT !.pc = pc].pc = pc
  BY <1>r DEF Captured, RequestRecords
<1>e. \A pc \in {"sending", "saving", "queued"}, x \in SUBSET (1..MaxTurns) :
        /\ [r EXCEPT !.pc = pc].slot = r.slot /\ [r EXCEPT !.pc = pc].pc = pc
        /\ [[r EXCEPT !.staged = x] EXCEPT !.pc = pc].slot = r.slot
        /\ [[r EXCEPT !.staged = x] EXCEPT !.pc = pc].pc = pc
  BY <1>r DEF RequestRecords
<1> HIDE DEF r
\* Nothing moves: the request stays in its turn, or was in none and in no queue
<1>k. ASSUME NEW q, Update(t, q), UNCHANGED <<locks, heal>>, r.pc # "queued",
             r.pc \in {"sending", "saving"} => q.slot = r.slot /\ q.pc \in {"sending", "saving"}
      PROVE  Owners'
  BY <1>k, <1>h, <1>o, RequestOwns DEF locks
\* The lock is left
<1>l. ASSUME NEW q, Update(t, q), UNCHANGED <<waiters, heal>>, r.pc \in {"sending", "saving"},
             Take(NoTask, r.slot), q.pc = "idle"
      PROVE  Owners'
  <2>1. \A s \in Slots : holder'[s] \in {holder[s], NoTask} /\ holder'[s] # t
    BY <1>l, <1>h, <1>o, <1>t DEF Take
  <2> QED BY <1>l, <1>o, <2>1, RequestOwns
\* The queue is joined
<1>w. ASSUME r.pc # "queued", Wait(t, r.slot)
      PROVE  \A s \in Slots : /\ ToSet(waiters'[s]) \subseteq ToSet(waiters[s]) \cup {t}
                              /\ t \in ToSet(waiters'[s]) => r.slot = s
                              /\ Once(waiters'[s])
  <2> SUFFICES ASSUME NEW s \in Slots
               PROVE  /\ ToSet(waiters'[s]) \subseteq ToSet(waiters[s]) \cup {t}
                      /\ t \in ToSet(waiters'[s]) => r.slot = s
                      /\ Once(waiters'[s])
    OBVIOUS
  <2>1. t \notin ToSet(waiters[s]) /\ Once(waiters[s])
    BY <1>w, <1>o
  <2>2. CASE s = r.slot
    <3>1. waiters'[s] = Append(waiters[s], t)
      BY <1>w, <1>h, <2>2 DEF Wait
    <3>2. waiters[s] \in Seq(Requests \cup {Healer})
      BY <1>h
    <3>3. /\ Once(Append(waiters[s], t))
          /\ ToSet(Append(waiters[s], t)) = ToSet(waiters[s]) \cup {t}
      BY <1>t, <2>1, <3>2, JoinedOnce
    <3> QED BY <2>2, <3>1, <3>3
  <2>3. CASE s # r.slot
    <3>1. waiters'[s] = waiters[s]
      BY <1>w, <1>h, <2>3 DEF Wait
    <3> QED BY <2>1, <3>1
  <2> QED BY <2>2, <2>3
<1>1. CASE Accept(t)
  <2>1. PICK q : Update(t, q)
    BY <1>1 DEF Accept
  <2>2. r.pc = "idle" /\ UNCHANGED <<locks, heal>>
    BY <1>1 DEF Accept, r
  <2> QED BY <1>k, <2>1, <2>2
<1>2. CASE Refuse(t)
  BY <1>2, <1>k DEF Refuse, Finished, r
<1>3. CASE Begin(t)
  <2>0. r.pc = "picked" /\ UNCHANGED heal /\ Captured(r).slot = r.slot
    BY <1>3, <1>r DEF Begin, r, Captured, RequestRecords
  <2>1. CASE Free(r.slot)
    <3>1. /\ Update(t, [Captured(r) EXCEPT !.pc = "sending"]) /\ Take(t, r.slot)
          /\ UNCHANGED waiters
      BY <1>3, <2>0, <2>1 DEF Begin, Becomes, Free, r
    <3>2. \A s \in Slots : /\ holder'[s] \in {holder[s], NoTask, t}
                           /\ holder'[s] = t => s = r.slot
      BY <1>h, <1>o, <2>0, <3>1 DEF Take
    <3> QED BY <1>c, <1>o, <2>0, <3>1, <3>2, RequestOwns
  <2>2. CASE ~Free(r.slot)
    <3>1. /\ Update(t, [Captured(r) EXCEPT !.pc = "queued"]) /\ Wait(t, r.slot)
          /\ UNCHANGED holder
      BY <1>3, <2>0, <2>2 DEF Begin, Becomes, r
    <3>2. \A s \in Slots : holder'[s] \in {holder[s], NoTask, t} /\ holder'[s] # t
      BY <1>o, <2>0, <3>1
    <3> QED BY <1>c, <1>w, <2>0, <3>1, <3>2, RequestOwns
  <2> QED BY <2>1, <2>2
<1>4. CASE StartSending(t)
  <2>1. /\ Update(t, [r EXCEPT !.pc = "sending"]) /\ Take(t, r.slot) /\ Dequeue(r.slot)
        /\ waiters[r.slot] # <<>> /\ Head(waiters[r.slot]) = t /\ UNCHANGED heal
        /\ r.pc = "queued"
    BY <1>4 DEF StartSending, Becomes, Woken, r
  <2>2. \A s \in Slots : /\ holder'[s] \in {holder[s], NoTask, t}
                         /\ holder'[s] = t => s = r.slot
    BY <1>h, <1>o, <2>1 DEF Take
  <2>3. ASSUME NEW s \in Slots
        PROVE  /\ ToSet(waiters'[s]) \subseteq ToSet(waiters[s])
               /\ t \notin ToSet(waiters'[s]) /\ Once(waiters'[s])
    <3>1. CASE s = r.slot
      <4>1. waiters'[s] = Tail(waiters[s])
        BY <1>h, <2>1, <3>1 DEF Dequeue
      <4>2. waiters[s] \in Seq(Requests \cup {Healer}) /\ Once(waiters[s])
        BY <1>h, <1>o
      <4> QED BY <2>1, <3>1, <4>1, <4>2, ServedOnce
    <3>2. CASE s # r.slot
      <4>1. waiters'[s] = waiters[s]
        BY <1>h, <2>1, <3>2 DEF Dequeue
      <4> QED BY <1>o, <3>2, <4>1
    <3> QED BY <3>1, <3>2
  <2> DEFINE q == [r EXCEPT !.pc = "sending"]
  <2>4. Update(t, q) /\ q.slot = r.slot /\ q.pc = "sending"
    BY <1>r, <2>1 DEF RequestRecords
  <2> HIDE DEF q
  <2>5. \A s \in Slots : holder'[s] = t => q.slot = s /\ q.pc \in {"sending", "saving"}
    BY <2>2, <2>4
  <2>6. /\ \A s \in Slots : ToSet(waiters'[s]) \subseteq ToSet(waiters[s]) \cup {t}
        /\ \A s \in Slots : t \in ToSet(waiters'[s]) => q.slot = s /\ q.pc = "queued"
        /\ \A s \in Slots : Once(waiters'[s])
    BY <2>3
  <2> QED BY <2>1, <2>2, <2>4, <2>5, <2>6, RequestOwns
<1>5. CASE NextTurn(t)
  <2> DEFINE q == [r EXCEPT !.part = r.part + 1, !.staged = r.staged \ {r.part}]
  <2>1. Update(t, q) /\ r.pc = "sending" /\ UNCHANGED <<locks, heal>>
    BY <1>5 DEF NextTurn, LeftFiles, r
  <2>2. q.slot = r.slot /\ q.pc = r.pc
    BY <1>r DEF RequestRecords
  <2> HIDE DEF q
  <2> QED BY <1>k, <2>1, <2>2
<1>6. CASE Complete(t)
  <2>1. r.pc = "sending" /\ UNCHANGED heal
    BY <1>6 DEF Complete, r
  <2>2. CASE r.stream
    <3> DEFINE q == [[r EXCEPT !.staged = r.staged \ {r.part}] EXCEPT !.pc = "saving"]
    <3>1. Update(t, q) /\ UNCHANGED locks
      BY <1>6, <2>2 DEF Complete, Becomes, r, LeftFiles
    <3>2. q.slot = r.slot /\ q.pc = "saving"
      BY <1>r DEF RequestRecords
    <3> HIDE DEF q
    <3> QED BY <1>k, <2>1, <3>1, <3>2
  <2>3. CASE ~r.stream
    <3>1. /\ Update(t, [NoRequest(r.served) EXCEPT !.staged = r.staged \ {r.part}])
          /\ Take(NoTask, r.slot) /\ UNCHANGED waiters
      BY <1>6, <2>3 DEF Complete, Abandoned, Release, r, LeftFiles
    <3> QED BY <1>i, <1>l, <2>1, <3>1
  <2> QED BY <2>2, <2>3
<1>7. CASE SaveDone(t)
  <2>1. /\ Update(t, [NoRequest(r.served) EXCEPT !.staged = r.staged])
        /\ Take(NoTask, r.slot) /\ UNCHANGED <<waiters, heal>> /\ r.pc = "saving"
    BY <1>7 DEF SaveDone, Abandoned, Release, r
  <2> QED BY <1>i, <1>l, <2>1
<1>8. CASE SendFails(t)
  <2>1. /\ Update(t, [NoRequest(r.served) EXCEPT !.staged = r.staged \ {r.part}])
        /\ Take(NoTask, r.slot) /\ UNCHANGED <<waiters, heal>> /\ r.pc = "sending"
    BY <1>8 DEF SendFails, Abandoned, Release, r, LeftFiles
  <2> QED BY <1>i, <1>l, <2>1
<1>9. CASE RetryFresh(t)
  <2> DEFINE left == [r EXCEPT !.resume = FALSE, !.retried = TRUE, !.part = 1,
                               !.staged = r.staged \ {r.part}]
             again == IF r.stream THEN left ELSE Captured(left)
  <2>1. again.slot = r.slot
        /\ \A pc \in {"queued", "sending"} :
             /\ [again EXCEPT !.pc = pc].slot = r.slot
             /\ [again EXCEPT !.pc = pc].pc = pc
    BY <1>r DEF Captured, RequestRecords
  <2>2. r.pc = "sending" /\ UNCHANGED heal
    BY <1>9 DEF RetryFresh, r
  <2> HIDE DEF left, again
  <2>3. \/ Update(t, NoRequest(r.served)) /\ Take(NoTask, r.slot) /\ UNCHANGED waiters
        \/ Update(t, [again EXCEPT !.pc = "sending"]) /\ UNCHANGED locks
        \/ Update(t, [again EXCEPT !.pc = "queued"]) /\ Take(NoTask, r.slot) /\ Wait(t, r.slot)
    BY <1>9, <2>1 DEF RetryFresh, Finished, Becomes, Release, r, left, again, LeftFiles
  <2>4. CASE Update(t, NoRequest(r.served)) /\ Take(NoTask, r.slot) /\ UNCHANGED waiters
    BY <1>i, <1>l, <2>2, <2>4
  <2>5. CASE Update(t, [again EXCEPT !.pc = "sending"]) /\ UNCHANGED locks
    BY <1>k, <2>1, <2>2, <2>5
  <2>6. CASE /\ Update(t, [again EXCEPT !.pc = "queued"])
             /\ Take(NoTask, r.slot) /\ Wait(t, r.slot)
    <3>1. \A s \in Slots : holder'[s] \in {holder[s], NoTask} /\ holder'[s] # t
      BY <1>h, <1>o, <1>t, <2>6 DEF Take
    <3>2. \A s \in Slots : /\ ToSet(waiters'[s]) \subseteq ToSet(waiters[s]) \cup {t}
                           /\ t \in ToSet(waiters'[s]) => r.slot = s
                           /\ Once(waiters'[s])
      BY <1>w, <2>2, <2>6
    <3> DEFINE q == [again EXCEPT !.pc = "queued"]
    <3>3. q.slot = r.slot /\ q.pc = "queued" /\ Update(t, q)
      BY <2>1, <2>6
    <3> HIDE DEF q
    <3> QED BY <2>2, <3>1, <3>2, <3>3, RequestOwns
  <2> QED BY <2>3, <2>4, <2>5, <2>6
<1>10. CASE Delta(t)
  <2> DEFINE q == [r EXCEPT !.delivered = r.delivered \cup {Attempt(r)}]
  <2>1. Update(t, q) /\ r.pc = "sending" /\ UNCHANGED <<locks, heal>>
    BY <1>10 DEF Delta, r
  <2>2. q.slot = r.slot /\ q.pc = r.pc
    BY <1>r DEF RequestRecords
  <2> HIDE DEF q
  <2> QED BY <1>k, <2>1, <2>2
<1>11. CASE Cancel(t)
  <2> DEFINE left == IF r.pc = "sending" THEN r.staged \ {r.part} ELSE r.staged
  <2>1. /\ Update(t, [NoRequest(r.served) EXCEPT !.staged = left]) /\ Leave(t, r.slot)
        /\ UNCHANGED heal
    BY <1>11 DEF Cancel, Abandoned, r, LeftFiles
  <2> HIDE DEF left
  <2>2. \A s \in Slots : holder'[s] \in {holder[s], NoTask} /\ holder'[s] # t
    BY <1>h, <1>o, <1>t, <2>1 DEF Leave
  <2>3. ASSUME NEW s \in Slots
        PROVE  /\ ToSet(waiters'[s]) \subseteq ToSet(waiters[s])
               /\ t \notin ToSet(waiters'[s]) /\ Once(waiters'[s])
    <3>1. CASE s = r.slot
      <4>1. waiters'[s] = WithoutWaiter(waiters[s], t)
        BY <1>h, <2>1, <3>1 DEF Leave
      <4>2. waiters[s] \in Seq(Requests \cup {Healer}) /\ Once(waiters[s])
        BY <1>h, <1>o
      <4> QED BY <4>1, <4>2, LeftOnce
    <3>2. CASE s # r.slot
      <4>1. waiters'[s] = waiters[s]
        BY <1>h, <2>1, <3>2 DEF Leave
      <4> QED BY <1>o, <3>2, <4>1
    <3> QED BY <3>1, <3>2
  <2> QED BY <1>i, <2>1, <2>2, <2>3, RequestOwns
<1> QED
  BY <1>1, <1>2, <1>3, <1>4, <1>5, <1>6, <1>7, <1>8, <1>9, <1>10, <1>11 DEF Step

\* What a step of the healer must do to keep every lock and queue owned.
LEMMA HealOwns ==
  ASSUME OwnInv, UNCHANGED <<req, holder>>,
         \A s \in Slots : ToSet(waiters'[s]) \subseteq ToSet(waiters[s]) \cup {Healer},
         \A s \in Slots : Healer \in ToSet(waiters'[s]) => heal'.pc = "queued" /\ heal'.slot = s,
         \A s \in Slots : Once(waiters'[s])
  PROVE  Owners'
<1>1. ASSUME NEW s \in Slots, NEW who \in ToSet(waiters'[s]) PROVE Waits(who, s)'
  BY <1>1 DEF OwnInv, Owners, Waits
<1> QED BY <1>1 DEF OwnInv, Owners

\* Every other step keeps the locks and the queues owned.
LEMMA HealOwners ==
  ASSUME OwnInv,
         \/ HealStart \/ Healing
         \/ \E o \in closing : CloseReplaced(o)
         \/ \E s \in Slots : Degrade(s) \/ Recover(s)
  PROVE  Owners'
<1>r. UNCHANGED <<holder, req>>
  BY HealLeavesLocks
<1>h. /\ heal.slot \in Slots /\ heal \in HealRecords
      /\ waiters \in [Slots -> Seq(Requests \cup {Healer})]
      /\ \A s \in Slots : waiters[s] \in Seq(Requests \cup {Healer})
  BY DEF OwnInv, LockInv, TypeInv, TypeOK, HealRecords
<1>o. \A s \in Slots : /\ Healer \in ToSet(waiters[s]) => heal.pc = "queued" /\ heal.slot = s
                       /\ Once(waiters[s])
  BY DEF OwnInv, Owners, Waits
<1>k. ASSUME UNCHANGED waiters, heal.pc # "queued" \/ UNCHANGED heal PROVE Owners'
  BY <1>k, <1>o, <1>r, HealOwns
<1>1. CASE HealStart \/ HealSkip \/ HealBuild \/ HealFails
  BY <1>1, <1>k DEF HealStart, HealSkip, HealBuild, HealFails, locks
<1>2. CASE (\E o \in closing : CloseReplaced(o)) \/ \E s \in Slots : Degrade(s) \/ Recover(s)
  BY <1>2, <1>k DEF CloseReplaced, Degrade, Recover, locks
<1>3. CASE HealWaits
  <2>1. heal.pc = "building" /\ Wait(Healer, heal.slot)
    BY <1>3 DEF HealWaits
  <2>2. heal'.pc = "queued" /\ heal'.slot = heal.slot
    BY <1>3, <1>h DEF HealWaits, HealRecords
  <2>3. ASSUME NEW s \in Slots
        PROVE  /\ ToSet(waiters'[s]) \subseteq ToSet(waiters[s]) \cup {Healer}
               /\ Healer \in ToSet(waiters'[s]) => heal.slot = s
               /\ Once(waiters'[s])
    <3>1. Healer \notin ToSet(waiters[s]) /\ Once(waiters[s])
      BY <1>o, <2>1
    <3>2. CASE s = heal.slot
      <4>1. waiters'[s] = Append(waiters[s], Healer)
        BY <1>h, <2>1, <3>2 DEF Wait
      <4>2. waiters[s] \in Seq(Requests \cup {Healer})
        BY <1>h
      <4>3. /\ Once(Append(waiters[s], Healer))
            /\ ToSet(Append(waiters[s], Healer)) = ToSet(waiters[s]) \cup {Healer}
        BY <3>1, <4>2, JoinedOnce
      <4> QED BY <3>2, <4>1, <4>3
    <3>3. CASE s # heal.slot
      <4>1. waiters'[s] = waiters[s]
        BY <1>h, <2>1, <3>3 DEF Wait
      <4> QED BY <3>1, <4>1
    <3> QED BY <3>2, <3>3
  <2> QED BY <1>r, <2>2, <2>3, HealOwns
<1>4. CASE HealSwap \/ HealDiscard
  <2>1. HealLocked
    BY <1>4 DEF HealSwap, HealDiscard
  <2>2. CASE heal.pc = "building" /\ UNCHANGED locks
    BY <1>k, <2>2 DEF locks
  <2>3. CASE heal.pc = "queued" /\ Woken(Healer, heal.slot) /\ Dequeue(heal.slot)
    <3>1. ASSUME NEW s \in Slots
          PROVE  /\ ToSet(waiters'[s]) \subseteq ToSet(waiters[s])
                 /\ Healer \notin ToSet(waiters'[s]) /\ Once(waiters'[s])
      <4>1. CASE s = heal.slot
        <5>1. waiters'[s] = Tail(waiters[s]) /\ waiters[s] # <<>> /\ Head(waiters[s]) = Healer
          BY <1>h, <2>3, <4>1 DEF Dequeue, Woken
        <5>2. waiters[s] \in Seq(Requests \cup {Healer}) /\ Once(waiters[s])
          BY <1>h, <1>o
        <5> QED BY <5>1, <5>2, ServedOnce
      <4>2. CASE s # heal.slot
        <5>1. waiters'[s] = waiters[s]
          BY <1>h, <2>3, <4>2 DEF Dequeue
        <5> QED BY <1>o, <4>2, <5>1
      <4> QED BY <4>1, <4>2
    <3> QED BY <1>r, <3>1, HealOwns
  <2> QED BY <2>1, <2>2, <2>3 DEF HealLocked
<1> QED BY <1>1, <1>2, <1>3, <1>4 DEF Healing

\* OwnInv is inductive and holds in every reachable state.
LEMMA OwnersKept == Spec => []OwnInv
<1>1. Init => Owners
  <2> SUFFICES ASSUME Init PROVE Owners
    OBVIOUS
  <2>1. \A s \in Slots : holder[s] = NoTask /\ waiters[s] = <<>>
    BY DEF Init
  <2>2. ToSet(<<>>) = {} /\ Once(<<>>)
    BY DEF ToSet, Once
  <2> QED BY <2>1, <2>2 DEF Owners
<1>2. LockInv /\ Owners /\ [Next]_vars => Owners'
  <2> SUFFICES ASSUME OwnInv, [Next]_vars PROVE Owners'
    BY DEF OwnInv
  <2>1. ASSUME NEW t \in Requests, Accept(t) \/ Step(t) \/ Delta(t) \/ Cancel(t)
        PROVE  Owners'
    BY <2>1, RequestOwners
  <2>2. CASE UNCHANGED vars
    BY <2>2 DEF vars, OwnInv, Owners, Waits
  <2> QED BY <2>1, <2>2, HealOwners DEF Next
<1> QED BY <1>1, <1>2, LocksKept, PTL DEF Spec, OwnInv

\* A lock is held only by a request in its turn on that account, and waited for
\* only by tasks that are queued there: no lock is left behind by a task that is
\* over, so nobody waits for ever on nobody.
THEOREM LocksOwned == Spec => []LocksHaveOwners
<1>1. OwnInv => LocksHaveOwners
  <2> SUFFICES ASSUME OwnInv, NEW s \in Slots
               PROVE  /\ holder[s] # NoTask => req[holder[s]].slot = s /\ InTurn(holder[s])
                      /\ \A i \in DOMAIN waiters[s] :
                           IF waiters[s][i] = Healer
                           THEN heal.pc = "queued" /\ heal.slot = s
                           ELSE req[waiters[s][i]].slot = s /\ req[waiters[s][i]].pc = "queued"
    BY DEF LocksHaveOwners
  <2>1. \A i \in DOMAIN waiters[s] : waiters[s][i] \in ToSet(waiters[s])
    BY DEF ToSet
  <2> QED BY <2>1 DEF OwnInv, Owners, Waits, InTurn
<1> QED BY <1>1, OwnersKept, PTL

-----------------------------------------------------------------------------
(* The staged files: the turns of a first attempt find theirs, and requests *)
(* of a single turn that are not cancelled leave none behind.  FilesPresent *)
(* speaks of the turn under way; it is inductive once it speaks of all      *)
(* turns that are still to come.                                            *)

FilesAhead(r) ==
  ~r.retried =>
    /\ r.pc = "picked" => r.uploads \subseteq r.staged
    /\ r.pc \in {"queued", "sending"} =>
         \A i \in r.uploads : i >= r.part => i \in r.staged

\* With one turn per request nothing is left when the turn is over.
FilesBehind(r) == r.pc \in {"idle", "saving"} => r.staged = {}

\* Each request is one turn, and streams do not go away.
OneTurnEach == MaxTurns = 1 /\ "cancel" \notin Events

FilesInv ==
  /\ TypeInv
  /\ \A t \in Requests : FilesAhead(req[t])
  /\ OneTurnEach => \A t \in Requests : FilesBehind(req[t])

\* A step of a request changes one record.
LEMMA OneRecord ==
  ASSUME FilesInv, NEW t \in Requests, NEW q, Update(t, q),
         FilesAhead(q), OneTurnEach => FilesBehind(q)
  PROVE  /\ \A u \in Requests : FilesAhead(req[u])'
         /\ OneTurnEach => \A u \in Requests : FilesBehind(req[u])'
<1>1. req' = [req EXCEPT ![t] = q] /\ req \in [Requests -> RequestRecords]
  BY DEF Update, FilesInv, TypeInv, TypeOK
<1>2. \A u \in Requests : req'[u] = IF u = t THEN q ELSE req[u]
  BY <1>1
<1> QED BY <1>2 DEF FilesInv, FilesAhead, FilesBehind

\* When a turn is over cleanup() has removed the files of a one-turn request.
LEMMA CleanedUp ==
  ASSUME TypeInv, NEW t \in Requests, req[t].pc = "sending", OneTurnEach
  PROVE  LeftFiles(req[t]) = {}
<1>1. req[t] \in RequestRecords /\ LegalRecord(req[t])
  BY DEF TypeInv, TypeOK
<1>2. /\ req[t].part \in 1..req[t].turns /\ req[t].turns \in 0..1
      /\ req[t].staged \subseteq 1..1
  BY <1>1 DEF LegalRecord, RequestRecords, OneTurnEach
<1> QED BY <1>2 DEF LeftFiles

\* A request that is over has no turns to come.
LEMMA OverIsClean ==
  ASSUME NEW served, NEW left
  PROVE  /\ FilesAhead(NoRequest(served)) /\ FilesBehind(NoRequest(served))
         /\ FilesAhead([NoRequest(served) EXCEPT !.staged = left])
         /\ left = {} => FilesBehind([NoRequest(served) EXCEPT !.staged = left])
BY DEF NoRequest, FilesAhead, FilesBehind

\* Every step of a request keeps the files of the turns to come, and only those.
LEMMA RequestFiles ==
  ASSUME FilesInv, NEW t \in Requests,
         Accept(t) \/ Step(t) \/ Delta(t) \/ Cancel(t)
  PROVE  /\ \A u \in Requests : FilesAhead(req[u])'
         /\ OneTurnEach => \A u \in Requests : FilesBehind(req[u])'
<1> DEFINE r == req[t]
<1>r. r \in RequestRecords /\ LegalRecord(r)
  BY DEF FilesInv, TypeInv, TypeOK
<1>s. /\ r.part \in 0..MaxTurns /\ MaxTurns \in Nat
      /\ r.staged \subseteq 1..MaxTurns /\ r.uploads \subseteq 1..MaxTurns
  BY <1>r, SizesAssumption DEF RequestRecords
<1>a. FilesAhead(r) /\ (OneTurnEach => FilesBehind(r))
  BY DEF FilesInv
<1>c. r.pc = "sending" /\ OneTurnEach => LeftFiles(r) = {}
  BY CleanedUp DEF FilesInv
<1>o. \A left :
        (OneTurnEach => left = {}) /\ Abandoned(t, left) =>
          /\ \A u \in Requests : FilesAhead(req[u])'
          /\ OneTurnEach => \A u \in Requests : FilesBehind(req[u])'
  BY OverIsClean, OneRecord DEF Abandoned
<1>f. Finished(t) =>
        /\ \A u \in Requests : FilesAhead(req[u])'
        /\ OneTurnEach => \A u \in Requests : FilesBehind(req[u])'
  BY OverIsClean, OneRecord DEF Finished
<1> HIDE DEF r
<1>1. CASE Accept(t)
  <2>1. PICK served, n, stream, resume, s, uploads :
          Update(t, [NoRequest(served) EXCEPT
                       !.pc = "picked", !.slot = s, !.turns = n,
                       !.stream = stream, !.resume = resume,
                       !.uploads = uploads, !.staged = uploads])
    BY <1>1 DEF Accept
  <2> DEFINE q == [NoRequest(served) EXCEPT
                       !.pc = "picked", !.slot = s, !.turns = n,
                       !.stream = stream, !.resume = resume,
                       !.uploads = uploads, !.staged = uploads]
  <2>2. FilesAhead(q) /\ FilesBehind(q)
    BY DEF FilesAhead, FilesBehind, NoRequest
  <2> QED BY <2>1, <2>2, OneRecord
<1>2. CASE Refuse(t)
  BY <1>2, <1>f DEF Refuse
<1>3. CASE Begin(t)
  <2>1. PICK pc \in {"queued", "sending"} : Update(t, [Captured(r) EXCEPT !.pc = pc])
    BY <1>3 DEF Begin, Becomes, r
  <2>2. r.pc = "picked"
    BY <1>3 DEF Begin, r
  <2> DEFINE q == [Captured(r) EXCEPT !.pc = pc]
  <2>3. /\ q.pc = pc /\ q.part = 1 /\ q.uploads = r.uploads /\ q.staged = r.staged
        /\ q.retried = r.retried
    BY <1>r DEF Captured, RequestRecords
  <2> HIDE DEF q
  <2>4. FilesAhead(q) /\ FilesBehind(q)
    BY <1>a, <2>2, <2>3 DEF FilesAhead, FilesBehind
  <2> QED BY <2>1, <2>4, OneRecord DEF q
<1>4. CASE StartSending(t)
  <2> DEFINE q == [r EXCEPT !.pc = "sending"]
  <2>1. r.pc = "queued" /\ Update(t, q)
    BY <1>4 DEF StartSending, Becomes, r
  <2>2. /\ q.pc = "sending" /\ q.part = r.part /\ q.uploads = r.uploads
        /\ q.staged = r.staged /\ q.retried = r.retried
    BY <1>r DEF RequestRecords
  <2> HIDE DEF q
  <2>3. FilesAhead(q) /\ FilesBehind(q)
    BY <1>a, <2>1, <2>2 DEF FilesAhead, FilesBehind
  <2> QED BY <2>1, <2>3, OneRecord
<1>5. CASE NextTurn(t)
  <2> DEFINE q == [r EXCEPT !.part = r.part + 1, !.staged = r.staged \ {r.part}]
  <2>1. r.pc = "sending" /\ Update(t, q)
    BY <1>5 DEF NextTurn, LeftFiles, r
  <2>2. /\ q.pc = "sending" /\ q.part = r.part + 1 /\ q.uploads = r.uploads
        /\ q.staged = r.staged \ {r.part} /\ q.retried = r.retried
    BY <1>r, <2>1 DEF RequestRecords
  <2> HIDE DEF q
  <2>3. FilesAhead(q) /\ FilesBehind(q)
    BY <1>a, <1>s, <2>1, <2>2 DEF FilesAhead, FilesBehind
  <2> QED BY <2>1, <2>3, OneRecord
<1>6. CASE Complete(t)
  <2>1. r.pc = "sending"
    BY <1>6 DEF Complete, r
  <2>2. CASE r.stream
    <3> DEFINE q == [[r EXCEPT !.staged = LeftFiles(r)] EXCEPT !.pc = "saving"]
    <3>1. Update(t, q)
      BY <1>6, <2>2 DEF Complete, Becomes, r
    <3>2. q.pc = "saving" /\ q.staged = LeftFiles(r)
      BY <1>r DEF RequestRecords
    <3> HIDE DEF q
    <3>3. FilesAhead(q) /\ (OneTurnEach => FilesBehind(q))
      BY <1>c, <2>1, <3>2 DEF FilesAhead, FilesBehind
    <3> QED BY <3>1, <3>3, OneRecord
  <2>3. CASE ~r.stream
    BY <1>6, <1>c, <1>o, <2>1, <2>3 DEF Complete, r
  <2> QED BY <2>2, <2>3
<1>7. CASE SaveDone(t)
  <2>1. r.pc = "saving" /\ Abandoned(t, r.staged)
    BY <1>7 DEF SaveDone, r
  <2> QED BY <1>a, <1>o, <2>1 DEF FilesBehind
<1>8. CASE SendFails(t)
  BY <1>8, <1>c, <1>o DEF SendFails, r
<1>9. CASE RetryFresh(t)
  <2> DEFINE left == [r EXCEPT !.resume = FALSE, !.retried = TRUE, !.part = 1,
                               !.staged = LeftFiles(r)]
             again == IF r.stream THEN left ELSE Captured(left)
  <2>1. \A pc \in {"queued", "sending"} :
          /\ [again EXCEPT !.pc = pc].pc = pc
          /\ [again EXCEPT !.pc = pc].retried = TRUE
    BY <1>r DEF Captured, RequestRecords
  <2>2. \A pc \in {"queued", "sending"} :
          FilesAhead([again EXCEPT !.pc = pc]) /\ FilesBehind([again EXCEPT !.pc = pc])
    BY <2>1 DEF FilesAhead, FilesBehind
  <2>3. Finished(t) \/ \E pc \in {"queued", "sending"} : Update(t, [again EXCEPT !.pc = pc])
    BY <1>9 DEF RetryFresh, Becomes, r
  <2> HIDE DEF left, again
  <2> QED BY <1>f, <2>2, <2>3, OneRecord
<1>10. CASE Delta(t)
  <2> DEFINE q == [r EXCEPT !.delivered = r.delivered \cup {Attempt(r)}]
  <2>1. r.pc = "sending" /\ Update(t, q)
    BY <1>10 DEF Delta, r
  <2>2. /\ q.pc = "sending" /\ q.part = r.part /\ q.uploads = r.uploads
        /\ q.staged = r.staged /\ q.retried = r.retried
    BY <1>r, <2>1 DEF RequestRecords
  <2> HIDE DEF q
  <2>3. FilesAhead(q) /\ FilesBehind(q)
    BY <1>a, <2>1, <2>2 DEF FilesAhead, FilesBehind
  <2> QED BY <2>1, <2>3, OneRecord
<1>11. CASE Cancel(t)
  BY <1>11, <1>o DEF Cancel, OneTurnEach, r
<1> QED
  BY <1>1, <1>2, <1>3, <1>4, <1>5, <1>6, <1>7, <1>8, <1>9, <1>10, <1>11 DEF Step

\* FilesInv is inductive and holds in every reachable state.
LEMMA FilesKept == Spec => []FilesInv
<1>1. Init => FilesInv
  <2>1. Init => \A t \in Requests : req[t] = NoRequest(0)
    BY DEF Init
  <2> QED BY <2>1, InitType, OverIsClean DEF FilesInv
<1>2. FilesInv /\ [Next]_vars => FilesInv'
  <2> SUFFICES ASSUME FilesInv, [Next]_vars PROVE FilesInv'
    OBVIOUS
  <2>1. TypeInv'
    BY NextType DEF FilesInv
  <2>2. ASSUME NEW t \in Requests, Accept(t) \/ Step(t) \/ Delta(t) \/ Cancel(t)
        PROVE  FilesInv'
    BY <2>1, <2>2, RequestFiles DEF FilesInv, OneTurnEach
  <2>3. UNCHANGED req => FilesInv'
    BY <2>1 DEF FilesInv, OneTurnEach, FilesAhead, FilesBehind
  <2>4. \/ UNCHANGED req
        \/ \E t \in Requests : Accept(t) \/ Step(t) \/ Delta(t) \/ Cancel(t)
    BY DEF Next, vars, Degrade, Recover, HealStart, Healing, HealSkip, HealBuild,
           HealFails, HealWaits, HealSwap, HealDiscard, CloseReplaced
  <2> QED BY <2>2, <2>3, <2>4
<1> QED BY <1>1, <1>2, PTL DEF Spec

\* For any number of slots, requests and turns the first attempt of a turn finds
\* the files staged for it, whatever its request has cleaned up before it.
THEOREM FilesFound == Spec => []FilesPresent
<1>1. FilesInv => FilesPresent
  <2> SUFFICES ASSUME FilesInv, NEW t \in Requests, ~req[t].retried, req[t].pc = "sending",
                      req[t].part \in req[t].uploads
               PROVE  req[t].part \in req[t].staged
    BY DEF FilesPresent, HasItsFiles
  <2>1. req[t].part \in Nat
    BY SizesAssumption DEF FilesInv, TypeInv, TypeOK, RequestRecords
  <2> QED BY <2>1 DEF FilesInv, FilesAhead
<1> QED BY <1>1, FilesKept, PTL

\* Requests of one turn that are not cancelled leave no file behind: success,
\* failure, retry and refusal all clean up (UploadFile.cleanup).
THEOREM FilesRemoved == OneTurnEach => (Spec => []NoFileLeft)
<1> SUFFICES ASSUME OneTurnEach PROVE Spec => []NoFileLeft
  OBVIOUS
<1>1. FilesInv => NoFileLeft
  BY DEF FilesInv, FilesBehind, NoFileLeft
<1> QED BY <1>1, FilesKept, PTL

-----------------------------------------------------------------------------
(* AccountTurns implements AccountService.  With the locks owned, whom an    *)
(* account serves is its lock's holder, so a step is judged by what it does  *)
(* to holder, waiters and client.                                           *)

ServiceInv == OwnInv /\ ClientInv

Served == [s \in Slots |-> {holder[s]} \ {NoTask}]

\* The requests in their turn are exactly the holders of the locks.
LEMMA RunningIsServed == OwnInv => Running = Served
<1> SUFFICES ASSUME OwnInv, NEW s \in Slots
             PROVE  {t \in Requests : InTurn(t) /\ req[t].slot = s} = {holder[s]} \ {NoTask}
  BY DEF Running, Served
<1>1. holder[s] \in Requests \cup {NoTask}
  BY DEF OwnInv, LockInv, TypeInv, TypeOK
<1>2. ASSUME NEW t \in Requests, InTurn(t), req[t].slot = s
      PROVE  holder[s] = t /\ t # NoTask
  BY <1>2, TasksAssumption DEF OwnInv, LockInv, TurnsHoldLocks
<1>3. holder[s] # NoTask => InTurn(holder[s]) /\ req[holder[s]].slot = s
  BY DEF OwnInv, Owners, InTurn
<1> QED BY <1>1, <1>2, <1>3

\* What the invariant says of the state the abstract steps look at.
LEMMA ServiceState ==
  ASSUME ServiceInv
  PROVE  /\ Running = Served
         /\ holder \in [Slots -> Requests \cup {NoTask}]
         /\ waiters \in [Slots -> Seq(Requests \cup {Healer})]
         /\ client \in [Slots -> 1..MaxClients]
         /\ \A s \in Slots : Running[s] = {} <=> holder[s] = NoTask
         /\ \A s \in Slots, t \in Requests : t \in Running[s] <=> holder[s] = t
<1>1. /\ holder \in [Slots -> Requests \cup {NoTask}]
      /\ waiters \in [Slots -> Seq(Requests \cup {Healer})]
  BY DEF ServiceInv, OwnInv, LockInv, TypeInv, TypeOK
<1>2. made \in N..MaxClients /\ client \in [Slots -> 1..made]
  BY DEF ServiceInv, OwnInv, LockInv, TypeInv, TypeOK
<1>3. 1..made \subseteq 1..MaxClients
  BY <1>2, SizesAssumption
<1>4. Running = Served
  BY RunningIsServed DEF ServiceInv
<1>5. NoTask \notin Requests
  BY TasksAssumption
<1> QED BY <1>1, <1>2, <1>3, <1>4, <1>5 DEF Served

\* A task that is in no turn and in no queue is outside the service.
LEMMA OutsideTask ==
  ASSUME ServiceInv, NEW w \in Requests \cup {Healer},
         \A s \in Slots : holder[s] # w /\ w \notin ToSet(waiters[s])
  PROVE  Service!Outside(w)
<1>1. \A s \in Slots : w \notin Running[s]
  BY ServiceState DEF Served
<1>2. \A s \in Slots : \A i \in DOMAIN waiters[s] : waiters[s][i] # w
  BY DEF ToSet
<1> QED BY <1>1, <1>2 DEF Service!Outside

\* How a change of the lock's holder changes whom the account serves.
LEMMA ServedAfter ==
  ASSUME ServiceInv, Running' = Served', NEW s \in Slots
  PROVE  /\ UNCHANGED holder => Running' = Running
         /\ Take(NoTask, s) => Running' = [Running EXCEPT ![s] = {}]
         /\ \A t \in Requests : Take(t, s) => Running' = [Running EXCEPT ![s] = {t}]
<1>1. Running = Served
  BY ServiceState
<1>2. NoTask \notin Requests /\ holder \in [Slots -> Requests \cup {NoTask}]
  BY TasksAssumption, ServiceState
<1> QED BY <1>1, <1>2 DEF Served, Take

-----------------------------------------------------------------------------
\* Steps that touch neither locks nor clients are stutters of the service.
LEMMA SilentStep ==
  ASSUME ServiceInv, Running' = Served', UNCHANGED <<holder, waiters, client>>
  PROVE  UNCHANGED Service!vars
<1>1. Running' = Running
  BY ServiceState DEF Served
<1> QED BY <1>1 DEF Service!vars

\* A request that asks for the lock is served at once or joins the line.
LEMMA AskStep ==
  ASSUME ServiceInv, Running' = Served', UNCHANGED client,
         NEW t \in Requests, NEW s \in Slots, Service!Outside(t),
         \/ Free(s) /\ Take(t, s) /\ UNCHANGED waiters
         \/ ~Free(s) /\ Wait(t, s) /\ UNCHANGED holder
  PROVE  Service!Next
<1>1. Service!Idle(s) <=> Free(s)
  BY ServiceState DEF Service!Idle, Free
<1>2. CASE Free(s) /\ Take(t, s) /\ UNCHANGED waiters
  BY <1>1, <1>2, ServedAfter DEF Service!Next, Service!Enter
<1>3. CASE ~Free(s) /\ Wait(t, s) /\ UNCHANGED holder
  BY <1>1, <1>3, ServedAfter DEF Service!Next, Service!Queue, Service!Join, Wait
<1> QED BY <1>2, <1>3

\* A request that is woken was first in the line.
LEMMA WokenStep ==
  ASSUME ServiceInv, Running' = Served', UNCHANGED client,
         NEW t \in Requests, NEW s \in Slots, Woken(t, s), Take(t, s), Dequeue(s)
  PROVE  Service!Next
<1>1. Service!NextInLine(t, s)
  BY ServiceState DEF Service!NextInLine, Woken, Dequeue
<1> QED BY <1>1, ServedAfter DEF Service!Next, Service!Serve

\* A holder that releases the lock was being served.
LEMMA ReleaseStep ==
  ASSUME ServiceInv, Running' = Served', UNCHANGED client,
         NEW t \in Requests, NEW s \in Slots, holder[s] = t, Take(NoTask, s),
         \/ UNCHANGED waiters
         \/ waiters[s] # <<>> /\ Wait(t, s)
  PROVE  Service!Next
<1>1. t \in Running[s] /\ Running' = [Running EXCEPT ![s] = {}]
  BY ServiceState, ServedAfter
<1>2. CASE UNCHANGED waiters
  BY <1>1, <1>2 DEF Service!Next, Service!Finish
<1>3. CASE waiters[s] # <<>> /\ Wait(t, s)
  BY <1>1, <1>3 DEF Service!Next, Service!Again, Service!Join, Wait
<1> QED BY <1>2, <1>3

\* A cancelled request leaves its turn or the line, or was in neither.
LEMMA LeaveStep ==
  ASSUME ServiceInv, Running' = Served', UNCHANGED client,
         NEW t \in Requests, NEW s \in Slots, Leave(t, s),
         holder[s] = t => t \notin ToSet(waiters[s])
  PROVE  Service!Next \/ UNCHANGED Service!vars
<1>t. t # NoTask
  BY TasksAssumption
<1>s. /\ holder \in [Slots -> Requests \cup {NoTask}]
      /\ waiters \in [Slots -> Seq(Requests \cup {Healer})]
  BY ServiceState
<1>1. CASE t \notin ToSet(waiters[s])
  <2>1. UNCHANGED waiters
    BY <1>1, <1>s DEF Leave, WithoutWaiter, ToSet
  <2>2. CASE holder[s] = t
    <3>1. Take(NoTask, s)
      BY <1>s, <2>2 DEF Leave, Take
    <3> QED BY <2>1, <2>2, <3>1, ReleaseStep
  <2>3. CASE holder[s] # t
    <3>1. UNCHANGED holder
      BY <1>s, <2>3 DEF Leave
    <3> QED BY <2>1, <3>1, SilentStep
  <2> QED BY <2>2, <2>3
<1>2. CASE t \in ToSet(waiters[s])
  <2>1. UNCHANGED holder
    BY <1>2, <1>s DEF Leave
  <2>2. Running' = Running
    BY <2>1, ServedAfter
  <2>3. \E i \in DOMAIN waiters[s] : waiters[s][i] = t
    BY <1>2 DEF ToSet
  <2>4. PICK i \in DOMAIN waiters[s] :
          waiters[s][i] = t /\ WithoutWaiter(waiters[s], t) = RemoveAt(waiters[s], i)
    BY <2>3 DEF WithoutWaiter
  <2>5. waiters' = [waiters EXCEPT ![s] = RemoveAt(waiters[s], i)]
    BY <1>s, <2>4 DEF Leave
  <2>6. Service!Quit(t, s)
    BY <2>2, <2>4, <2>5 DEF Service!Quit, Service!RemoveAt, RemoveAt
  <2> QED BY <2>6 DEF Service!Next
<1> QED BY <1>1, <1>2

\* Every step of a request task is a step of the service or a stutter.
LEMMA RequestServes ==
  ASSUME ServiceInv, Running' = Served', NEW t \in Requests,
         Accept(t) \/ Step(t) \/ Delta(t) \/ Cancel(t)
  PROVE  Service!Next \/ UNCHANGED Service!vars
<1> DEFINE r == req[t]
<1>r. r.slot \in Slots /\ r \in RequestRecords
  BY DEF ServiceInv, OwnInv, LockInv, TypeInv, TypeOK, RequestRecords
<1>c. UNCHANGED client
  BY DEF Step, Accept, Refuse, Begin, StartSending, NextTurn, Complete, SaveDone, SendFails,
         RetryFresh, Delta, Cancel, clients
<1>t. t # NoTask /\ t # Healer
  BY TasksAssumption
<1>o. \A s \in Slots : /\ holder[s] = t => r.slot = s /\ r.pc \in {"sending", "saving"}
                       /\ t \in ToSet(waiters[s]) => r.slot = s /\ r.pc = "queued"
  BY <1>t DEF ServiceInv, OwnInv, Owners, Waits
<1>h. r.pc \in {"sending", "saving"} => holder[r.slot] = t
  BY DEF ServiceInv, OwnInv, LockInv, TurnsHoldLocks, InTurn
<1> HIDE DEF r
\* Neither lock nor queue moves
<1>k. UNCHANGED locks => UNCHANGED Service!vars
  BY <1>c, SilentStep DEF locks
\* The lock is left
<1>l. ASSUME r.pc \in {"sending", "saving"}, Take(NoTask, r.slot),
             UNCHANGED waiters \/ (waiters[r.slot] # <<>> /\ Wait(t, r.slot))
      PROVE  Service!Next
  BY <1>c, <1>h, <1>l, <1>r, ReleaseStep
<1>1. CASE Accept(t) \/ Refuse(t) \/ NextTurn(t) \/ Delta(t)
  BY <1>1, <1>k DEF Accept, Refuse, NextTurn, Delta
<1>2. CASE Begin(t)
  <2>1. r.pc = "picked" /\ Captured(r).slot = r.slot
    BY <1>2, <1>r DEF Begin, r, Captured, RequestRecords
  <2>2. Service!Outside(t)
    BY <1>o, <2>1, OutsideTask
  <2>3. \/ Free(r.slot) /\ Take(t, r.slot) /\ UNCHANGED waiters
        \/ ~Free(r.slot) /\ Wait(t, r.slot) /\ UNCHANGED holder
    BY <1>2, <2>1 DEF Begin, r
  <2> QED BY <1>c, <1>r, <2>2, <2>3, AskStep
<1>3. CASE StartSending(t)
  <2>1. Woken(t, r.slot) /\ Take(t, r.slot) /\ Dequeue(r.slot)
    BY <1>3 DEF StartSending, r
  <2> QED BY <1>c, <1>r, <2>1, WokenStep
<1>4. CASE Complete(t)
  <2>1. /\ r.pc = "sending"
        /\ UNCHANGED locks \/ (Take(NoTask, r.slot) /\ UNCHANGED waiters)
    BY <1>4 DEF Complete, Release, r
  <2> QED BY <1>k, <1>l, <2>1
<1>5. CASE SaveDone(t) \/ SendFails(t)
  <2>1. /\ r.pc \in {"sending", "saving"}
        /\ Take(NoTask, r.slot) /\ UNCHANGED waiters
    BY <1>5 DEF SaveDone, SendFails, Release, r
  <2> QED BY <1>l, <2>1
<1>6. CASE RetryFresh(t)
  <2>1. /\ r.pc = "sending"
        /\ \/ UNCHANGED locks
           \/ Take(NoTask, r.slot) /\ UNCHANGED waiters
           \/ waiters[r.slot] # <<>> /\ Take(NoTask, r.slot) /\ Wait(t, r.slot)
    BY <1>6 DEF RetryFresh, Release, r
  <2> QED BY <1>k, <1>l, <2>1
<1>7. CASE Cancel(t)
  <2>1. Leave(t, r.slot)
    BY <1>7 DEF Cancel, r
  <2>2. holder[r.slot] = t => t \notin ToSet(waiters[r.slot])
    BY <1>o, <1>r
  <2> QED BY <1>c, <1>r, <2>1, <2>2, LeaveStep
<1> QED BY <1>1, <1>2, <1>3, <1>4, <1>5, <1>6, <1>7 DEF Step

\* A client in the hand of the healer is one that no slot has.
LEMMA FreshSession ==
  ASSUME ServiceInv, heal.pc \in {"building", "queued"}
  PROVE  heal.fresh \in 1..MaxClients /\ \A s \in Slots : client[s] # heal.fresh
<1>1. heal.fresh \in 0..made /\ heal.fresh # 0 /\ made \in N..MaxClients
  BY DEF ServiceInv, OwnInv, LockInv, TypeInv, TypeOK, HealRecords
<1>2. heal.fresh \in 1..MaxClients
  BY <1>1, SizesAssumption
<1> QED BY <1>2 DEF ServiceInv, ClientInv, ClientsAccounted

\* Every step of the healer is a step of the service or a stutter.
LEMMA HealServes ==
  ASSUME ServiceInv, Running' = Served',
         \/ HealStart \/ Healing
         \/ \E o \in closing : CloseReplaced(o)
         \/ \E s \in Slots : Degrade(s) \/ Recover(s)
  PROVE  Service!Next \/ UNCHANGED Service!vars
<1> DEFINE s == heal.slot
<1>s. s \in Slots
  BY DEF ServiceInv, OwnInv, LockInv, TypeInv, TypeOK, HealRecords
<1>h. UNCHANGED holder
  BY HealLeavesLocks
<1>r. Running' = Running
  BY <1>h, <1>s, ServedAfter
<1>o. heal.pc # "queued" => Service!Outside(Healer)
  <2>1. ASSUME heal.pc # "queued", NEW z \in Slots
        PROVE  holder[z] # Healer /\ Healer \notin ToSet(waiters[z])
    <3>1. holder[z] \in Requests \cup {NoTask}
      BY <2>1, ServiceState
    <3>2. Healer \notin Requests \cup {NoTask}
      BY TasksAssumption
    <3>3. Healer \in ToSet(waiters[z]) => heal.pc = "queued"
      BY <2>1 DEF ServiceInv, OwnInv, Owners, Waits
    <3> QED BY <2>1, <3>1, <3>2, <3>3
  <2> QED BY <2>1, OutsideTask
<1>i. Service!Idle(s) <=> Free(s)
  BY <1>s, ServiceState DEF Service!Idle, Free
<1> HIDE DEF s
<1>1. CASE HealStart \/ HealSkip \/ HealBuild \/ HealFails
  BY <1>1, <1>h, SilentStep DEF HealStart, HealSkip, HealBuild, HealFails, locks, clients
<1>2. CASE (\E o \in closing : CloseReplaced(o)) \/ \E z \in Slots : Degrade(z) \/ Recover(z)
  BY <1>2, <1>h, SilentStep DEF CloseReplaced, Degrade, Recover, locks
<1>3. CASE HealWaits
  <2>1. heal.pc = "building" /\ ~Free(s) /\ Wait(Healer, s) /\ UNCHANGED client
    BY <1>3 DEF HealWaits, s
  <2>2. Service!Queue(Healer, s)
    BY <1>i, <1>o, <1>r, <2>1 DEF Service!Queue, Service!Join, Wait
  <2> QED BY <1>s, <2>2 DEF Service!Next
<1>4. CASE HealSwap \/ HealDiscard
  <2>1. /\ heal.pc \in {"building", "queued"} /\ HealLocked
        /\ client' = [client EXCEPT ![s] = heal.fresh] \/ UNCHANGED client
    BY <1>4 DEF HealSwap, HealDiscard, HealLocked, s
  <2>2. \/ Service!Outside(Healer) /\ Service!Idle(s) /\ UNCHANGED waiters
        \/ Service!NextInLine(Healer, s)
    <3>1. CASE heal.pc = "building" /\ Free(s) /\ UNCHANGED locks
      BY <1>i, <1>o, <3>1 DEF locks
    <3>2. CASE heal.pc = "queued" /\ Woken(Healer, s) /\ Dequeue(s)
      BY <1>s, <3>2, ServiceState DEF Service!NextInLine, Woken, Dequeue
    <3> QED BY <2>1, <3>1, <3>2 DEF HealLocked, s
  <2>3. \/ UNCHANGED client
        \/ \E fresh \in 1..MaxClients :
             /\ \A z \in Slots : client[z] # fresh
             /\ client' = [client EXCEPT ![s] = fresh]
    BY <2>1, FreshSession
  <2>4. Service!Maintain(s)
    BY <1>r, <2>2, <2>3 DEF Service!Maintain
  <2> QED BY <1>s, <2>4 DEF Service!Next
<1> QED BY <1>1, <1>2, <1>3, <1>4 DEF Healing

-----------------------------------------------------------------------------
\* The locks and turns of AccountPool, _run_turns and the healer implement the
\* service they promise: one worker at a time, first come first served, a new
\* session only between two workers, for every size of the pool.
THEOREM ServiceImplemented == Spec => ServesInOrder
<1>1. Init => Service!Init
  <2> SUFFICES ASSUME Init PROVE Service!Init
    OBVIOUS
  <2>1. Running = [s \in Slots |-> {}]
    BY DEF Init, Running, InTurn, NoRequest
  <2>2. client \in [Slots -> 1..MaxClients]
    BY SizesAssumption DEF Init, Slots
  <2> QED BY <2>1, <2>2 DEF Init, Service!Init
<1>2. ServiceInv /\ (Running = Served)' /\ [Next]_vars => [Service!Next]_(Service!vars)
  <2> SUFFICES ASSUME ServiceInv, Running' = Served', [Next]_vars
               PROVE  Service!Next \/ UNCHANGED Service!vars
    OBVIOUS
  <2>1. CASE \E t \in Requests : Accept(t) \/ Step(t) \/ Delta(t) \/ Cancel(t)
    BY <2>1, RequestServes
  <2>2. CASE \/ HealStart \/ Healing
             \/ \E o \in closing : CloseReplaced(o)
             \/ \E s \in Slots : Degrade(s) \/ Recover(s)
    BY <2>2, HealServes
  <2>3. CASE UNCHANGED vars
    BY <2>3, SilentStep DEF vars
  <2> QED BY <2>1, <2>2, <2>3 DEF Next
<1>3. Spec => []ServiceInv
  BY OwnersKept, ClientsKept, PTL DEF ServiceInv
<1>4. Spec => [](Running = Served)
  BY OwnersKept, RunningIsServed, PTL
<1> QED BY <1>1, <1>2, <1>3, <1>4, PTL DEF Spec, ServesInOrder, Service!Spec

-----------------------------------------------------------------------------
(* strip_cites from the right: what it makes of the text from each symbol on *)

Texts == Seq(Symbols)

\* Where the matches that begin at i end
EndsOf(t, i) == {j \in i..Len(t) : Match(t, i, j)}

StripStep(f, t, i) ==
  IF i > Len(t) THEN <<>>
  ELSE IF EndsOf(t, i) # {} THEN f[Min(EndsOf(t, i)) + 1]
  ELSE <<t[i]>> \o f[i + 1]

\* f[i] is what is left of t from i on
Stripped(f, t) == \A i \in 1..(Len(t) + 1) : f[i] = StripStep(f, t, i)

\* What holds of a place when it holds of all places behind it holds everywhere.
LEMMA Backwards ==
  ASSUME NEW L \in Nat, NEW P,
         \A i \in 1..(L + 1) : (\A k \in (i + 1)..(L + 1) : k \in P) => i \in P
  PROVE  \A i \in 1..(L + 1) : i \in P
<1> DEFINE left == {L + 1 - i : i \in (1..(L + 1)) \ P}
<1> SUFFICES ASSUME (1..(L + 1)) \ P # {} PROVE FALSE
  OBVIOUS
<1>1. left \in SUBSET Nat /\ left # {}
  OBVIOUS
<1>2. PICK n \in left : \A m \in left : n <= m
  <2> HIDE DEF left
  <2> QED BY <1>1, LeastNatural
<1>3. PICK i \in (1..(L + 1)) \ P : n = L + 1 - i
  OBVIOUS
<1>4. ASSUME NEW k \in (i + 1)..(L + 1), k \notin P PROVE FALSE
  <2>1. L + 1 - k \in left
    BY <1>4
  <2>2. n <= L + 1 - k
    BY <1>2, <2>1
  <2> QED BY <1>3, <2>2
<1> QED BY <1>3, <1>4

\* The nearest end of a match.
LEMMA FirstEnd ==
  ASSUME NEW t \in Texts, NEW i \in 1..Len(t), EndsOf(t, i) # {}
  PROVE  /\ Min(EndsOf(t, i)) \in i..Len(t)
         /\ Match(t, i, Min(EndsOf(t, i)))
         /\ \A j \in EndsOf(t, i) : Min(EndsOf(t, i)) <= j
<1> DEFINE E == EndsOf(t, i)
<1>1. E \in SUBSET Nat /\ E # {}
  BY DEF EndsOf
<1>2. \E n \in E : \A m \in E : n <= m
  <2> HIDE DEF E
  <2> QED BY <1>1, LeastNatural
<1>3. Min(E) \in E /\ \A j \in E : Min(E) <= j
  <2> HIDE DEF E
  <2> QED BY <1>2 DEF Min
<1> QED BY <1>3 DEF EndsOf

\* The recursive function of StripCites exists.
LEMMA Stripping ==
  ASSUME NEW t \in Texts
  PROVE  \E f : f = [i \in 1..(Len(t) + 1) |-> StripStep(f, t, i)]
<1> DEFINE L == Len(t)
           From(i, f) == f = [m \in i..(L + 1) |-> StripStep(f, t, m)]
           P == {i \in 1..(L + 1) : \E f : From(i, f)}
<1>0. L \in Nat
  BY DEF Texts
<1>1. ASSUME NEW i \in 1..(L + 1), \A k \in (i + 1)..(L + 1) : k \in P
      PROVE  i \in P
  <2>1. CASE i = L + 1
    <3>1. From(i, [m \in i..(L + 1) |-> <<>>])
      BY <1>0, <2>1 DEF StripStep
    <3> QED BY <3>1
  <2>2. CASE i # L + 1
    <3>0. i \in 1..L /\ i + 1 \in 1..(L + 1)
      BY <1>0, <2>2
    <3>1. PICK f : From(i + 1, f)
      BY <1>0, <1>1, <3>0
    <3> DEFINE g == [m \in i..(L + 1) |-> IF m = i THEN StripStep(f, t, i) ELSE f[m]]
    <3>2. ASSUME NEW m \in i..(L + 1) PROVE g[m] = StripStep(f, t, m)
      <4>1. CASE m = i
        BY <4>1
      <4>2. CASE m # i
        <5>1. m \in (i + 1)..(L + 1)
          BY <1>0, <4>2
        <5>2. f[m] = StripStep(f, t, m)
          BY <3>1, <5>1
        <5> QED BY <4>2, <5>2
      <4> QED BY <4>1, <4>2
    <3>3. ASSUME NEW m \in i..(L + 1) PROVE StripStep(g, t, m) = StripStep(f, t, m)
      <4>1. \A k \in (i + 1)..(L + 1) : g[k] = f[k]
        BY <1>0
      <4>2. CASE m > L
        BY <4>2 DEF StripStep
      <4>3. CASE m <= L /\ EndsOf(t, m) # {}
        <5>1. m \in 1..Len(t)
          BY <1>0, <4>3
        <5>2. Min(EndsOf(t, m)) \in m..Len(t)
          BY <4>3, <5>1, FirstEnd
        <5>3. Min(EndsOf(t, m)) + 1 \in (i + 1)..(L + 1)
          BY <1>0, <5>2
        <5> HIDE DEF g, L
        <5> QED BY <4>1, <4>3, <5>3 DEF StripStep
      <4>4. CASE m <= L /\ EndsOf(t, m) = {}
        <5>1. m + 1 \in (i + 1)..(L + 1)
          BY <1>0, <4>4
        <5> HIDE DEF g
        <5> QED BY <4>1, <4>4, <5>1 DEF StripStep
      <4> QED BY <1>0, <4>2, <4>3, <4>4
    <3>4. From(i, g)
      BY <3>2, <3>3
    <3> HIDE DEF g
    <3> QED BY <3>4
  <2> QED BY <2>1, <2>2
<1>2. \A i \in 1..(L + 1) : i \in P
  <2> HIDE DEF P, L
  <2> QED BY <1>0, <1>1, Backwards
<1> QED BY <1>0, <1>2

LEMMA StripIs ==
  ASSUME NEW t \in Texts
  PROVE  \E f : Stripped(f, t) /\ StripCites(t) = f[1]
<1> DEFINE from == CHOOSE f : f = [i \in 1..(Len(t) + 1) |-> StripStep(f, t, i)]
<1>1. from = [i \in 1..(Len(t) + 1) |-> StripStep(from, t, i)]
  BY Stripping
<1>2. StripCites(t) = from[1]
  BY DEF StripCites, StripStep, EndsOf
<1> HIDE DEF from
<1> QED BY <1>1, <1>2 DEF Stripped

\* What is left is a text.
LEMMA StrippedTexts ==
  ASSUME NEW t \in Texts, NEW f, Stripped(f, t)
  PROVE  \A i \in 1..(Len(t) + 1) : f[i] \in Texts
<1> DEFINE P == {i \in 1..(Len(t) + 1) : f[i] \in Texts}
<1>0. Len(t) \in Nat /\ <<>> \in Texts
  BY DEF Texts
<1>1. ASSUME NEW i \in 1..(Len(t) + 1), \A k \in (i + 1)..(Len(t) + 1) : k \in P
      PROVE  f[i] \in Texts
  <2>0. f[i] = StripStep(f, t, i)
    BY DEF Stripped
  <2>1. CASE i > Len(t)
    BY <1>0, <2>0, <2>1 DEF StripStep
  <2>2. CASE i <= Len(t) /\ EndsOf(t, i) # {}
    <3>1. Min(EndsOf(t, i)) \in i..Len(t)
      BY <1>0, <2>2, FirstEnd
    <3>2. Min(EndsOf(t, i)) + 1 \in P
      BY <1>0, <1>1, <3>1
    <3> QED BY <1>0, <2>0, <2>2, <3>2 DEF StripStep
  <2>3. CASE i <= Len(t) /\ EndsOf(t, i) = {}
    <3>1. i + 1 \in P
      BY <1>0, <1>1, <2>3
    <3>2. t[i] \in Symbols
      BY <1>0, <2>3 DEF Texts
    <3>3. <<t[i]>> \in Texts
      BY <3>2 DEF Texts
    <3>4. f[i] = <<t[i]>> \o f[i + 1]
      BY <1>0, <2>0, <2>3 DEF StripStep
    <3> QED BY <3>1, <3>3, <3>4 DEF Texts
  <2> QED BY <1>0, <2>1, <2>2, <2>3
<1>2. \A i \in 1..(Len(t) + 1) : i \in P
  <2>1. \A i \in 1..(Len(t) + 1) : (\A k \in (i + 1)..(Len(t) + 1) : k \in P) => i \in P
    BY <1>1
  <2> HIDE DEF P
  <2> QED BY <1>0, <2>1, Backwards
<1> QED BY <1>2

LEMMA StripText == ASSUME NEW t \in Texts PROVE StripCites(t) \in Texts
<1>1. PICK f : Stripped(f, t) /\ StripCites(t) = f[1]
  BY StripIs
<1>2. 1 \in 1..(Len(t) + 1)
  BY DEF Texts
<1> QED BY <1>1, <1>2, StrippedTexts

-----------------------------------------------------------------------------
(* A text that no match crosses is stripped part by part *)

LEMMA Rejoined ==
  ASSUME NEW a \in Texts, NEW b \in Texts, NEW c \in Texts
  PROVE  a \o (b \o c) = (a \o b) \o c
BY ConcatAssociative DEF Texts

\* No match begins among the first n symbols and ends behind them
Apart(t, n) == \A i \in 1..n, j \in (n + 1)..Len(t) : ~Match(t, i, j)

\* A match is where its symbols are.
LEMMA MarkerMoved ==
  ASSUME NEW t \in Texts, NEW w \in Texts, NEW n \in Nat, n + Len(w) <= Len(t),
         \A k \in 1..Len(w) : t[n + k] = w[k],
         NEW i \in 1..(Len(w) + 1), NEW j \in 1..Len(w)
  PROVE  Marker(t, n + i, n + j) <=> Marker(w, i, j)
<1>0. Len(w) \in Nat /\ Len(t) \in Nat
  BY DEF Texts
<1>1. (n + i) + 3 <= n + j <=> i + 3 <= j
  BY <1>0
<1>2. CASE i + 3 <= j
  <2>1. /\ t[n + i] = w[i] /\ t[(n + i) + 1] = w[i + 1] /\ t[(n + i) + 2] = w[i + 2]
        /\ t[n + j] = w[j]
    <3>1. i \in 1..Len(w) /\ i + 1 \in 1..Len(w) /\ i + 2 \in 1..Len(w)
      BY <1>0, <1>2
    <3>2. /\ (n + i) + 1 = n + (i + 1) /\ (n + i) + 2 = n + (i + 2)
      BY <1>0
    <3> QED BY <3>1, <3>2
  <2>2. n + j = (n + i) + 3 <=> j = i + 3
    BY <1>0
  <2>3. (\A k \in ((n + i) + 3)..((n + j) - 1) : t[k] = " ") <=>
          \A k \in (i + 3)..(j - 1) : w[k] = " "
    <3>1. ASSUME \A k \in ((n + i) + 3)..((n + j) - 1) : t[k] = " ",
                 NEW k \in (i + 3)..(j - 1)
          PROVE  w[k] = " "
      <4>1. n + k \in ((n + i) + 3)..((n + j) - 1) /\ k \in 1..Len(w)
        BY <1>0
      <4> QED BY <3>1, <4>1
    <3>2. ASSUME \A k \in (i + 3)..(j - 1) : w[k] = " ",
                 NEW k \in ((n + i) + 3)..((n + j) - 1)
          PROVE  t[k] = " "
      <4>1. k - n \in (i + 3)..(j - 1) /\ k - n \in 1..Len(w) /\ n + (k - n) = k
        BY <1>0
      <4> QED BY <3>2, <4>1
    <3> QED BY <3>1, <3>2
  <2> QED BY <1>1, <1>2, <2>1, <2>2, <2>3 DEF Marker
<1> QED BY <1>1, <1>2 DEF Marker

LEMMA MatchMoved ==
  ASSUME NEW t \in Texts, NEW w \in Texts, NEW n \in Nat, n + Len(w) <= Len(t),
         \A k \in 1..Len(w) : t[n + k] = w[k],
         NEW i \in 1..Len(w), NEW j \in 1..Len(w)
  PROVE  Match(t, n + i, n + j) <=> Match(w, i, j)
<1>0. Len(w) \in Nat /\ Len(t) \in Nat
  BY DEF Texts
<1>1. i \in 1..(Len(w) + 1) /\ i + 1 \in 1..(Len(w) + 1)
  BY <1>0
<1>2. Marker(t, n + i, n + j) <=> Marker(w, i, j)
  BY <1>1, MarkerMoved
<1>3. Marker(t, n + (i + 1), n + j) <=> Marker(w, i + 1, j)
  BY <1>1, MarkerMoved
<1>4. (n + i) + 1 = n + (i + 1) /\ (n + i) + 3 = n + (i + 3) /\ t[n + i] = w[i]
  BY <1>0
<1>5. Marker(w, i + 1, j) => t[n + (i + 3)] = w[i + 3]
  <2> SUFFICES ASSUME Marker(w, i + 1, j) PROVE i + 3 \in 1..Len(w)
    OBVIOUS
  <2>1. (i + 1) + 3 <= j
    BY DEF Marker
  <2> QED BY <1>0, <2>1
<1> QED BY <1>2, <1>3, <1>4, <1>5 DEF Match

\* What is behind n is stripped as if it were a text of its own.
LEMMA StripRest ==
  ASSUME NEW t \in Texts, NEW w \in Texts, NEW n \in Nat, Len(t) = n + Len(w),
         \A k \in 1..Len(w) : t[n + k] = w[k],
         NEW f, Stripped(f, t), NEW g, Stripped(g, w)
  PROVE  \A i \in 1..(Len(w) + 1) : f[n + i] = g[i]
<1> DEFINE P == {i \in 1..(Len(w) + 1) : f[n + i] = g[i]}
<1>0. Len(w) \in Nat /\ Len(t) \in Nat
  BY DEF Texts
<1>1. ASSUME NEW i \in 1..(Len(w) + 1), \A k \in (i + 1)..(Len(w) + 1) : k \in P
      PROVE  f[n + i] = g[i]
  <2>0. f[n + i] = StripStep(f, t, n + i) /\ g[i] = StripStep(g, w, i)
    BY <1>0 DEF Stripped
  <2>1. CASE i > Len(w)
    BY <1>0, <2>0, <2>1 DEF StripStep
  <2>2. CASE i <= Len(w)
    <3>0. i \in 1..Len(w) /\ n + i \in 1..Len(t) /\ ~(i > Len(w)) /\ ~(n + i > Len(t))
      BY <1>0, <2>2
    <3>1. ASSUME NEW j \in 1..Len(w) PROVE n + j \in EndsOf(t, n + i) <=> j \in EndsOf(w, i)
      <4>1. n + j \in (n + i)..Len(t) <=> j \in i..Len(w)
        BY <1>0, <3>0
      <4>2. Match(t, n + i, n + j) <=> Match(w, i, j)
        BY <1>0, <3>0, MatchMoved
      <4> QED BY <4>1, <4>2 DEF EndsOf
    <3>2. ASSUME NEW j \in EndsOf(t, n + i)
          PROVE  j - n \in 1..Len(w) /\ j - n \in EndsOf(w, i)
      <4>1. j - n \in 1..Len(w) /\ n + (j - n) = j
        BY <1>0, <3>0 DEF EndsOf
      <4> QED BY <3>1, <4>1
    <3>3. ASSUME NEW j \in EndsOf(w, i) PROVE j \in 1..Len(w) /\ n + j \in EndsOf(t, n + i)
      <4>1. j \in 1..Len(w)
        BY <1>0, <3>0 DEF EndsOf
      <4> QED BY <3>1, <4>1
    <3>4. CASE EndsOf(w, i) = {}
      <4>1. EndsOf(t, n + i) = {}
        BY <3>2, <3>4
      <4>2. f[n + i] = <<t[n + i]>> \o f[(n + i) + 1] /\ g[i] = <<w[i]>> \o g[i + 1]
        BY <2>0, <3>0, <3>4, <4>1 DEF StripStep
      <4>3. i + 1 \in P
        BY <1>0, <1>1, <3>0
      <4>4. (n + i) + 1 = n + (i + 1)
        BY <1>0
      <4> QED BY <3>0, <4>2, <4>3, <4>4
    <3>5. CASE EndsOf(w, i) # {}
      <4> DEFINE m == Min(EndsOf(w, i))
                 u == Min(EndsOf(t, n + i))
      <4>1. EndsOf(t, n + i) # {}
        BY <3>3, <3>5
      <4>2. m \in i..Len(w) /\ m \in EndsOf(w, i) /\ \A j \in EndsOf(w, i) : m <= j
        BY <3>0, <3>5, FirstEnd DEF EndsOf
      <4>3. u \in (n + i)..Len(t) /\ u \in EndsOf(t, n + i) /\ \A j \in EndsOf(t, n + i) : u <= j
        BY <3>0, <4>1, FirstEnd DEF EndsOf
      <4>4. f[n + i] = f[u + 1] /\ g[i] = g[m + 1]
        BY <2>0, <3>0, <3>5, <4>1 DEF StripStep
      <4> HIDE DEF m, u
      <4>5. m <= u - n /\ u <= n + m
        BY <3>2, <3>3, <4>2, <4>3
      <4>6. m \in Nat /\ u \in Nat
        BY <1>0, <4>2, <4>3
      <4>7. u + 1 = n + (m + 1)
        BY <4>5, <4>6
      <4>8. m + 1 \in P
        BY <1>0, <1>1, <4>2, <4>6
      <4> QED BY <4>4, <4>7, <4>8
    <3> QED BY <3>4, <3>5
  <2> QED BY <1>0, <2>1, <2>2
<1>2. \A i \in 1..(Len(w) + 1) : i \in P
  <2>1. \A i \in 1..(Len(w) + 1) : (\A k \in (i + 1)..(Len(w) + 1) : k \in P) => i \in P
    BY <1>1
  <2> HIDE DEF P
  <2> QED BY <1>0, <2>1, Backwards
<1> QED BY <1>2

\* What is before n is stripped as if the text ended there.
LEMMA StripFront ==
  ASSUME NEW t \in Texts, NEW w \in Texts, Len(w) <= Len(t), Apart(t, Len(w)),
         \A k \in 1..Len(w) : t[k] = w[k],
         NEW f, Stripped(f, t), NEW g, Stripped(g, w)
  PROVE  \A i \in 1..(Len(w) + 1) : f[i] = g[i] \o f[Len(w) + 1]
<1> DEFINE rest == f[Len(w) + 1]
           P == {i \in 1..(Len(w) + 1) : f[i] = g[i] \o rest}
<1>0. Len(w) \in Nat /\ Len(t) \in Nat
  BY DEF Texts
<1>1. rest \in Texts /\ \A i \in 1..(Len(w) + 1) : g[i] \in Texts
  BY <1>0, StrippedTexts
<1> HIDE DEF rest
<1>2. ASSUME NEW i \in 1..(Len(w) + 1), \A k \in (i + 1)..(Len(w) + 1) : k \in P
      PROVE  f[i] = g[i] \o rest
  <2>0. f[i] = StripStep(f, t, i) /\ g[i] = StripStep(g, w, i)
    BY <1>0 DEF Stripped
  <2>1. CASE i > Len(w)
    <3>1. i = Len(w) + 1 /\ g[i] = <<>>
      BY <1>0, <2>0, <2>1 DEF StripStep
    <3> QED BY <1>1, <3>1 DEF rest, Texts
  <2>2. CASE i <= Len(w)
    <3>0. i \in 1..Len(w) /\ i \in 1..Len(t) /\ ~(i > Len(w)) /\ ~(i > Len(t))
      BY <1>0, <2>2
    <3>1. ASSUME NEW j \in 1..Len(w) PROVE Match(t, i, j) <=> Match(w, i, j)
      <4>1. 0 + i = i /\ 0 + j = j /\ 0 + Len(w) <= Len(t) /\ \A k \in 1..Len(w) : t[0 + k] = w[k]
        BY <1>0
      <4>2. Match(t, 0 + i, 0 + j) <=> Match(w, i, j)
        BY <3>0, <4>1, MatchMoved
      <4> QED BY <4>1, <4>2
    <3>2. EndsOf(t, i) = EndsOf(w, i)
      <4>1. ASSUME NEW j \in i..Len(t), Match(t, i, j) PROVE j \in 1..Len(w)
        <5>1. j \notin (Len(w) + 1)..Len(t)
          BY <3>0, <4>1 DEF Apart
        <5> QED BY <1>0, <3>0, <5>1
      <4>2. i..Len(w) \subseteq i..Len(t) /\ i..Len(w) \subseteq 1..Len(w)
        BY <1>0, <3>0
      <4>3. \A j \in 1..Len(w) : j \in i..Len(t) => j \in i..Len(w)
        BY <1>0, <3>0
      <4> QED BY <3>1, <4>1, <4>2, <4>3 DEF EndsOf
    <3>3. CASE EndsOf(w, i) = {}
      <4>1. f[i] = <<t[i]>> \o f[i + 1] /\ g[i] = <<w[i]>> \o g[i + 1]
        BY <2>0, <3>0, <3>2, <3>3 DEF StripStep
      <4>2. i + 1 \in P
        BY <1>0, <1>2, <3>0
      <4>3. <<w[i]>> \in Texts /\ g[i + 1] \in Texts /\ t[i] = w[i]
        <5>1. w[i] \in Symbols
          BY <3>0 DEF Texts
        <5>2. i + 1 \in 1..(Len(w) + 1)
          BY <1>0, <3>0
        <5> QED BY <1>1, <3>0, <5>1, <5>2 DEF Texts
      <4>4. <<w[i]>> \o (g[i + 1] \o rest) = (<<w[i]>> \o g[i + 1]) \o rest
        <5>1. <<w[i]>> \in Texts /\ g[i + 1] \in Texts /\ rest \in Texts
          BY <1>1, <4>3
        <5> QED BY <5>1, Rejoined, ZenonT(30)
      <4>5. f[i + 1] = g[i + 1] \o rest
        BY <1>2, <4>2
      <4>6. f[i] = g[i] \o rest
        BY <4>1, <4>3, <4>4, <4>5
      <4> QED BY <3>0, <4>6
    <3>4. CASE EndsOf(w, i) # {}
      <4> DEFINE m == Min(EndsOf(w, i))
      <4>1. f[i] = f[m + 1] /\ g[i] = g[m + 1]
        BY <2>0, <3>0, <3>2, <3>4 DEF StripStep
      <4>2. m \in i..Len(w)
        BY <3>0, <3>4, FirstEnd
      <4> HIDE DEF m
      <4>3. m + 1 \in P
        BY <1>0, <1>2, <3>0, <4>2
      <4> QED BY <4>1, <4>3
    <3> QED BY <3>3, <3>4
  <2> QED BY <1>0, <2>1, <2>2
<1>3. \A i \in 1..(Len(w) + 1) : i \in P
  <2>1. \A i \in 1..(Len(w) + 1) : (\A k \in (i + 1)..(Len(w) + 1) : k \in P) => i \in P
    BY <1>2
  <2> HIDE DEF P
  <2> QED BY <1>0, <2>1, Backwards
<1> QED BY <1>3 DEF rest

\* So the parts are stripped one after the other.
LEMMA StripParts ==
  ASSUME NEW u \in Texts, NEW w \in Texts, Apart(u \o w, Len(u))
  PROVE  StripCites(u \o w) = StripCites(u) \o StripCites(w)
<1> DEFINE t == u \o w
<1>0. /\ t \in Texts /\ Len(t) = Len(u) + Len(w) /\ Len(u) \in Nat /\ Len(w) \in Nat
      /\ \A k \in 1..Len(u) : t[k] = u[k]
      /\ \A k \in 1..Len(w) : t[Len(u) + k] = w[k]
  BY DEF Texts
<1>1. Apart(t, Len(u))
  OBVIOUS
<1> HIDE DEF t
<1>2. PICK f : Stripped(f, t) /\ StripCites(t) = f[1]
  BY <1>0, StripIs
<1>3. PICK g : Stripped(g, u) /\ StripCites(u) = g[1]
  BY StripIs
<1>4. PICK h : Stripped(h, w) /\ StripCites(w) = h[1]
  BY StripIs
<1>5. f[1] = g[1] \o f[Len(u) + 1]
  <2>1. Len(u) <= Len(t) /\ 1 \in 1..(Len(u) + 1)
    BY <1>0
  <2>2. \A i \in 1..(Len(u) + 1) : f[i] = g[i] \o f[Len(u) + 1]
    <3>1. /\ t \in Texts /\ Len(u) <= Len(t) /\ Apart(t, Len(u))
          /\ \A k \in 1..Len(u) : t[k] = u[k]
          /\ Stripped(f, t) /\ Stripped(g, u)
      BY <1>0, <1>1, <1>2, <1>3, <2>1
    <3> QED BY <3>1, StripFront, ZenonT(30)
  <2> QED BY <2>1, <2>2
<1>6. f[Len(u) + 1] = h[1]
  <2>1. 1 \in 1..(Len(w) + 1)
    BY <1>0
  <2> QED BY <1>0, <1>2, <1>4, <2>1, StripRest
<1> QED BY <1>2, <1>3, <1>4, <1>5, <1>6 DEF t

-----------------------------------------------------------------------------
(* What feed holds back *)

\* The last "[" of the buffer
Opens(buf, start) ==
  /\ start \in 1..Len(buf) /\ buf[start] = "["
  /\ \A k \in (start + 1)..Len(buf) : buf[k] # "["

\* The prover counts and reads in separate steps
Blank(t, i) == t[i] = " "

CutBefore(buf, start) ==
  \/ start > 1 /\ Blank(buf, start - 1) /\ Cut(buf) = start - 2
  \/ ~(start > 1 /\ Blank(buf, start - 1)) /\ Cut(buf) = start - 1

CutAtEnd(buf) ==
  \/ Blank(buf, Len(buf)) /\ Cut(buf) = Len(buf) - 1
  \/ ~Blank(buf, Len(buf)) /\ Cut(buf) = Len(buf)

\* The cut is before a partial marker and its blank, or there is none and it is
\* before a trailing blank, if any.
LEMMA CutIs ==
  ASSUME NEW buf \in Texts, Len(buf) > 0
  PROVE  \/ \E start \in 1..Len(buf) :
              Opens(buf, start) /\ Partial(buf, start) /\ CutBefore(buf, start)
         \/ /\ \A start \in 1..Len(buf) : Opens(buf, start) => ~Partial(buf, start)
            /\ CutAtEnd(buf)
<1> DEFINE opens == {i \in 1..Len(buf) : buf[i] = "["}
           last == Max(opens)
<1>0. Len(buf) \in Nat
  BY DEF Texts
<1>1. Cut(buf) = IF opens # {} /\ Partial(buf, last)
                 THEN IF last > 1 /\ Blank(buf, last - 1) THEN last - 2 ELSE last - 1
                 ELSE IF Blank(buf, Len(buf)) THEN Len(buf) - 1 ELSE Len(buf)
  BY DEF Cut, Blank
<1>2. CASE opens = {}
  <2>1. \A start \in 1..Len(buf) : ~Opens(buf, start)
    BY <1>2 DEF Opens
  <2> HIDE DEF opens, last
  <2> QED BY <1>1, <1>2, <2>1 DEF CutAtEnd
<1>3. CASE opens # {}
  <2> DEFINE ends == {Len(buf) - i : i \in opens}
  <2>1. ends \in SUBSET Nat /\ ends # {}
    BY <1>0, <1>3
  <2>2. PICK n \in ends : \A m \in ends : n <= m
    <3> HIDE DEF ends
    <3> QED BY <2>1, LeastNatural
  <2>3. PICK i \in opens : n = Len(buf) - i
    OBVIOUS
  <2>4. ASSUME NEW j \in opens PROVE i >= j
    <3>1. Len(buf) - j \in ends
      OBVIOUS
    <3>2. n <= Len(buf) - j
      BY <2>2, <3>1
    <3> QED BY <1>0, <2>3, <3>2
  <2>5. last \in opens /\ \A j \in opens : last >= j
    <3> HIDE DEF opens
    <3> QED BY <2>4 DEF Max
  <2> HIDE DEF last
  <2>6. Opens(buf, last)
    <3>1. \A k \in (last + 1)..Len(buf) : k \in 1..Len(buf) /\ ~(last >= k)
      BY <1>0, <2>5
    <3> QED BY <2>5, <3>1 DEF Opens
  <2>7. \A start \in 1..Len(buf) : Opens(buf, start) => start = last
    <3> SUFFICES ASSUME NEW start \in 1..Len(buf), Opens(buf, start) PROVE start = last
      OBVIOUS
    <3>1. start \in opens /\ last \in 1..Len(buf) /\ buf[last] = "["
      BY <2>5 DEF Opens
    <3>2. last >= start
      BY <2>5, <3>1
    <3>3. last \notin (start + 1)..Len(buf)
      BY <3>1 DEF Opens
    <3> QED BY <1>0, <3>1, <3>2, <3>3
  <2>8. last \in 1..Len(buf)
    BY <2>5
  <2> HIDE DEF opens
  <2> QED BY <1>1, <1>3, <2>6, <2>7, <2>8 DEF CutBefore, CutAtEnd
<1> QED BY <1>2, <1>3

LEMMA TextLength == ASSUME NEW t \in Texts PROVE Len(t) \in Nat
BY DEF Texts

LEMMA CutInside ==
  ASSUME NEW buf \in Texts, Len(buf) > 0
  PROVE  Cut(buf) \in 0..Len(buf)
<1> DEFINE L == Len(buf)
           c == Cut(buf)
<1>0. L \in Nat /\ L > 0
  BY TextLength
<1>1. ASSUME NEW start \in 1..L, CutBefore(buf, start) PROVE (c = start - 2 /\ start > 1) \/ c = start - 1
  BY <1>1 DEF CutBefore
<1>2. CutAtEnd(buf) => c = L - 1 \/ c = L
  BY DEF CutAtEnd
<1>3. (\E start \in 1..L : CutBefore(buf, start)) \/ CutAtEnd(buf)
  BY CutIs
<1> SUFFICES c \in 0..L
  OBVIOUS
<1> HIDE DEF L, c
<1> QED BY <1>0, <1>1, <1>2, <1>3

\* No marker ends in what is held back.
LEMMA HeldIsOpen ==
  ASSUME NEW buf \in Texts, Len(buf) > 0, NEW k \in (Cut(buf) + 1)..Len(buf)
  PROVE  buf[k] # "]"
<1> DEFINE L == Len(buf)
           c == Cut(buf)
<1>0. L \in Nat /\ c \in 0..L /\ k \in (c + 1)..L
  BY CutInside, TextLength
<1>1. ASSUME NEW start \in 1..L, Partial(buf, start), CutBefore(buf, start)
      PROVE  buf[k] # "]"
  <2>0. (Blank(buf, start - 1) /\ c = start - 2) \/ c = start - 1
    BY <1>1 DEF CutBefore
  <2>1. \A l \in start..L : buf[l] # "]"
    BY <1>1 DEF Partial
  <2> HIDE DEF L, c
  <2>2. CASE k >= start
    <3>1. k \in start..L
      BY <1>0, <2>2
    <3> QED BY <2>1, <3>1
  <2>3. CASE k < start
    <3>1. c = start - 2 /\ k = start - 1
      BY <1>0, <2>0, <2>3
    <3>2. Blank(buf, start - 1)
      <4>1. start \in Nat
        BY <1>0
      <4>2. start - 2 # start - 1
        BY <4>1
      <4> QED BY <2>0, <3>1, <4>2
    <3> QED BY <3>1, <3>2 DEF Blank
  <2> QED BY <1>0, <2>2, <2>3
<1>2. ASSUME CutAtEnd(buf)
      PROVE  buf[k] # "]"
  <2>1. (Blank(buf, L) /\ c = L - 1) \/ c = L
    BY <1>2 DEF CutAtEnd
  <2> HIDE DEF L, c
  <2>2. k = L /\ c # L
    BY <1>0, <2>1
  <2>3. Blank(buf, L)
    BY <2>1, <2>2
  <2> QED BY <2>2, <2>3 DEF Blank
<1> QED BY <1>1, <1>2, CutIs

\* A bracket behind which the buffer may be the beginning of a marker is held
\* back, with the blank before it.
LEMMA MarkersHeld ==
  ASSUME NEW buf \in Texts, Len(buf) > 0, NEW b \in 1..Len(buf),
         Opens(buf, b), Partial(buf, b)
  PROVE  Cut(buf) < b /\ (b > 1 /\ Blank(buf, b - 1) => Cut(buf) < b - 1)
<1>0. Len(buf) \in Nat
  BY TextLength
<1>1. PICK start \in 1..Len(buf) : Opens(buf, start) /\ CutBefore(buf, start)
  BY CutIs
<1>2. start = b
  <2>1. start \notin (b + 1)..Len(buf) /\ b \notin (start + 1)..Len(buf)
    BY <1>1 DEF Opens
  <2> QED BY <1>0, <2>1
<1> DEFINE c == Cut(buf)
           blank == b > 1 /\ Blank(buf, b - 1)
<1>3. (blank /\ c = b - 2) \/ (~blank /\ c = b - 1)
  BY <1>1, <1>2 DEF CutBefore
<1>4. b \in Nat
  OBVIOUS
<1> SUFFICES c < b /\ (blank => c < b - 1)
  OBVIOUS
<1> HIDE DEF c, blank
<1> QED BY <1>3, <1>4

\* A trailing blank is held back.
LEMMA BlankHeld ==
  ASSUME NEW buf \in Texts, Len(buf) > 0, Blank(buf, Len(buf))
  PROVE  Cut(buf) < Len(buf)
<1> DEFINE L == Len(buf)
           c == Cut(buf)
<1>0. L \in Nat
  BY TextLength
<1>1. ASSUME NEW start \in 1..L, CutBefore(buf, start) PROVE c = start - 2 \/ c = start - 1
  BY <1>1 DEF CutBefore
<1>2. CutAtEnd(buf) => c = L - 1
  BY DEF CutAtEnd
<1>3. (\E start \in 1..L : CutBefore(buf, start)) \/ CutAtEnd(buf)
  BY CutIs
<1> SUFFICES c < L
  OBVIOUS
<1> HIDE DEF L, c
<1> QED BY <1>0, <1>1, <1>2, <1>3

\* Symbols behind a bracket that a marker leaves open, seen from the buffer
LEMMA OpenMarker ==
  ASSUME NEW t \in Texts, NEW b \in 1..Len(t), NEW j \in 1..Len(t), Marker(t, b, j),
         NEW k \in (b + 1)..(j - 1)
  PROVE  t[k] # "[" /\ t[k] # "]" /\ (k = b + 1 => t[k] = "cite")
<1>0. b \in Nat /\ j \in Nat /\ k \in Nat /\ b + 3 <= j
  <2>1. Len(t) \in Nat /\ b + 3 <= j
    BY TextLength DEF Marker
  <2> QED BY <2>1
<1>1. t[b + 1] = "cite"
  BY DEF Marker
<1>2. CASE t[b + 2] = ":" /\ \A l \in (b + 3)..(j - 1) : t[l] = " "
  <2>1. k = b + 1 \/ k = b + 2 \/ k \in (b + 3)..(j - 1)
    BY <1>0
  <2> QED BY <1>0, <1>1, <1>2, <2>1
<1>3. CASE t[b + 2] = "_start" /\ j = b + 3
  <2>1. k = b + 1 \/ k = b + 2
    BY <1>0, <1>3
  <2> QED BY <1>0, <1>1, <1>3, <2>1
<1> QED BY <1>2, <1>3 DEF Marker

\* However the text goes on, no match crosses the cut.
LEMMA CutApart ==
  ASSUME NEW t \in Texts, NEW buf \in Texts, Len(buf) > 0, NEW n \in Nat,
         n + Len(buf) <= Len(t), \A k \in 1..Len(buf) : t[n + k] = buf[k],
         ~LongMarker(t),
         NEW i \in (n + 1)..(n + Cut(buf)), NEW j \in (n + Cut(buf) + 1)..Len(t)
  PROVE  ~Match(t, i, j)
<1> SUFFICES ASSUME Match(t, i, j) PROVE FALSE
  OBVIOUS
<1> DEFINE c == Cut(buf)
           L == Len(buf)
<1>0. L \in Nat /\ Len(t) \in Nat /\ c \in 0..L
  BY CutInside, TextLength
<1> HIDE DEF c, L
<1>1. i \in (n + 1)..(n + c) /\ j \in (n + c + 1)..Len(t) /\ n + L <= Len(t) /\ L > 0
  BY DEF c, L
<1>2. PICK b \in Nat : Marker(t, b, j) /\ (b = i \/ (b = i + 1 /\ Blank(t, i)))
  <2>1. i \in Nat /\ i + 1 \in Nat
    BY <1>0, <1>1
  <2> QED BY <2>1 DEF Match, Blank
<1>3. t[b] = "[" /\ t[j] = "]" /\ b \in 1..Len(t) /\ j \in 1..Len(t) /\ b + 3 <= j
  <2>1. b + 3 <= j /\ t[b] = "[" /\ t[j] = "]"
    BY <1>2 DEF Marker
  <2>2. b >= 1 /\ j <= Len(t) /\ j \in Nat /\ i \in Nat
    <3>1. b = i \/ b = i + 1
      BY <1>2
    <3> QED BY <1>0, <1>1, <3>1
  <2> QED BY <1>0, <2>1, <2>2
<1>4. j > n + L
  <2>1. ASSUME j <= n + L PROVE FALSE
    <3>1. j - n \in (c + 1)..L /\ j - n \in 1..L /\ n + (j - n) = j
      BY <1>0, <1>1, <2>1
    <3>2. buf[j - n] = "]"
      BY <1>3, <3>1 DEF L
    <3> QED BY <3>1, <3>2, HeldIsOpen DEF c, L
  <2> QED BY <1>0, <1>1, <2>1
<1>5. b <= n + L
  <2>1. ASSUME b > n + L PROVE FALSE
    <3>1. i = n + L /\ c = L /\ b = i + 1
      <4>1. b = i \/ b = i + 1
        BY <1>2
      <4> QED BY <1>0, <1>1, <2>1, <4>1
    <3>2. L \in 1..L
      BY <1>0, <1>1
    <3>3. Blank(buf, L)
      <4>1. Blank(t, n + L)
        <5>1. b # i
          BY <1>0, <1>1, <3>1
        <5> QED BY <1>2, <3>1, <5>1
      <4> QED BY <3>2, <4>1 DEF Blank, L
    <3>4. c < L
      BY <1>1, <3>3, BlankHeld DEF c, L
    <3> QED BY <1>0, <3>1, <3>4
  <2> QED BY <1>0, <1>1, <2>1
<1> DEFINE p == b - n
<1>6. p \in 1..L /\ n + p = b
  <2>1. b = i \/ b = i + 1
    BY <1>2
  <2> QED BY <1>0, <1>1, <1>5, <2>1
<1> HIDE DEF p
<1>7. ASSUME NEW k \in (p + 1)..L
      PROVE  buf[k] # "[" /\ buf[k] # "]" /\ (k = p + 1 => buf[k] = "cite")
  <2>1. k \in 1..L /\ n + k \in (b + 1)..(j - 1) /\ (k = p + 1 => n + k = b + 1)
    BY <1>0, <1>1, <1>4, <1>6
  <2>2. t[n + k] = buf[k]
    BY <2>1 DEF L
  <2> QED BY <1>2, <1>3, <2>1, <2>2, OpenMarker
<1>8. buf[p] = "["
  BY <1>3, <1>6 DEF L
<1>9. Opens(buf, p)
  BY <1>6, <1>7, <1>8 DEF Opens, L
<1>10. Partial(buf, p)
  <2>1. j - b <= MaxHeld
    <3>1. ~(j - b > MaxHeld)
      BY <1>2, <1>3 DEF LongMarker
    <3> QED BY <1>0, <1>3, <3>1, CiteAssumption
  <2>2. L - p + 1 <= MaxHeld
    BY <1>0, <1>1, <1>3, <1>4, <1>6, <2>1, CiteAssumption
  <2>3. \A k \in p..L : buf[k] # "]"
    <3>1. \A k \in p..L : k = p \/ k \in (p + 1)..L
      BY <1>0, <1>6
    <3> QED BY <1>7, <1>8, <3>1
  <2>4. p < L => buf[p + 1] = "cite"
    <3>1. p < L => p + 1 \in (p + 1)..L
      BY <1>0, <1>6
    <3> QED BY <1>7, <3>1
  <2> QED BY <2>2, <2>3, <2>4 DEF Partial, L
<1>11. c < p /\ (p > 1 /\ Blank(buf, p - 1) => c < p - 1)
  BY <1>1, <1>6, <1>9, <1>10, MarkersHeld DEF c, L
<1>12. b = i + 1
  <2>1. b = i \/ b = i + 1
    BY <1>2
  <2>2. i # b
    BY <1>0, <1>1, <1>6, <1>11
  <2> QED BY <2>1, <2>2
<1>13. p > 1 /\ n + (p - 1) = i /\ p - 1 \in 1..L
  BY <1>0, <1>1, <1>6, <1>12
<1>14. Blank(buf, p - 1)
  <2>1. Blank(t, i)
    <3>1. b # i
      BY <1>0, <1>1, <1>12
    <3> QED BY <1>2, <3>1
  <2> QED BY <1>13, <2>1 DEF L, Blank
<1> QED BY <1>0, <1>1, <1>11, <1>13, <1>14

-----------------------------------------------------------------------------
(* The stream *)

\* What has been fed and let go is stripped, and no marker that begins in it ends
\* in what is held back or still to come.
Uncut ==
  \E out \in Texts :
    /\ text = out \o held
    /\ ~LongMarker(text) => emitted = StripCites(out)
    /\ \A w \in Texts : ~LongMarker(text \o w) => Apart(text \o w, Len(out))

Cited ==
  /\ held \in Texts
  /\ ~ended => Uncut
  /\ ended /\ ~LongMarker(text) => emitted = StripCites(text)

LEMMA JoinedAt ==
  ASSUME NEW u \in Texts, NEW w \in Texts
  PROVE  /\ u \o w \in Texts /\ Len(u \o w) = Len(u) + Len(w)
         /\ Len(u) \in Nat /\ Len(w) \in Nat
         /\ \A k \in 1..Len(u) : (u \o w)[k] = u[k]
         /\ \A k \in 1..Len(w) : (u \o w)[Len(u) + k] = w[k]
BY DEF Texts

\* A longer text has the markers of the shorter one, and its matches.
LEMMA MarkersStay ==
  ASSUME NEW u \in Texts, NEW w \in Texts
  PROVE  /\ LongMarker(u) => LongMarker(u \o w)
         /\ \A n \in 0..Len(u) : Apart(u \o w, n) => Apart(u, n)
<1> DEFINE t == u \o w
<1>0. /\ t \in Texts /\ Len(u) \in Nat /\ Len(t) \in Nat /\ Len(u) <= Len(t) /\ 0 + Len(u) <= Len(t)
      /\ \A k \in 1..Len(u) : t[0 + k] = u[k]
  <2>1. /\ t \in Texts /\ Len(t) = Len(u) + Len(w) /\ Len(u) \in Nat /\ Len(w) \in Nat
        /\ \A k \in 1..Len(u) : t[k] = u[k]
    BY JoinedAt
  <2> HIDE DEF t
  <2>2. \A k \in 1..Len(u) : 0 + k = k
    BY <2>1
  <2> QED BY <2>1, <2>2
<1> HIDE DEF t
<1>1. LongMarker(u) => LongMarker(t)
  <2> SUFFICES ASSUME NEW i \in 1..Len(u), NEW j \in 1..Len(u), Marker(u, i, j), j - i > MaxHeld
               PROVE  LongMarker(t)
    BY DEF LongMarker
  <2>1. i \in 1..(Len(u) + 1) /\ 0 + i = i /\ 0 + j = j /\ i \in 1..Len(t) /\ j \in 1..Len(t)
    BY <1>0
  <2>2. Marker(t, 0 + i, 0 + j)
    BY <1>0, <2>1, MarkerMoved
  <2> QED BY <2>1, <2>2 DEF LongMarker
<1>2. ASSUME NEW n \in 0..Len(u), Apart(t, n), NEW i \in 1..n, NEW j \in (n + 1)..Len(u)
      PROVE  ~Match(u, i, j)
  <2>1. /\ i \in 1..Len(u) /\ j \in 1..Len(u) /\ 0 + i = i /\ 0 + j = j
        /\ j \in (n + 1)..Len(t)
    BY <1>0
  <2>2. Match(t, 0 + i, 0 + j) <=> Match(u, i, j)
    BY <1>0, <2>1, MatchMoved
  <2> QED BY <1>2, <2>1, <2>2 DEF Apart
<1> QED BY <1>1, <1>2 DEF t, Apart

\* The buffer in two, at the cut.
LEMMA Halves ==
  ASSUME NEW buf \in Texts, NEW c \in 0..Len(buf)
  PROVE  /\ SubSeq(buf, 1, c) \in Texts /\ Len(SubSeq(buf, 1, c)) = c
         /\ SubSeq(buf, c + 1, Len(buf)) \in Texts
         /\ SubSeq(buf, 1, c) \o SubSeq(buf, c + 1, Len(buf)) = buf
<1> DEFINE L == Len(buf)
           a == SubSeq(buf, 1, c)
           b == SubSeq(buf, c + 1, L)
<1>0. L \in Nat /\ c \in 0..L /\ c \in Nat
  BY TextLength
<1>1. a \in Texts /\ Len(a) = c /\ \A k \in 1..c : a[k] = buf[k]
  BY <1>0 DEF Texts
<1>2. b \in Texts /\ Len(b) = L - c /\ \A k \in 1..(L - c) : b[k] = buf[c + k]
  BY <1>0 DEF Texts
<1> HIDE DEF a, b
<1>3. /\ a \o b \in Texts /\ Len(a \o b) = L
      /\ \A k \in 1..c : (a \o b)[k] = a[k]
      /\ \A k \in 1..(L - c) : (a \o b)[c + k] = b[k]
  <2>1. /\ a \o b \in Texts /\ Len(a \o b) = Len(a) + Len(b)
        /\ \A k \in 1..Len(a) : (a \o b)[k] = a[k]
        /\ \A k \in 1..Len(b) : (a \o b)[Len(a) + k] = b[k]
    BY <1>1, <1>2, JoinedAt
  <2>2. Len(a) = c /\ Len(b) = L - c
    BY <1>1, <1>2
  <2>3. c + (L - c) = L
    BY <1>0
  <2> QED BY <2>1, <2>2, <2>3
<1>4. ASSUME NEW k \in 1..L PROVE (a \o b)[k] = buf[k]
  <2>1. CASE k <= c
    <3>1. k \in 1..c
      BY <1>0, <2>1
    <3> QED BY <1>1, <1>3, <3>1
  <2>2. CASE k > c
    <3>1. k - c \in 1..(L - c) /\ c + (k - c) = k
      BY <1>0, <2>2
    <3>2. (a \o b)[c + (k - c)] = b[k - c] /\ b[k - c] = buf[c + (k - c)]
      BY <1>2, <1>3, <3>1
    <3> QED BY <3>1, <3>2
  <2>3. k <= c \/ k > c
    BY <1>0
  <2> QED BY <2>1, <2>2, <2>3
<1>5. a \o b = buf
  BY <1>3, <1>4, SeqEqual DEF Texts
<1> QED BY <1>1, <1>2, <1>5 DEF a, b

LEMMA UncutInit == CiteInit => Cited
<1> SUFFICES ASSUME CiteInit PROVE Cited
  OBVIOUS
<1>1. text = <<>> /\ held = <<>> /\ emitted = <<>> /\ ~ended
  BY DEF CiteInit
<1>2. <<>> \in Texts /\ Len(<<>>) = 0 /\ <<>> \o <<>> = <<>>
  BY DEF Texts
<1> DEFINE none == <<>>
<1>3. none \in Texts /\ Len(none) = 0
  BY <1>2
<1> HIDE DEF none
<1>4. StripCites(none) = <<>>
  <2>1. PICK f : Stripped(f, none) /\ StripCites(none) = f[1]
    BY <1>3, StripIs
  <2>2. f[1] = StripStep(f, none, 1)
    BY <1>3, <2>1 DEF Stripped
  <2>3. 1 > Len(none)
    BY <1>3
  <2> QED BY <2>1, <2>2, <2>3 DEF StripStep
<1>5. \A w : Apart(w, 0)
  BY DEF Apart
<1>6. Uncut
  BY <1>1, <1>2, <1>3, <1>4, <1>5 DEF Uncut, none
<1> QED BY <1>1, <1>2, <1>6 DEF Cited

LEMMA UncutChunk ==
  ASSUME Cited, Chunk
  PROVE  Cited'
<1>1. ~ended /\ ~ended' /\ held \in Texts /\ Uncut
  BY DEF Cited, Chunk
<1>2. PICK chunk \in Chunks : Feed(chunk) /\ text' = text \o chunk
  BY DEF Chunk
<1>3. chunk \in Texts /\ Len(chunk) > 0
  <2>1. PICK n \in 1..(MaxText - Len(text)) : chunk \in [1..n -> Symbols]
    BY DEF Chunks
  <2>2. n \in Nat /\ n > 0
    OBVIOUS
  <2> QED BY <2>1, <2>2 DEF Texts
<1>4. PICK out \in Texts :
        /\ text = out \o held
        /\ ~LongMarker(text) => emitted = StripCites(out)
        /\ \A w \in Texts : ~LongMarker(text \o w) => Apart(text \o w, Len(out))
  BY <1>1 DEF Uncut
<1> DEFINE buf == held \o chunk
           c == Cut(buf)
           a == SubSeq(buf, 1, c)
           b == SubSeq(buf, c + 1, Len(buf))
<1>5. buf \in Texts /\ Len(buf) > 0
  BY <1>1, <1>3, JoinedAt
<1>6. held' = b /\ emitted' = emitted \o StripCites(a)
  BY <1>2 DEF Feed
<1>7. text' = out \o buf
  BY <1>1, <1>2, <1>3, <1>4, Rejoined
<1> HIDE DEF buf
<1>8. c \in 0..Len(buf)
  BY <1>5, CutInside
<1>9. a \in Texts /\ Len(a) = c /\ b \in Texts /\ a \o b = buf
  BY <1>5, <1>8, Halves
<1> HIDE DEF a, b
<1>10. text' = (out \o a) \o b /\ out \o a \in Texts /\ text \in Texts /\ text' \in Texts
  <2>1. out \o (a \o b) = (out \o a) \o b
    BY <1>4, <1>9, Rejoined
  <2>2. text' = (out \o a) \o b
    BY <1>7, <1>9, <2>1
  <2>3. out \o a \in Texts
    BY <1>4, <1>9, JoinedAt
  <2>4. (out \o a) \o b \in Texts
    BY <1>9, <2>3, JoinedAt
  <2>5. text \in Texts /\ text' \in Texts
    <3>1. text \in Texts
      BY <1>1, <1>4, JoinedAt
    <3>2. text' \in Texts
      BY <2>2, <2>4, ZenonT(30)
    <3> QED BY <3>1, <3>2
  <2> QED BY <2>2, <2>3, <2>5, ZenonT(30)
<1>11. ~LongMarker(text') => emitted' = StripCites(out \o a)
  <2> SUFFICES ASSUME ~LongMarker(text') PROVE emitted' = StripCites(out \o a)
    OBVIOUS
  <2>1. emitted = StripCites(out)
    BY <1>2, <1>3, <1>4, <1>10, MarkersStay
  <2>2. Apart(text', Len(out))
    BY <1>2, <1>3, <1>4
  <2>3. Len(out) \in 0..Len(out \o a)
    BY <1>4, <1>9, JoinedAt
  <2>4. Apart(out \o a, Len(out))
    BY <1>9, <1>10, <2>2, <2>3, MarkersStay
  <2>5. StripCites(out \o a) = StripCites(out) \o StripCites(a)
    BY <1>4, <1>9, <2>4, StripParts
  <2> QED BY <1>6, <2>1, <2>5
<1>12. ASSUME NEW w \in Texts, ~LongMarker(text' \o w)
       PROVE  Apart(text' \o w, Len(out \o a))
  <2> DEFINE t == text' \o w
             n == Len(out)
  <2>1. t = text \o (chunk \o w) /\ chunk \o w \in Texts
    <3>1. text \in Texts /\ chunk \in Texts /\ text' = text \o chunk
      BY <1>2, <1>3, <1>10
    <3>2. text \o (chunk \o w) = (text \o chunk) \o w
      BY <3>1, Rejoined
    <3> QED BY <3>1, <3>2, JoinedAt
  <2>2. Apart(t, n)
    BY <1>4, <1>12, <2>1
  <2>3. t = out \o (buf \o w) /\ buf \o w \in Texts
    <3>1. buf \o w \in Texts
      BY <1>5, <1>12, JoinedAt
    <3>2. out \o (buf \o w) = (out \o buf) \o w
      BY <1>4, <1>5, <1>12, Rejoined
    <3> QED BY <1>7, <3>1, <3>2
  <2>4. /\ t \in Texts /\ n \in Nat /\ Len(buf) \in Nat /\ Len(w) \in Nat
        /\ Len(t) = n + Len(buf \o w) /\ Len(buf \o w) = Len(buf) + Len(w)
    BY <1>4, <1>5, <2>3, JoinedAt
  <2>5. \A k \in 1..Len(buf) : t[n + k] = buf[k]
    <3>1. ASSUME NEW k \in 1..Len(buf) PROVE t[n + k] = buf[k]
      <4>1. k \in 1..Len(buf \o w)
        BY <2>4
      <4>2. t[n + k] = (buf \o w)[k]
        BY <1>4, <2>3, <4>1, JoinedAt
      <4> QED BY <1>5, <4>2, JoinedAt
    <3> QED BY <3>1
  <2>6. Len(out \o a) = n + c
    BY <1>4, <1>9, JoinedAt
  <2>7. ~LongMarker(t)
    BY <1>12
  <2> HIDE DEF t, n
  <2>8. n + Len(buf) <= Len(t)
    BY <2>4
  <2>9. ASSUME NEW i \in 1..(n + c), NEW j \in (n + c + 1)..Len(t) PROVE ~Match(t, i, j)
    <3>1. CASE i <= n
      <4>1. i \in 1..n /\ j \in (n + 1)..Len(t)
        BY <1>8, <2>4, <3>1
      <4> QED BY <2>2, <4>1 DEF Apart
    <3>2. CASE i > n
      <4>1. i \in (n + 1)..(n + Cut(buf)) /\ j \in (n + Cut(buf) + 1)..Len(t)
        BY <1>8, <2>4, <3>2
      <4> QED BY <1>5, <2>4, <2>5, <2>7, <2>8, <4>1, CutApart
    <3> QED BY <1>8, <2>4, <3>1, <3>2
  <2> QED BY <2>6, <2>9 DEF Apart, t
<1>13. Uncut'
  BY <1>6, <1>10, <1>11, <1>12 DEF Uncut
<1> QED BY <1>1, <1>6, <1>9, <1>13 DEF Cited

LEMMA UncutEnd ==
  ASSUME Cited, End
  PROVE  Cited'
<1>1. ended' /\ held' = <<>> /\ emitted' = emitted \o StripCites(held) /\ text' = text
      /\ held \in Texts /\ Uncut
  BY DEF Cited, End, Flush
<1>2. PICK out \in Texts :
        /\ text = out \o held
        /\ ~LongMarker(text) => emitted = StripCites(out)
        /\ \A w \in Texts : ~LongMarker(text \o w) => Apart(text \o w, Len(out))
  BY <1>1 DEF Uncut
<1>3. <<>> \in Texts /\ text \in Texts /\ text \o <<>> = text
  BY <1>1, <1>2 DEF Texts
<1>4. ~LongMarker(text) => emitted' = StripCites(text)
  <2> SUFFICES ASSUME ~LongMarker(text) PROVE emitted' = StripCites(text)
    OBVIOUS
  <2>1. Apart(out \o held, Len(out))
    BY <1>2, <1>3
  <2>2. StripCites(text) = StripCites(out) \o StripCites(held)
    BY <1>1, <1>2, <2>1, StripParts
  <2> QED BY <1>1, <1>2, <2>2
<1> QED BY <1>1, <1>3, <1>4 DEF Cited, LongMarker

\* StreamIsFinalText: however long the text and however the chunks cut it, the
\* streamed text is the text of the done event.
THEOREM StreamsAreFinal == CiteSpec => []StreamIsFinalText
<1>1. CiteInit => Cited
  BY UncutInit
<1>2. Cited /\ [CiteNext]_citing => Cited'
  <2> SUFFICES ASSUME Cited, [CiteNext]_citing PROVE Cited'
    OBVIOUS
  <2>1. CASE UNCHANGED citing
    BY <2>1 DEF citing, Cited, Uncut
  <2> QED BY <2>1, UncutChunk, UncutEnd DEF CiteNext
<1>3. Cited => StreamIsFinalText
  BY DEF Cited, StreamIsFinalText
<1> QED BY <1>1, <1>2, <1>3, PTL DEF CiteSpec

=============================================================================
