-------------------------- MODULE ResponsesFlowProofs --------------------------
(***************************************************************************)
(* Proofs about ResponsesFlow for any number of clients and requests.      *)
(***************************************************************************)
EXTENDS ResponsesFlow, SubsequencesProofs, SequenceTheorems, TLAPS

-----------------------------------------------------------------------------
(* Tables of rows.  A key without a row reads as a row without a history, so *)
(* rows that are made and dropped fresh change neither reading.              *)

Meta(table, k) == IF k \in DOMAIN table THEN table[k].meta ELSE <<>>

Norm(table, k) == IF k \in DOMAIN table THEN table[k].norm ELSE <<>>

SameRows(t, w) == \A k : Meta(w, k) = Meta(t, k) /\ Norm(w, k) = Norm(t, k)

Row(r) ==
  /\ DOMAIN r = {"meta", "norm", "lock"}
  /\ r.meta \in Seq(Items) /\ r.norm \in Seq(Items)

Table(t) == \A k \in DOMAIN t : Row(t[k])

\* A client's record
Client(x) ==
  /\ DOMAIN x = Fields
  /\ x.pc \in {"idle", "waiting", "entered", "turn", "answered"}
  /\ x.sent \in 0..MaxRequests /\ x.refused \in BOOLEAN
  /\ x.transcript \in Seq(Items) /\ x.items \in Seq(Items) /\ x.msgs \in Seq(Items)
  /\ x.turns \in Seq(Items) /\ x.meta \in Seq(Items)
  /\ x.prev \in DOMAIN x.read \cup {NoRid} /\ x.last \in DOMAIN x.read \cup {NoRid}
  /\ \A r \in DOMAIN x.read : x.read[r] \in Seq(Items)
  /\ x.pc # "idle" =>
       /\ x.msgs # <<>> /\ IsUserItem(Last(x.msgs))
       /\ x.api = "chat" => x.items = x.msgs

Bodies(t) ==
  \A r \in DOMAIN t : DOMAIN t[r] = {"state", "norm"} /\ t[r].norm \in Seq(Items)

Types ==
  /\ Table(rows) /\ Bodies(responses)
  /\ DOMAIN cl = Clients /\ \A c \in Clients : Client(cl[c])
  /\ restarts \in 0..MaxRestarts /\ style \in Scenes

\* t with a row for k, and t without the fresh rows among ks
Grown(t, w, k) ==
  /\ Table(w) /\ SameRows(t, w) /\ DOMAIN w = DOMAIN t \cup {k}
  /\ \A j \in DOMAIN t : w[j] = t[j]
  /\ k \notin DOMAIN t => w[k].meta = <<>> /\ w[k].norm = <<>>

Shrunk(t, w, ks) ==
  /\ Table(w) /\ SameRows(t, w) /\ DOMAIN w \subseteq DOMAIN t
  /\ \A k \in DOMAIN w : w[k] = t[k] /\ (k \in ks => w[k].meta # <<>> \/ w[k].norm # <<>>)
  /\ \A k \in DOMAIN t \ DOMAIN w : k \in ks /\ t[k].meta = <<>> /\ t[k].norm = <<>>

LEMMA WithRowIs ==
  ASSUME NEW c \in Clients, NEW t, NEW k, Table(t)
  PROVE  Grown(t, WithRow(c, t, k), k)
<1> DEFINE r == [meta |-> <<>>, norm |-> <<>>, lock |-> <<Request(c), cl[c].pc>>]
<1>1. CASE k \in DOMAIN t
  BY <1>1 DEF WithRow, SameRows, Grown
<1>2. CASE k \notin DOMAIN t
  <2>1. Row(r) /\ r.meta = <<>> /\ r.norm = <<>>
    BY DEF Row
  <2>2. WithRow(c, t, k) = Put(t, k, r)
    BY <1>2 DEF WithRow
  <2> HIDE DEF r
  <2> DEFINE w == WithRow(c, t, k)
  <2>3. /\ DOMAIN w = DOMAIN t \cup {k} /\ w[k] = r
        /\ \A j \in DOMAIN t : w[j] = t[j]
    BY <1>2, <2>2 DEF Put
  <2> HIDE DEF w
  <2>4. Table(w)
    BY <2>1, <2>3 DEF Table
  <2>5. SameRows(t, w)
    BY <1>2, <2>1, <2>3 DEF SameRows, Meta, Norm
  <2> QED BY <1>2, <2>1, <2>3, <2>4, <2>5 DEF w, Grown
<1> QED BY <1>1, <1>2

LEMMA DropIs ==
  ASSUME NEW t, NEW ks, Table(t)
  PROVE  Shrunk(t, DropIfFresh(t, ks), ks)
<1> DEFINE w == DropIfFresh(t, ks)
<1>1. /\ DOMAIN w = {k \in DOMAIN t : ~(k \in ks /\ t[k].meta = <<>> /\ t[k].norm = <<>>)}
      /\ \A k \in DOMAIN w : w[k] = t[k]
  BY DEF DropIfFresh, Without
<1> HIDE DEF w
<1> QED BY <1>1 DEF w, Table, SameRows, Meta, Norm, Shrunk

\* What Gemini has when a turn is over
Turned(c, x) == x.meta \o x.turns \o <<Reply(c, Last(x.msgs).n)>>

LEMMA TurnedIs ==
  ASSUME NEW c \in Clients, NEW x, Client(x), x.pc # "idle"
  PROVE  /\ Turned(c, x) \in Seq(Items) /\ Turned(c, x) # <<>>
         /\ Last(x.msgs) \in Items /\ Reply(c, Last(x.msgs).n) \in Items
         /\ Range(Turned(c, x)) = (Range(x.meta) \cup Range(x.turns)) \cup {Reply(c, Last(x.msgs).n)}
         /\ Turned(c, x) = Append(x.meta \o x.turns, Reply(c, Last(x.msgs).n))
<1> DEFINE r == Reply(c, Last(x.msgs).n)
           m == x.meta \o x.turns
<1>1. x.meta \in Seq(Items) /\ x.turns \in Seq(Items) /\ x.msgs \in Seq(Items) /\ x.msgs # <<>>
  BY DEF Client
<1>2. Last(x.msgs) \in Items
  BY <1>1 DEF Last
<1>3. r \in Items
  BY <1>2 DEF Reply, Items
<1>4. m \in Seq(Items) /\ Range(m) = Range(x.meta) \cup Range(x.turns)
  BY <1>1, Joined
<1> HIDE DEF r, m
<1>5. m \o <<r>> = Append(m, r)
  BY <1>3, <1>4
<1>6. Append(m, r) \in Seq(Items) /\ Range(Append(m, r)) = Range(m) \cup {r} /\ Len(Append(m, r)) = Len(m) + 1
  BY <1>3, <1>4, AppendOne
<1>7. Append(m, r) # <<>>
  <2> DEFINE a == Append(m, r)
  <2>1. a \in Seq(Items) /\ Len(a) = Len(m) + 1 /\ Len(m) \in Nat
    BY <1>4, <1>6
  <2> HIDE DEF a
  <2> QED BY <2>1 DEF a
<1> QED BY <1>2, <1>3, <1>4, <1>5, <1>6, <1>7 DEF Turned, r, m

\* The first commit, and the first two
Committed(c, w, n) ==
  LET k == cl[c].key
  IN  /\ Table(w) /\ DOMAIN w = DOMAIN rows \cup {k}
      /\ Meta(w, k) = Turned(c, cl[c])
      /\ Norm(w, k) = IF n = 1 \/ cl[c].api = "chat" THEN Norm(rows, k) ELSE cl[c].items
      /\ \A j : j # k => Meta(w, j) = Meta(rows, j) /\ Norm(w, j) = Norm(rows, j)
      /\ \A j \in DOMAIN rows : w[j].lock = rows[j].lock

LEMMA SavedRowsIs ==
  ASSUME Types, NEW c \in Clients, cl[c].pc # "idle", NEW n \in 1..2
  PROVE  Committed(c, SavedRows(c, n), n)
<1> DEFINE k == cl[c].key
           t == Turned(c, cl[c])
           b == WithRow(c, rows, k)
           m == [b EXCEPT ![k].meta = t]
           w == SavedRows(c, n)
<1>13. b = WithRow(c, rows, k)
  OBVIOUS
<1>1. Table(rows) /\ Client(cl[c]) /\ cl[c].items \in Seq(Items)
  BY DEF Types, Client
<1>2. t \in Seq(Items)
  BY <1>1, TurnedIs
<1>3. SavedMeta(c, rows) = m
  BY DEF SavedMeta, Turned
<1> HIDE DEF b, k
<1>4. /\ Table(b) /\ SameRows(rows, b) /\ DOMAIN b = DOMAIN rows \cup {k}
      /\ \A j \in DOMAIN rows : b[j] = rows[j]
  <2>1. Grown(rows, b, k)
    BY <1>1, <1>13, WithRowIs
  <2> QED BY <2>1 DEF Grown
<1> HIDE DEF t
<1>5. /\ DOMAIN m = DOMAIN b /\ \A j \in DOMAIN b \ {k} : m[j] = b[j]
      /\ m[k] = [b[k] EXCEPT !.meta = t]
  BY <1>4
<1>6. Row(m[k]) /\ m[k].meta = t /\ m[k].norm = b[k].norm /\ m[k].lock = b[k].lock
  <2>1. Row(b[k])
    BY <1>4 DEF Table
  <2> QED BY <1>2, <1>5, <2>1 DEF Row
<1> HIDE DEF m
<1>7. /\ w = IF n = 1 \/ cl[c].api = "chat" THEN m ELSE [m EXCEPT ![k].norm = cl[c].items]
  BY <1>3, <1>4, <1>5 DEF SavedRows, SavedNorm, k
<1>8. /\ DOMAIN w = DOMAIN m /\ \A j \in DOMAIN m \ {k} : w[j] = m[j]
      /\ Row(w[k]) /\ w[k].meta = t /\ w[k].lock = m[k].lock
      /\ w[k].norm = IF n = 1 \/ cl[c].api = "chat" THEN m[k].norm ELSE cl[c].items
  <2>1. CASE n = 1 \/ cl[c].api = "chat"
    BY <1>6, <1>7, <2>1
  <2>2. CASE ~(n = 1 \/ cl[c].api = "chat")
    <3>1. /\ DOMAIN w = DOMAIN m /\ \A j \in DOMAIN m \ {k} : w[j] = m[j]
          /\ w[k] = [m[k] EXCEPT !.norm = cl[c].items]
      BY <1>4, <1>5, <1>7, <2>2
    <3> QED BY <1>1, <1>6, <2>2, <3>1 DEF Row
  <2> QED BY <2>1, <2>2
<1> HIDE DEF w
<1>9. Table(w)
  BY <1>4, <1>5, <1>8 DEF Table
<1>10. Meta(w, k) = t /\ Norm(w, k) = IF n = 1 \/ cl[c].api = "chat" THEN Norm(rows, k) ELSE cl[c].items
  BY <1>4, <1>5, <1>6, <1>8 DEF Meta, Norm, SameRows
<1>11. \A j : j # k => Meta(w, j) = Meta(rows, j) /\ Norm(w, j) = Norm(rows, j)
  BY <1>4, <1>5, <1>8 DEF Meta, Norm
<1>12. \A j \in DOMAIN rows : w[j].lock = rows[j].lock
  BY <1>4, <1>5, <1>6, <1>8
<1> QED BY <1>4, <1>5, <1>8, <1>9, <1>10, <1>11, <1>12 DEF w, k, t, Committed

-----------------------------------------------------------------------------
(* What each action does to the client that takes it, and to the rows *)

Remembers(x, y) ==
  /\ y.transcript = x.transcript /\ y.read = x.read /\ y.last = x.last /\ y.sent = x.sent

Asking(x, y) ==
  /\ Remembers(x, y) /\ y.refused = x.refused
  /\ y.api = x.api /\ y.items = x.items /\ y.msgs = x.msgs
  /\ y.prev = x.prev /\ y.conv = x.conv /\ y.peek = x.peek

Others(c) == DOMAIN cl' = Clients /\ \A d \in Clients \ {c} : cl'[d] = cl[d]

LEMMA IdleIs ==
  ASSUME Types, NEW c \in Clients
  PROVE  LET x == Idle(c)
         IN  /\ Client(x) /\ Remembers(cl[c], x) /\ x.refused = cl[c].refused
             /\ x.pc = "idle" /\ x.prev = NoRid
<1> DEFINE x == Idle(c)
<1>1. Client(cl[c])
  BY DEF Types
<1>2. /\ DOMAIN x = Fields /\ Remembers(cl[c], x) /\ x.refused = cl[c].refused
      /\ x.pc = "idle" /\ x.api = "none" /\ x.items = <<>> /\ x.msgs = <<>>
      /\ x.prev = NoRid /\ x.turns = <<>> /\ x.meta = <<>>
  BY <1>1 DEF Idle, Client, Fields, Remembers
<1> HIDE DEF x
<1>3. <<>> \in Seq(Items)
  OBVIOUS
<1>4. Client(x)
  BY <1>1, <1>2, <1>3 DEF Client, Remembers
<1> QED BY <1>2, <1>4 DEF x

LEMMA OneClient ==
  ASSUME NEW c \in Clients, DOMAIN cl = Clients, NEW x, cl' = [cl EXCEPT ![c] = x]
  PROVE  Others(c) /\ cl'[c] = x
BY DEF Others

\* The prompts
LEMMA TurnsAreItems ==
  ASSUME NEW items \in Seq(Items)
  PROVE  /\ ItemsToTurns(items) \in Seq(Items)
         /\ Range(ItemsToTurns(items)) = {item \in Range(items) : IsUserItem(item)}
         /\ IsInjective(items) => IsInjective(ItemsToTurns(items))
<1> DEFINE S == {item \in Range(items) : IsUserItem(item)}
<1>1. /\ Among(items, S) \in Seq(Items) /\ Range(Among(items, S)) = Range(items) \cap S
  BY AmongRange
<1>2. IsInjective(items) => IsInjective(Among(items, S))
  BY AmongInjective
<1> QED BY <1>1, <1>2 DEF ItemsToTurns
-----------------------------------------------------------------------------
(* The overlap of a norm and the items of a request *)

LEMMA OverlapIs ==
  ASSUME NEW prev \in Seq(Items), NEW new \in Seq(Items)
  PROVE  LET n == PrefixOverlap(prev, new)
         IN  /\ n \in 0..Len(new) /\ n <= Len(prev) /\ \A i \in 1..n : prev[i] = new[i]
             /\ n < Len(prev) /\ n < Len(new) => prev[n + 1] # new[n + 1]
<1> DEFINE Ends(n) == \/ n >= Len(prev) \/ n >= Len(new) \/ prev[n + 1] # new[n + 1]
           T == {n \in Nat : Ends(n)}
<1>1. Len(new) \in Nat /\ Len(prev) \in Nat
  OBVIOUS
<1>2. Len(new) \in T
  BY <1>1
<1>3. PICK n \in T : \A m \in T : n <= m
  <2>1. T \in SUBSET Nat /\ T # {}
    BY <1>2
  <2> HIDE DEF T
  <2> QED BY <2>1, LeastNatural
<1>4. n \in 0..Len(new) /\ n <= Len(prev)
  <2>1. n <= Len(new)
    BY <1>2, <1>3
  <2>2. Len(prev) \in T
    BY <1>1
  <2>3. n <= Len(prev)
    BY <1>3, <2>2
  <2> QED BY <1>1, <1>3, <2>1, <2>3
<1>5. ASSUME NEW i \in 1..n PROVE prev[i] = new[i]
  <2>1. i - 1 \in Nat /\ ~(n <= i - 1)
    BY <1>3
  <2>2. i - 1 \notin T
    BY <1>3, <2>1
  <2>3. prev[(i - 1) + 1] = new[(i - 1) + 1]
    BY <2>1, <2>2
  <2> QED BY <2>3
<1>6. n < Len(prev) /\ n < Len(new) => prev[n + 1] # new[n + 1]
  BY <1>1, <1>3
<1> QED BY <1>4, <1>5, <1>6 DEF PrefixOverlap

LEMMA SuffixIs ==
  ASSUME NEW T, NEW s \in Seq(T), NEW n \in 0..Len(s)
  PROVE  LET t == SubSeq(s, n + 1, Len(s))
         IN  /\ t \in Seq(T) /\ Len(t) = Len(s) - n
             /\ \A i \in 1..Len(t) : t[i] = s[i + n]
             /\ Range(t) = {s[i] : i \in (n + 1)..Len(s)} /\ (IsInjective(s) => IsInjective(t))
<1> DEFINE t == SubSeq(s, n + 1, Len(s))
<1>1. /\ t \in Seq(T) /\ Len(t) = Len(s) - n /\ Len(s) \in Nat /\ n \in Nat
      /\ \A i \in 1..Len(t) : t[i] = s[i + n]
      /\ DOMAIN t = 1..Len(t) /\ DOMAIN s = 1..Len(s)
  <2> DEFINE l == Len(s)
  <2>1. l \in Nat /\ n \in Nat /\ n <= l /\ DOMAIN s = 1..l /\ \A i \in 1..l : s[i] \in T
    OBVIOUS
  <2>2. t = SubSeq(s, n + 1, l)
    OBVIOUS
  <2> HIDE DEF l, t
  <2>3. n + 1 \in Int /\ l \in Int /\ \A i \in (n + 1)..l : s[i] \in T
    BY <2>1
  <2>4. /\ t \in Seq(T) /\ Len(t) = IF n + 1 <= l THEN l - (n + 1) + 1 ELSE 0
        /\ \A i \in 1..(l - (n + 1) + 1) : t[i] = s[(n + 1) + i - 1]
    BY <2>2, <2>3, SubSeqProperties
  <2>5. Len(t) = l - n
    BY <2>1, <2>4
  <2>6. ASSUME NEW i \in 1..Len(t) PROVE t[i] = s[i + n]
    <3>1. i \in 1..(l - (n + 1) + 1) /\ (n + 1) + i - 1 = i + n
      BY <2>1, <2>5
    <3> QED BY <2>4, <3>1
  <2>7. t \in Seq(T) /\ DOMAIN t = 1..Len(t)
    BY <2>4
  <2> QED BY <2>1, <2>5, <2>6, <2>7 DEF l
<1> HIDE DEF t
<1>2. Range(t) = {s[i] : i \in (n + 1)..Len(s)}
  <2>1. ASSUME NEW i \in 1..Len(t) PROVE t[i] \in {s[j] : j \in (n + 1)..Len(s)}
    <3>1. i + n \in (n + 1)..Len(s) /\ t[i] = s[i + n]
      BY <1>1
    <3> QED BY <3>1
  <2>2. ASSUME NEW j \in (n + 1)..Len(s) PROVE s[j] \in Range(t)
    <3>1. j - n \in 1..Len(t) /\ t[j - n] = s[(j - n) + n]
      BY <1>1
    <3> QED BY <1>1, <3>1 DEF Range
  <2> QED BY <1>1, <2>1, <2>2 DEF Range
<1>3. ASSUME IsInjective(s) PROVE IsInjective(t)
  <2> SUFFICES ASSUME NEW i \in 1..Len(t), NEW j \in 1..Len(t), t[i] = t[j] PROVE i = j
    BY <1>1 DEF IsInjective
  <2>1. i + n \in DOMAIN s /\ j + n \in DOMAIN s /\ s[i + n] = s[j + n]
    BY <1>1
  <2>2. i + n = j + n
    BY <1>3, <2>1 DEF IsInjective
  <2> QED BY <1>1, <2>2
<1> QED BY <1>1, <1>2, <1>3 DEF t

\* What is left of one item, and of an echo and an item
LEMMA AmongFew ==
  ASSUME NEW T, NEW s \in Seq(T), NEW S
  PROVE  /\ Len(s) = 1 /\ s[1] \in S => Among(s, S) = <<s[1]>>
         /\ Len(s) = 2 /\ s[1] \notin S /\ s[2] \in S => Among(s, S) = <<s[2]>>
<1>1. PICK f : /\ f[0] = <<>>
               /\ \A n \in 0..(Len(s) - 1) :
                    f[n + 1] = IF s[n + 1] \in S THEN Append(f[n], s[n + 1]) ELSE f[n]
               /\ Among(s, S) = f[Len(s)]
  BY AmongByPrefix
<1>2. ASSUME Len(s) = 1, s[1] \in S PROVE Among(s, S) = <<s[1]>>
  <2>1. f[0 + 1] = Append(f[0], s[0 + 1])
    BY <1>1, <1>2
  <2> QED BY <1>1, <1>2, <2>1
<1>3. ASSUME Len(s) = 2, s[1] \notin S, s[2] \in S PROVE Among(s, S) = <<s[2]>>
  <2>1. f[0 + 1] = f[0]
    BY <1>1, <1>3
  <2>2. f[1 + 1] = Append(f[1], s[1 + 1])
    BY <1>1, <1>3
  <2> QED BY <1>1, <1>3, <2>1, <2>2
<1> QED BY <1>2, <1>3

LEMMA UnseenIs ==
  ASSUME NEW norm \in Seq(Items), NEW items \in Seq(Items)
  PROVE  /\ Unseen(norm, items) \in Seq(Items)
         /\ \A u \in Range(Unseen(norm, items)) : u \in Range(items) /\ IsUserItem(u)
         /\ IsInjective(items) => IsInjective(Unseen(norm, items))
         /\ \A u \in Range(items) : IsUserItem(u) => u \in Range(norm) \/ u \in Range(Unseen(norm, items))
<1> DEFINE n == PrefixOverlap(norm, items)
           t == SubSeq(items, n + 1, Len(items))
<1>1. n \in 0..Len(items) /\ n <= Len(norm) /\ \A i \in 1..n : norm[i] = items[i]
  BY OverlapIs
<1> HIDE DEF n
<1>2. /\ t \in Seq(Items) /\ Range(t) = {items[i] : i \in (n + 1)..Len(items)}
      /\ (IsInjective(items) => IsInjective(t))
  BY <1>1, SuffixIs
<1> HIDE DEF t
<1>3. Unseen(norm, items) = ItemsToTurns(t)
  BY DEF Unseen, t, n
<1>4. /\ ItemsToTurns(t) \in Seq(Items) /\ Range(ItemsToTurns(t)) = {item \in Range(t) : IsUserItem(item)}
      /\ IsInjective(t) => IsInjective(ItemsToTurns(t))
  BY <1>2, TurnsAreItems
<1>5. Range(t) \subseteq Range(items)
  <2>1. \A i \in (n + 1)..Len(items) : i \in DOMAIN items
    BY <1>1
  <2> QED BY <1>2, <2>1 DEF Range
<1>6. ASSUME NEW u \in Range(items), IsUserItem(u), u \notin Range(norm)
      PROVE  u \in Range(Unseen(norm, items))
  <2>1. PICK i \in 1..Len(items) : u = items[i]
    BY DEF Range
  <2>2. CASE i \in 1..n
    <3>1. i \in DOMAIN norm /\ norm[i] = u
      BY <1>1, <2>1, <2>2
    <3> QED BY <1>6, <3>1 DEF Range
  <2>3. CASE i \notin 1..n
    <3>1. i \in (n + 1)..Len(items)
      BY <1>1, <2>1, <2>3
    <3> QED BY <1>2, <1>3, <1>4, <1>6, <2>1, <3>1
  <2> QED BY <2>2, <2>3
<1> QED BY <1>2, <1>3, <1>4, <1>5, <1>6

\* The one message that is new: alone, or at the end of the whole history
LEMMA OneUnseen ==
  ASSUME NEW norm \in Seq(Items), NEW u \in Items, IsUserItem(u)
  PROVE  /\ u \notin Range(norm) => Unseen(norm, <<u>>) = <<u>>
         /\ \A r \in Items : ~IsUserItem(r) => Unseen(norm, Append(Append(norm, r), u)) = <<u>>
<1>1. ASSUME u \notin Range(norm) PROVE Unseen(norm, <<u>>) = <<u>>
  <2> DEFINE items == <<u>>
             n == PrefixOverlap(norm, items)
             t == SubSeq(items, n + 1, Len(items))
  <2>1. items \in Seq(Items) /\ Len(items) = 1 /\ items[1] = u /\ Range(items) = {u}
    BY DEF Range
  <2> HIDE DEF items
  <2>2. n \in 0..Len(items) /\ n <= Len(norm) /\ \A i \in 1..n : norm[i] = items[i]
    BY <2>1, OverlapIs
  <2>3. n = 0
    <3>1. SUFFICES ASSUME n # 0 PROVE FALSE
      OBVIOUS
    <3>2. n = 1 /\ norm[1] = u /\ 1 \in DOMAIN norm
      BY <2>1, <2>2, <3>1
    <3> QED BY <1>1, <3>2 DEF Range
  <2> HIDE DEF n
  <2>4. t \in Seq(Items) /\ Len(t) = 1 /\ t[1] = u
    <3>1. t \in Seq(Items) /\ Len(t) = Len(items) - n /\ \A i \in 1..Len(t) : t[i] = items[i + n]
      BY <2>1, <2>2, SuffixIs
    <3> HIDE DEF t
    <3> QED BY <2>1, <2>3, <3>1
  <2> HIDE DEF t
  <2>5. u \in {item \in Range(t) : IsUserItem(item)}
    BY <2>4 DEF Range
  <2>6. ItemsToTurns(t) = <<u>>
    BY <2>4, <2>5, AmongFew DEF ItemsToTurns
  <2> QED BY <2>6 DEF Unseen, t, n, items
<1>2. ASSUME NEW r \in Items, ~IsUserItem(r) PROVE Unseen(norm, Append(Append(norm, r), u)) = <<u>>
  <2> DEFINE h == Append(norm, r)
             items == Append(h, u)
             n == PrefixOverlap(norm, items)
             t == SubSeq(items, n + 1, Len(items))
             l == Len(norm)
  <2>1. /\ items \in Seq(Items) /\ Len(items) = l + 2 /\ items[l + 1] = r /\ items[l + 2] = u
        /\ \A i \in 1..l : items[i] = norm[i]
    OBVIOUS
  <2> HIDE DEF items
  <2>2. n \in 0..Len(items) /\ n <= l /\ (n < l /\ n < Len(items) => norm[n + 1] # items[n + 1])
    BY <2>1, OverlapIs
  <2> HIDE DEF n
  <2>3. n = l /\ l \in Nat
    <3>1. l \in Nat
      OBVIOUS
    <3> HIDE DEF l
    <3>2. SUFFICES ASSUME n < l PROVE FALSE
      BY <2>2, <3>1
    <3>3. n + 1 \in 1..l /\ n < Len(items)
      BY <2>1, <2>2, <3>1, <3>2
    <3> QED BY <2>1, <2>2, <3>2, <3>3
  <2> HIDE DEF l
  <2>4. t \in Seq(Items) /\ Len(t) = 2 /\ t[1] = r /\ t[2] = u
    <3>1. t \in Seq(Items) /\ Len(t) = Len(items) - n /\ \A i \in 1..Len(t) : t[i] = items[i + n]
      BY <2>1, <2>2, SuffixIs
    <3> HIDE DEF t
    <3>2. Len(t) = 2
      BY <2>1, <2>3, <3>1
    <3>5. 1 \in 1..Len(t) /\ 2 \in 1..Len(t)
      BY <3>2
    <3>3. t[1] = items[1 + l] /\ t[2] = items[2 + l]
      BY <2>3, <3>1, <3>5
    <3>4. 1 + l = l + 1 /\ 2 + l = l + 2
      BY <2>3
    <3> QED BY <2>1, <3>1, <3>2, <3>3, <3>4
  <2> HIDE DEF t
  <2>5. u \in {item \in Range(t) : IsUserItem(item)} /\ r \notin {item \in Range(t) : IsUserItem(item)}
    BY <1>2, <2>4 DEF Range
  <2>6. ItemsToTurns(t) = <<u>>
    BY <2>4, <2>5, AmongFew DEF ItemsToTurns
  <2> QED BY <2>6 DEF Unseen, t, n, items
<1> QED BY <1>1, <1>2
-----------------------------------------------------------------------------
(* The actions, one by one *)

LEMMA LastIs ==
  ASSUME NEW T, NEW s \in Seq(T), s # <<>>
  PROVE  Last(s) \in T /\ Last(s) \in Range(s) /\ <<Last(s)>> \in Seq(T)
BY DEF Last, Range

LEMMA ResolvedTyped ==
  ASSUME Types, NEW c \in Clients, cl[c].pc = "waiting"
  PROVE  Resolved(c).turns \in Seq(Items)
<1> DEFINE x == cl[c]
           key == ConvKey(x.conv)
<1>1. /\ x.items \in Seq(Items) /\ x.msgs \in Seq(Items) /\ x.msgs # <<>>
      /\ IsUserItem(Last(x.msgs)) /\ (x.api = "chat" => x.items = x.msgs)
  BY DEF Types, Client
<1>2. <<Last(x.msgs)>> \in Seq(Items) /\ Last(x.msgs) \in Range(x.msgs)
  BY <1>1, LastIs
<1>3. CASE x.api = "chat"
  <2> DEFINE users == ItemsToTurns(x.items)
  <2>1. users \in Seq(Items) /\ Last(x.msgs) \in Range(users)
    BY <1>1, <1>2, <1>3, TurnsAreItems
  <2>2. users # <<>>
    BY <2>1 DEF Range
  <2> HIDE DEF users
  <2>3. <<Last(users)>> \in Seq(Items)
    BY <2>1, <2>2, LastIs
  <2>4. Resolved(c).turns = users \/ Resolved(c).turns = <<Last(users)>>
    BY <1>3 DEF Resolved, users
  <2> QED BY <2>1, <2>3, <2>4
<1>4. CASE x.api # "chat"
  <2>1. /\ ~Fresh(key) => Unseen(rows[key].norm, x.items) \in Seq(Items)
        /\ x.prev \in DOMAIN responses => Unseen(responses[x.prev].norm, x.items) \in Seq(Items)
    <3>1. ~Fresh(key) => rows[key].norm \in Seq(Items)
      BY DEF Types, Table, Row, Fresh
    <3>2. x.prev \in DOMAIN responses => responses[x.prev].norm \in Seq(Items)
      BY DEF Types, Bodies
    <3> QED BY <1>1, <3>1, <3>2, UnseenIs
  <2> QED BY <1>1, <1>2, <1>4, <2>1 DEF Resolved
<1> QED BY <1>3, <1>4

\* The request that arrives
Arrives(c, y) ==
  \E prev \in PrevIds(c), repeat \in Repeats :
    LET x == cl[c]
        before == IF prev = NoRid THEN x.transcript ELSE x.read[prev]
        number == IF repeat THEN 1 ELSE Len(before) \div 2 + 1
    IN  /\ y.prev = prev /\ y.msgs = Append(before, User(c, number))
        /\ y.items = IF style[c].input = "string" /\ prev = NoRid /\ ConvId(c) = NoId THEN <<>>
                     ELSE IF style[c].input = "full" THEN y.msgs ELSE <<User(c, number)>>

LEMMA ArriveDoes ==
  ASSUME Types, NEW c \in Clients, Arrive(c)
  PROVE  /\ Others(c) /\ Client(cl'[c]) /\ cl[c].pc = "idle" /\ cl'[c].pc = "waiting"
         /\ cl'[c].transcript = cl[c].transcript /\ cl'[c].read = cl[c].read
         /\ cl'[c].last = cl[c].last /\ cl'[c].refused = cl[c].refused
         /\ cl'[c].sent = cl[c].sent + 1 /\ cl'[c].api \in Apis(c) /\ cl'[c].conv = ConvId(c)
         /\ Arrives(c, cl'[c]) /\ cl'[c].peek = PeekKey(c, cl'[c])
         /\ Grown(rows, rows', cl'[c].peek)
         /\ line' = Append(line, <<c, rows'[cl'[c].peek].lock>>)
         /\ UNCHANGED <<responses, restarts, style, past>>
<1>1. PICK prev \in PrevIds(c), api \in Apis(c), repeat \in Repeats :
        LET req == Asked(c, prev, api, repeat)
        IN  /\ rows' = WithRow(c, rows, PeekKey(c, req))
            /\ cl' = [cl EXCEPT ![c] = [req EXCEPT !.pc = "waiting", !.peek = PeekKey(c, req)]]
            /\ line' = Append(line, <<c, rows'[PeekKey(c, req)].lock>>)
  BY Zenon DEF Arrive
<1> DEFINE x == cl[c]
           before == IF prev = NoRid THEN x.transcript ELSE x.read[prev]
           number == IF repeat THEN 1 ELSE Len(before) \div 2 + 1
           u == User(c, number)
           msgs == Append(before, u)
           items == IF style[c].input = "string" /\ prev = NoRid /\ ConvId(c) = NoId THEN <<>>
                    ELSE IF style[c].input = "full" THEN msgs ELSE <<u>>
           i == Idle(c)
           req == Asked(c, prev, api, repeat)
           y == [req EXCEPT !.pc = "waiting", !.peek = PeekKey(c, req)]
<1>3. Client(x) /\ Client(i) /\ Remembers(x, i) /\ i.refused = x.refused
  BY IdleIs DEF Types
<1>4. prev \in DOMAIN x.read \cup {NoRid}
  <2>1. x.last \in DOMAIN x.read \cup {NoRid}
    BY <1>3 DEF Client
  <2> QED BY <1>1, <2>1 DEF PrevIds
<1>5. before \in Seq(Items)
  BY <1>3, <1>4 DEF Client
<1>6. number \in Nat
  <2>1. Len(before) \in Nat
    BY <1>5
  <2> HIDE DEF before
  <2> QED BY <2>1
<1>7. u \in Items /\ IsUserItem(u)
  <2> HIDE DEF number
  <2> QED BY <1>6 DEF User, Items, IsUserItem
<1>8. msgs \in Seq(Items) /\ msgs # <<>> /\ Last(msgs) = u /\ <<u>> \in Seq(Items)
  <2> HIDE DEF before, u
  <2>1. u \in Items
    BY <1>7
  <2>2. msgs = Append(before, u)
    OBVIOUS
  <2> HIDE DEF msgs
  <2>3. msgs \in Seq(Items) /\ Len(msgs) = Len(before) + 1 /\ msgs[Len(before) + 1] = u /\ Len(before) \in Nat
    BY <1>5, <2>1, <2>2, AppendOne
  <2> QED BY <2>1, <2>3 DEF Last
<1>9. api = "chat" => items = msgs
  <2>1. style \in Scenes
    BY DEF Types
  <2>2. style[c].api # "responses" => style[c].input = "full"
    BY <2>1, ResponsesAssumption
  <2> QED BY <2>2 DEF Apis
<1>10. items \in Seq(Items)
  <2> HIDE DEF msgs, u
  <2> QED BY <1>8
<1>11. req = [i EXCEPT !.sent = @ + 1, !.api = api, !.msgs = msgs, !.prev = prev, !.conv = ConvId(c),
                       !.items = items]
  BY DEF Asked
<1>12. cl[c].pc = "idle" /\ cl[c].sent < MaxRequests
  BY DEF Arrive
<1> HIDE DEF items, msgs, i, number, before, u, req
<1>13. /\ DOMAIN req = Fields /\ req.transcript = x.transcript /\ req.read = x.read /\ req.last = x.last
       /\ req.refused = x.refused /\ req.sent = x.sent + 1 /\ req.api = api /\ req.msgs = msgs
       /\ req.prev = prev /\ req.conv = ConvId(c) /\ req.items = items
       /\ req.turns = i.turns /\ req.meta = i.meta
  BY <1>3, <1>11 DEF Client, Fields, Remembers
<1>14. /\ DOMAIN y = Fields /\ y.transcript = x.transcript /\ y.read = x.read /\ y.last = x.last
       /\ y.refused = x.refused /\ y.sent = x.sent + 1 /\ y.api = api /\ y.msgs = msgs
       /\ y.prev = prev /\ y.conv = ConvId(c) /\ y.items = items
       /\ y.turns = i.turns /\ y.meta = i.meta /\ y.pc = "waiting" /\ y.peek = PeekKey(c, req)
  BY <1>13 DEF Fields
<1>22. /\ rows' = WithRow(c, rows, PeekKey(c, req)) /\ cl' = [cl EXCEPT ![c] = y]
       /\ line' = Append(line, <<c, rows'[PeekKey(c, req)].lock>>)
  BY <1>1 DEF req
<1>15. Others(c) /\ cl'[c] = y
  <2> HIDE DEF y
  <2> QED BY <1>22, OneClient DEF Types
<1>16. PeekKey(c, y) = PeekKey(c, req)
  BY <1>13, <1>14 DEF PeekKey
<1> HIDE DEF y
<1>17. Client(y)
  <2>1. i.turns \in Seq(Items) /\ i.meta \in Seq(Items)
    BY <1>3 DEF Client
  <2>2. /\ x.sent \in 0..MaxRequests /\ x.refused \in BOOLEAN /\ x.transcript \in Seq(Items)
        /\ x.last \in DOMAIN x.read \cup {NoRid} /\ \A r \in DOMAIN x.read : x.read[r] \in Seq(Items)
    BY <1>3 DEF Client
  <2>3. x.sent + 1 \in 0..MaxRequests
    BY <1>12, <2>2, ResponsesAssumption
  <2> QED BY <1>4, <1>7, <1>8, <1>9, <1>10, <1>14, <2>1, <2>2, <2>3 DEF Client
<1>18. Arrives(c, y)
  BY <1>1, <1>14 DEF Arrives, items, msgs, u, number, before
<1>19. Grown(rows, rows', y.peek)
  <2>1. Table(rows) /\ rows' = WithRow(c, rows, y.peek)
    BY <1>14, <1>22 DEF Types
  <2> QED BY <2>1, WithRowIs
<1>20. line' = Append(line, <<c, rows'[y.peek].lock>>) /\ UNCHANGED <<responses, restarts, style, past>>
  BY <1>14, <1>22 DEF Arrive
<1>21. y.peek = PeekKey(c, y)
  BY <1>14, <1>16
<1> QED BY <1>1, <1>12, <1>14, <1>15, <1>17, <1>18, <1>19, <1>20, <1>21
LEMMA EnterDoes ==
  ASSUME Types, NEW c \in Clients, Enter(c)
  PROVE  /\ Others(c) /\ Client(cl'[c]) /\ Asking(cl[c], cl'[c])
         /\ cl[c].pc = "waiting" /\ cl'[c].pc = "entered" /\ cl'[c].meta = cl[c].meta
         /\ cl'[c].key = Resolved(c).key /\ cl'[c].turns = Resolved(c).turns
         /\ cl'[c].turns # <<>> /\ HoldsLock(c)
         /\ \/ cl[c].prev \in DOMAIN responses /\ rows' = rows
            \/ cl[c].prev \notin DOMAIN responses /\ Grown(rows, rows', cl'[c].key)
         /\ UNCHANGED <<responses, line, restarts, style, past>>
<1> DEFINE to == Resolved(c)
           x == cl[c]
           y == [[[x EXCEPT !.pc = "entered"] EXCEPT !.key = to.key] EXCEPT !.turns = to.turns]
<1>1. /\ x.pc = "waiting" /\ HoldsLock(c) /\ to.turns # <<>>
      /\ rows' = IF x.prev \in DOMAIN responses THEN rows ELSE WithRow(c, rows, to.key)
      /\ cl' = [cl EXCEPT ![c].pc = "entered", ![c].key = to.key, ![c].turns = to.turns]
      /\ UNCHANGED <<responses, line, restarts, style, past>>
  BY DEF Enter
<1>2. to.turns \in Seq(Items)
  BY <1>1, ResolvedTyped
<1>3. Client(x) /\ Table(rows) /\ DOMAIN cl = Clients
  BY DEF Types
<1> HIDE DEF to
<1>4. /\ DOMAIN y = Fields /\ Asking(x, y) /\ y.pc = "entered" /\ y.key = to.key
      /\ y.turns = to.turns /\ y.meta = x.meta
  BY <1>3 DEF Client, Fields, Asking, Remembers
<1>5. cl' = [cl EXCEPT ![c] = y]
  BY <1>1, <1>3
<1> HIDE DEF y
<1>6. Others(c) /\ cl'[c] = y
  BY <1>3, <1>5, OneClient
<1>7. Client(y)
  BY <1>1, <1>2, <1>3, <1>4 DEF Client, Asking, Remembers
<1>8. \/ x.prev \in DOMAIN responses /\ rows' = rows
      \/ x.prev \notin DOMAIN responses /\ Grown(rows, rows', y.key)
  <2>1. Grown(rows, WithRow(c, rows, to.key), to.key)
    BY <1>3, WithRowIs
  <2> QED BY <1>1, <1>4, <2>1
<1> QED BY <1>1, <1>4, <1>6, <1>7, <1>8 DEF to

LEMMA RefuseDoes ==
  ASSUME Types, NEW c \in Clients, Refuse(c)
  PROVE  /\ Others(c) /\ Client(cl'[c]) /\ Remembers(cl[c], cl'[c])
         /\ cl[c].pc = "waiting" /\ cl'[c].pc = "idle" /\ Resolved(c).turns = <<>>
         /\ past' = past \cup {"refused"} /\ line' = Released(c)
         /\ UNCHANGED <<rows, responses, restarts, style>>
<1> DEFINE i == Idle(c)
           y == [i EXCEPT !.refused = TRUE]
<1>1. Client(i) /\ Remembers(cl[c], i) /\ i.pc = "idle"
  BY IdleIs
<1>2. cl' = [cl EXCEPT ![c] = y] /\ DOMAIN cl = Clients
  BY DEF Refuse, Types
<1> HIDE DEF i
<1>3. Client(y) /\ Remembers(cl[c], y) /\ y.pc = "idle"
  BY <1>1 DEF Client, Fields, Remembers
<1> HIDE DEF y
<1>4. Others(c) /\ cl'[c] = y
  BY <1>2, OneClient
<1> QED BY <1>3, <1>4 DEF Refuse

LEMMA PickDoes ==
  ASSUME Types, NEW c \in Clients, Pick(c)
  PROVE  /\ Others(c) /\ Client(cl'[c]) /\ Asking(cl[c], cl'[c])
         /\ cl[c].pc = "entered" /\ cl'[c].pc = "turn"
         /\ cl'[c].key = cl[c].key /\ cl'[c].turns = cl[c].turns
         /\ cl'[c].meta = Meta(rows, cl[c].key)
         /\ \E table : /\ Grown(rows, table, cl[c].key)
                       /\ \/ style[c].stream /\ Shrunk(table, rows', Peeked(c)) /\ line' = Released(c)
                          \/ ~style[c].stream /\ rows' = table /\ line' = line
         /\ UNCHANGED <<responses, restarts, style, past>>
<1> DEFINE x == cl[c]
           table == WithRow(c, rows, x.key)
           y == [[x EXCEPT !.pc = "turn"] EXCEPT !.meta = table[x.key].meta]
<1>1. /\ x.pc = "entered"
      /\ cl' = [cl EXCEPT ![c].pc = "turn", ![c].meta = table[x.key].meta]
      /\ rows' = IF style[c].stream THEN DropIfFresh(table, Peeked(c)) ELSE table
      /\ line' = IF style[c].stream THEN Released(c) ELSE line
      /\ UNCHANGED <<responses, restarts, style, past>>
  BY DEF Pick
<1>2. Client(x) /\ Table(rows) /\ DOMAIN cl = Clients
  BY DEF Types
<1>3. Grown(rows, table, x.key)
  BY <1>2, WithRowIs
<1> HIDE DEF table
<1>4. Table(table) /\ table[x.key].meta = Meta(rows, x.key) /\ table[x.key].meta \in Seq(Items)
  <2>1. Table(table) /\ x.key \in DOMAIN table /\ Meta(table, x.key) = Meta(rows, x.key)
    BY <1>3 DEF Grown, SameRows
  <2> QED BY <2>1 DEF Meta, Table, Row
<1>5. Shrunk(table, DropIfFresh(table, Peeked(c)), Peeked(c))
  BY <1>4, DropIs
<1>6. /\ DOMAIN y = Fields /\ Asking(x, y) /\ y.pc = "turn" /\ y.key = x.key
      /\ y.turns = x.turns /\ y.meta = table[x.key].meta
  BY <1>2 DEF Client, Fields, Asking, Remembers
<1>7. cl' = [cl EXCEPT ![c] = y]
  BY <1>1, <1>2
<1> HIDE DEF y
<1>8. Others(c) /\ cl'[c] = y
  BY <1>2, <1>7, OneClient
<1>9. Client(y)
  BY <1>1, <1>2, <1>4, <1>6 DEF Client, Asking, Remembers
<1> QED BY <1>1, <1>3, <1>4, <1>5, <1>6, <1>8, <1>9

LEMMA RetryFreshDoes ==
  ASSUME Types, NEW c \in Clients, RetryFresh(c)
  PROVE  /\ Others(c) /\ Client(cl'[c]) /\ Asking(cl[c], cl'[c])
         /\ cl[c].pc = "turn" /\ cl'[c].pc = "turn" /\ cl'[c].meta = <<>>
         /\ cl'[c].key = cl[c].key /\ cl'[c].turns = cl[c].turns
         /\ past' = past \cup {"resume"}
         /\ UNCHANGED <<rows, responses, line, restarts, style>>
<1> DEFINE x == cl[c]
           y == [x EXCEPT !.meta = <<>>]
<1>1. Client(x) /\ DOMAIN cl = Clients
  BY DEF Types
<1>2. <<>> \in Seq(Items)
  OBVIOUS
<1>3. /\ DOMAIN y = Fields /\ Asking(x, y) /\ y.pc = x.pc /\ y.key = x.key
      /\ y.turns = x.turns /\ y.meta = <<>>
  BY <1>1 DEF Client, Fields, Asking, Remembers
<1>4. cl' = [cl EXCEPT ![c] = y]
  BY <1>1 DEF RetryFresh
<1> HIDE DEF y
<1>5. Others(c) /\ cl'[c] = y
  BY <1>1, <1>4, OneClient
<1>6. Client(y)
  BY <1>1, <1>2, <1>3 DEF Client, Asking, Remembers
<1> QED BY <1>3, <1>5, <1>6 DEF RetryFresh

LEMMA AnswerDoes ==
  ASSUME Types, NEW c \in Clients, Answer(c)
  PROVE  /\ Others(c) /\ Client(cl'[c]) /\ Asking(cl[c], cl'[c])
         /\ cl[c].pc = "turn" /\ cl'[c].pc = "answered" /\ cl'[c].meta = cl[c].meta
         /\ cl'[c].key = cl[c].key /\ cl'[c].turns = cl[c].turns
         /\ UNCHANGED <<rows, responses, line, restarts, style, past>>
<1> DEFINE x == cl[c]
           y == [x EXCEPT !.pc = "answered"]
<1>1. Client(x) /\ DOMAIN cl = Clients /\ x.pc = "turn"
  BY DEF Types, Answer
<1>3. /\ DOMAIN y = Fields /\ Asking(x, y) /\ y.pc = "answered" /\ y.key = x.key
      /\ y.turns = x.turns /\ y.meta = x.meta
  BY <1>1 DEF Client, Fields, Asking, Remembers
<1>4. cl' = [cl EXCEPT ![c] = y]
  BY <1>1 DEF Answer
<1> HIDE DEF y
<1>5. Others(c) /\ cl'[c] = y
  BY <1>1, <1>4, OneClient
<1>6. Client(y)
  BY <1>1, <1>3 DEF Client, Asking, Remembers
<1> QED BY <1>1, <1>3, <1>5, <1>6 DEF Answer

LEMMA FailDoes ==
  ASSUME Types, NEW c \in Clients, Fail(c)
  PROVE  /\ Others(c) /\ Client(cl'[c]) /\ Remembers(cl[c], cl'[c])
         /\ cl'[c].refused = cl[c].refused /\ cl[c].pc = "turn" /\ cl'[c].pc = "idle"
         /\ Shrunk(rows, rows', {cl[c].key} \cup Peeked(c)) /\ line' = Released(c)
         /\ past' = past \cup (IF Orphans(c, rows') THEN {"orphaned"} ELSE {})
         /\ UNCHANGED <<responses, restarts, style>>
<1>1. Table(rows) /\ DOMAIN cl = Clients
  BY DEF Types
<1>2. cl' = [cl EXCEPT ![c] = Idle(c)] /\ rows' = DropIfFresh(rows, {cl[c].key} \cup Peeked(c))
  BY DEF Fail
<1>3. Others(c) /\ cl'[c] = Idle(c)
  BY <1>1, <1>2, OneClient
<1>4. Shrunk(rows, rows', {cl[c].key} \cup Peeked(c))
  BY <1>1, <1>2, DropIs
<1> QED BY <1>3, <1>4, IdleIs DEF Fail

LEMMA DisconnectDoes ==
  ASSUME Types, NEW c \in Clients, Disconnect(c)
  PROVE  /\ Others(c) /\ Client(cl'[c]) /\ Remembers(cl[c], cl'[c])
         /\ cl'[c].refused = cl[c].refused /\ Running(c) /\ style[c].stream /\ cl'[c].pc = "idle"
         /\ past' = past \cup {"disconnect"}
         /\ UNCHANGED <<rows, responses, line, restarts, style>>
<1>1. DOMAIN cl = Clients /\ cl' = [cl EXCEPT ![c] = Idle(c)]
  BY DEF Types, Disconnect
<1>2. Others(c) /\ cl'[c] = Idle(c)
  BY <1>1, OneClient
<1> QED BY <1>2, IdleIs DEF Disconnect, Running
\* The history the client has seen once it has read the answer
Extended(c, x) == Append(x.msgs, Reply(c, Last(x.msgs).n))

LEMMA ExtendedIs ==
  ASSUME NEW c \in Clients, NEW x, Client(x), x.pc # "idle"
  PROVE  Extended(c, x) \in Seq(Items) /\ Extended(c, x) # <<>>
<1> DEFINE r == Reply(c, Last(x.msgs).n)
           a == Append(x.msgs, r)
<1>1. r \in Items /\ x.msgs \in Seq(Items)
  BY TurnedIs DEF Client
<1> HIDE DEF r
<1>2. a \in Seq(Items) /\ Len(a) = Len(x.msgs) + 1 /\ Len(x.msgs) \in Nat
  BY <1>1, AppendOne
<1>3. a \in Seq(Items) /\ a # <<>>
  <2> HIDE DEF a
  <2> QED BY <1>2
<1> QED BY <1>3 DEF Extended, r

\* The response object of the turn
Stored(c, w) ==
  \/ cl[c].api = "chat" /\ w = responses
  \/ /\ cl[c].api # "chat" /\ DOMAIN w = DOMAIN responses \cup {Request(c)}
     /\ w[Request(c)].state = cl[c].key /\ w[Request(c)].norm = cl[c].items
     /\ \A r \in DOMAIN responses \ {Request(c)} : w[r] = responses[r]

\* The answer is read
Reads(c, x, y) ==
  /\ y.transcript = Extended(c, x) /\ y.last = Request(c)
  /\ Request(c) \in DOMAIN y.read /\ y.read[Request(c)] = Extended(c, x)
  /\ y.sent = x.sent

LEMMA SaveDoes ==
  ASSUME Types, NEW c \in Clients, Save(c)
  PROVE  /\ Others(c) /\ Client(cl'[c]) /\ cl[c].pc = "answered" /\ cl'[c].pc = "idle"
         /\ cl'[c].refused = cl[c].refused
         /\ \/ Reads(c, cl[c], cl'[c]) /\ past' = past
            \/ Remembers(cl[c], cl'[c]) /\ past' = past \cup {"lost"}
         /\ \E w : Committed(c, w, 2) /\ Shrunk(w, rows', Peeked(c))
         /\ Stored(c, responses') /\ Bodies(responses')
         /\ line' = Released(c) /\ UNCHANGED <<restarts, style>>
<1> DEFINE x == cl[c]
           i == Idle(c)
           full == Extended(c, x)
           read == Put(x.read, Request(c), full)
           y == [i EXCEPT !.transcript = full, !.last = Request(c), !.read = read,
                          !.convOut = IF x.key[1] = "conv" THEN x.key[2] ELSE x.key]
<1>1. Client(x) /\ DOMAIN cl = Clients /\ x.pc = "answered" /\ Table(rows) /\ Bodies(responses)
  BY DEF Types, Save
<1>2. Client(i) /\ Remembers(x, i) /\ i.refused = x.refused /\ i.pc = "idle" /\ i.prev = NoRid
  BY IdleIs
<1>3. full \in Seq(Items)
  BY <1>1, ExtendedIs
<1>4. HasRead(c) = y
  BY DEF HasRead, Extended
<1> HIDE DEF full, i
<1>5. /\ DOMAIN read = DOMAIN x.read \cup {Request(c)} /\ read[Request(c)] = full
      /\ \A r \in DOMAIN read : read[r] \in Seq(Items)
  BY <1>1, <1>3 DEF Put, Client
<1> HIDE DEF read
<1>6. /\ DOMAIN y = Fields /\ y.transcript = full /\ y.last = Request(c) /\ y.read = read
      /\ y.sent = i.sent /\ y.refused = i.refused /\ y.pc = "idle" /\ y.prev = NoRid
      /\ y.items = i.items /\ y.msgs = i.msgs /\ y.turns = i.turns /\ y.meta = i.meta
  BY <1>2 DEF Client, Fields
<1> HIDE DEF y
<1>7. Client(y)
  <2>1. /\ i.sent \in 0..MaxRequests /\ i.refused \in BOOLEAN /\ i.items \in Seq(Items)
        /\ i.msgs \in Seq(Items) /\ i.turns \in Seq(Items) /\ i.meta \in Seq(Items)
    BY <1>2 DEF Client
  <2> QED BY <1>3, <1>5, <1>6, <2>1 DEF Client
<1>8. Reads(c, x, y) /\ y.refused = x.refused
  BY <1>2, <1>5, <1>6 DEF Reads, Remembers, full
<1>9. \/ cl' = [cl EXCEPT ![c] = y] /\ past' = past
      \/ cl' = [cl EXCEPT ![c] = i] /\ past' = past \cup {"lost"}
  BY <1>4 DEF Save, i
<1>10. \/ Others(c) /\ cl'[c] = y /\ past' = past
       \/ Others(c) /\ cl'[c] = i /\ past' = past \cup {"lost"}
  BY <1>1, <1>9, OneClient
<1>11. Committed(c, SavedRows(c, 2), 2) /\ Shrunk(SavedRows(c, 2), rows', Peeked(c))
  <2>1. Committed(c, SavedRows(c, 2), 2)
    BY <1>1, SavedRowsIs
  <2>2. Table(SavedRows(c, 2))
    BY <2>1 DEF Committed
  <2>3. rows' = DropIfFresh(SavedRows(c, 2), Peeked(c))
    BY DEF Save
  <2> QED BY <2>1, <2>2, <2>3, DropIs
<1>12. Stored(c, responses') /\ Bodies(responses')
  <2> DEFINE body == [state |-> x.key, norm |-> x.items]
             w == Put(responses, Request(c), body)
  <2>1. responses' = IF x.api = "chat" THEN responses ELSE w
    BY DEF Save, SavedResponse
  <2>2. DOMAIN body = {"state", "norm"} /\ body.state = x.key /\ body.norm = x.items /\ x.items \in Seq(Items)
    BY <1>1 DEF Client
  <2> HIDE DEF body
  <2>3. /\ DOMAIN w = DOMAIN responses \cup {Request(c)} /\ w[Request(c)] = body
        /\ \A r \in DOMAIN responses \ {Request(c)} : w[r] = responses[r]
    BY DEF Put
  <2> HIDE DEF w
  <2>4. Bodies(w)
    BY <1>1, <2>2, <2>3 DEF Bodies
  <2> QED BY <1>1, <2>1, <2>2, <2>3, <2>4 DEF Stored
<1> QED BY <1>1, <1>2, <1>6, <1>7, <1>8, <1>10, <1>11, <1>12 DEF Save

\* A restart, after whatever commits the kill left
Restarts(table, marks) ==
  /\ DOMAIN cl' = Clients
  /\ \A c \in Clients : /\ Client(cl'[c]) /\ Remembers(cl[c], cl'[c])
                        /\ cl'[c].refused = cl[c].refused /\ cl'[c].pc = "idle"
  /\ Table(rows') /\ DOMAIN rows' \subseteq DOMAIN table /\ \A k \in DOMAIN rows' : rows'[k] = table[k]
  /\ \/ DOMAIN rows' = DOMAIN table
     \/ "purge" \in past' /\ "purge" \in Events
  /\ past \subseteq past' /\ marks \subseteq past' /\ past' \subseteq past \cup marks \cup ({"purge"} \cap Events)
  /\ line' = <<>> /\ restarts' \in 0..MaxRestarts /\ UNCHANGED <<responses, style>>

LEMMA RestartWithDoes ==
  ASSUME Types, NEW table, Table(table), NEW marks, RestartWith(table, responses, marks)
  PROVE  Restarts(table, marks)
<1>1. PICK dead \in Purges(table) :
        /\ rows' = Without(table, dead)
        /\ past' = past \cup marks \cup (IF dead = {} THEN {} ELSE {"purge"})
  BY DEF RestartWith
<1>2. cl' = [c \in Clients |-> Idle(c)] /\ line' = <<>> /\ UNCHANGED <<responses, style>>
  BY DEF RestartWith
<1>3. restarts' \in 0..MaxRestarts
  BY ResponsesAssumption DEF RestartWith, Types
<1>4. DOMAIN rows' = DOMAIN table \ dead /\ \A k \in DOMAIN rows' : rows'[k] = table[k]
  BY <1>1 DEF Without
<1>5. Table(rows')
  BY <1>4 DEF Table
<1>6. dead # {} => "purge" \in Events
  BY <1>1 DEF Purges
<1>7. /\ DOMAIN cl' = Clients
      /\ \A c \in Clients : /\ Client(cl'[c]) /\ Remembers(cl[c], cl'[c])
                            /\ cl'[c].refused = cl[c].refused /\ cl'[c].pc = "idle"
  <2>1. DOMAIN cl' = Clients /\ \A c \in Clients : cl'[c] = Idle(c)
    BY <1>2
  <2> QED BY <2>1, IdleIs
<1> QED BY <1>1, <1>2, <1>3, <1>4, <1>5, <1>6, <1>7 DEF Restarts

LEMMA RestartDoes == ASSUME Types, Restart PROVE Restarts(rows, {"restart"})
BY RestartWithDoes DEF Restart, Types

LEMMA KillDoes ==
  ASSUME Types, NEW c \in Clients, Kill(c)
  PROVE  /\ cl[c].pc = "answered"
         /\ \E n \in 1..2 : \E w : Committed(c, w, n) /\ Restarts(w, {"restart", "kill"})
<1>1. cl[c].pc = "answered" /\ \E n \in 1..2 : RestartWith(SavedRows(c, n), responses, {"restart", "kill"})
  BY DEF Kill
<1>2. PICK n \in 1..2 : RestartWith(SavedRows(c, n), responses, {"restart", "kill"})
  BY <1>1
<1>3. Committed(c, SavedRows(c, n), n)
  BY <1>1, SavedRowsIs
<1>4. Table(SavedRows(c, n))
  BY <1>3 DEF Committed
<1>5. Restarts(SavedRows(c, n), {"restart", "kill"})
  BY <1>2, <1>4, RestartWithDoes
<1> QED BY <1>1, <1>3, <1>5

-----------------------------------------------------------------------------
(* Types *)

LEMMA InitTypes == Init => Types
<1> SUFFICES ASSUME Init PROVE Types
  OBVIOUS
<1>1. Table(rows) /\ Bodies(responses)
  BY DEF Init, Table, Bodies
<1>2. <<>> \in Seq(Items)
  OBVIOUS
<1>3. DOMAIN cl = Clients /\ \A c \in Clients : Client(cl[c])
  <2> DEFINE e == <<>>
             x == [pc |-> "idle", api |-> "none", transcript |-> e, sent |-> 0, read |-> e,
                   last |-> NoRid, convOut |-> NoId, refused |-> FALSE,
                   items |-> e, msgs |-> e, prev |-> NoRid, conv |-> NoId, peek |-> NoKey,
                   key |-> NoKey, turns |-> e, meta |-> e]
  <2>1. DOMAIN cl = Clients /\ \A c \in Clients : cl[c] = x
    BY DEF Init
  <2>2. e \in Seq(Items) /\ DOMAIN e = {}
    OBVIOUS
  <2> HIDE DEF e
  <2>3. Client(x)
    BY <2>2, ResponsesAssumption DEF Client, Fields
  <2> QED BY <2>1, <2>3
<1>4. restarts \in 0..MaxRestarts /\ style \in Scenes
  BY ResponsesAssumption DEF Init
<1> QED BY <1>1, <1>3, <1>4 DEF Types

\* The clients are as they were but for one
LEMMA OthersTyped ==
  ASSUME Types, NEW c \in Clients, Others(c), Client(cl'[c])
  PROVE  DOMAIN cl' = Clients /\ \A d \in Clients : Client(cl'[d])
BY DEF Others, Types

LEMMA NextTypes == Types /\ [Next]_vars => Types'
<1> SUFFICES ASSUME Types, [Next]_vars PROVE Types'
  OBVIOUS
<1>1. ASSUME NEW c \in Clients, Arrive(c) PROVE Types'
  BY <1>1, ArriveDoes, OthersTyped DEF Types, Grown
<1>2. ASSUME NEW c \in Clients, Enter(c) PROVE Types'
  BY <1>2, EnterDoes, OthersTyped DEF Types, Grown
<1>3. ASSUME NEW c \in Clients, Refuse(c) PROVE Types'
  BY <1>3, RefuseDoes, OthersTyped DEF Types
<1>4. ASSUME NEW c \in Clients, Pick(c) PROVE Types'
  BY <1>4, PickDoes, OthersTyped DEF Types, Grown, Shrunk
<1>5. ASSUME NEW c \in Clients, RetryFresh(c) PROVE Types'
  BY <1>5, RetryFreshDoes, OthersTyped DEF Types
<1>6. ASSUME NEW c \in Clients, Answer(c) PROVE Types'
  BY <1>6, AnswerDoes, OthersTyped DEF Types
<1>7. ASSUME NEW c \in Clients, Fail(c) PROVE Types'
  BY <1>7, FailDoes, OthersTyped DEF Types, Shrunk
<1>8. ASSUME NEW c \in Clients, Save(c) PROVE Types'
  BY <1>8, SaveDoes, OthersTyped DEF Types, Shrunk
<1>9. ASSUME NEW c \in Clients, Disconnect(c) PROVE Types'
  BY <1>9, DisconnectDoes, OthersTyped DEF Types
<1>10. ASSUME NEW c \in Clients, Kill(c) PROVE Types'
  BY <1>10, KillDoes DEF Types, Restarts
<1>11. CASE Restart
  BY <1>11, RestartDoes DEF Types, Restarts
<1>12. CASE UNCHANGED vars
  BY <1>12 DEF vars, Types
<1> QED BY <1>1, <1>2, <1>3, <1>4, <1>5, <1>6, <1>7, <1>8, <1>9, <1>10, <1>11, <1>12 DEF Next

LEMMA AlwaysTyped == Spec => []Types
BY InitTypes, NextTypes, PTL DEF Spec
\* The types of the module hold.
THEOREM ResponseTypes == Spec => []TypeOK
<1>1. Types => TypeOK
  BY DEF Types, TypeOK, Table, Row, Bodies, Client
<1> QED BY <1>1, AlwaysTyped, PTL

-----------------------------------------------------------------------------
(* Rows without a history.  Each belongs to a request that is under way: it  *)
(* is the row the request has waited for, or the one it goes to.             *)

Claims(x, k) == x.pc # "idle" /\ (k = x.peek \/ (x.pc # "waiting" /\ k = x.key))

Quiet == past \cap {"restart", "disconnect", "refused"} = {}

Claimed ==
  Quiet => \A k \in DOMAIN rows : rows[k].meta = <<>> =>
             (rows[k].norm = <<>> /\ \E c \in Clients : Claims(cl[c], k))

\* What a step of c has to show of a row
LEMMA StillClaimed ==
  ASSUME Claimed, Quiet, NEW c \in Clients, Others(c), NEW k \in DOMAIN rows, rows[k].meta = <<>>,
         Claims(cl[c], k) => Claims(cl'[c], k)
  PROVE  rows[k].norm = <<>> /\ \E d \in Clients : Claims(cl'[d], k)
<1>1. rows[k].norm = <<>>
  BY DEF Claimed
<1>2. PICK d \in Clients : Claims(cl[d], k)
  BY DEF Claimed
<1>3. Claims(cl'[d], k)
  BY <1>2 DEF Others
<1> QED BY <1>1, <1>3

LEMMA ArriveClaimed ==
  ASSUME Types, Claimed, NEW c \in Clients, Arrive(c) PROVE Claimed'
<1> SUFFICES ASSUME Quiet', NEW k \in DOMAIN rows', rows'[k].meta = <<>>
             PROVE  rows'[k].norm = <<>> /\ \E d \in Clients : Claims(cl'[d], k)
  BY DEF Claimed
<1>1. /\ Others(c) /\ cl[c].pc = "idle" /\ cl'[c].pc = "waiting"
      /\ Grown(rows, rows', cl'[c].peek) /\ past' = past
  BY ArriveDoes
<1>2. CASE k \in DOMAIN rows
  <2>1. rows'[k] = rows[k] /\ Quiet /\ ~Claims(cl[c], k)
    BY <1>1, <1>2 DEF Grown, Quiet, Claims
  <2> QED BY <1>1, <1>2, <2>1, StillClaimed
<1>3. CASE k \notin DOMAIN rows
  <2>1. k = cl'[c].peek /\ rows'[k].norm = <<>>
    BY <1>1, <1>3 DEF Grown
  <2> QED BY <1>1, <2>1 DEF Claims
<1> QED BY <1>2, <1>3

LEMMA EnterClaimed ==
  ASSUME Types, Claimed, NEW c \in Clients, Enter(c) \/ Pick(c) PROVE Claimed'
<1> SUFFICES ASSUME Quiet', NEW k \in DOMAIN rows', rows'[k].meta = <<>>
             PROVE  rows'[k].norm = <<>> /\ \E d \in Clients : Claims(cl'[d], k)
  BY DEF Claimed
<1>1. /\ Others(c) /\ Asking(cl[c], cl'[c]) /\ past' = past
      /\ cl'[c].pc # "idle" /\ cl'[c].pc # "waiting"
      /\ cl[c].pc = "waiting" \/ (cl[c].pc = "entered" /\ cl'[c].key = cl[c].key)
  BY EnterDoes, PickDoes
<1>2. Claims(cl[c], k) => Claims(cl'[c], k)
  BY <1>1 DEF Claims, Asking
<1>3. \/ k \in DOMAIN rows /\ rows'[k] = rows[k]
      \/ k = cl'[c].key /\ rows'[k].norm = <<>>
  <2>1. CASE Enter(c)
    BY <2>1, EnterDoes DEF Grown
  <2>2. CASE Pick(c)
    <3>1. cl'[c].key = cl[c].key
      BY <2>2, PickDoes
    <3>2. PICK table : Grown(rows, table, cl[c].key) /\ (Shrunk(table, rows', Peeked(c)) \/ rows' = table)
      BY <2>2, PickDoes
    <3>3. k \in DOMAIN table /\ rows'[k] = table[k]
      BY <3>2 DEF Shrunk
    <3> QED BY <3>1, <3>2, <3>3 DEF Grown
  <2> QED BY <2>1, <2>2
<1>4. CASE k \in DOMAIN rows /\ rows'[k] = rows[k]
  <2>1. Quiet
    BY <1>1 DEF Quiet
  <2> QED BY <1>1, <1>2, <1>4, <2>1, StillClaimed
<1>5. CASE k = cl'[c].key /\ rows'[k].norm = <<>>
  BY <1>1, <1>5 DEF Claims
<1> QED BY <1>3, <1>4, <1>5

LEMMA FailClaimed ==
  ASSUME Types, Claimed, NEW c \in Clients, Fail(c) PROVE Claimed'
<1> SUFFICES ASSUME Quiet', NEW k \in DOMAIN rows', rows'[k].meta = <<>>
             PROVE  rows'[k].norm = <<>> /\ \E d \in Clients : Claims(cl'[d], k)
  BY DEF Claimed
<1>1. /\ Others(c) /\ Shrunk(rows, rows', {cl[c].key} \cup Peeked(c)) /\ past \subseteq past'
  BY FailDoes
<1>2. k \in DOMAIN rows /\ rows'[k] = rows[k] /\ Quiet
  BY <1>1 DEF Shrunk, Quiet
<1>3. rows[k].norm = <<>>
  BY <1>2 DEF Claimed
<1>4. k \notin {cl[c].key} \cup Peeked(c)
  BY <1>1, <1>2, <1>3 DEF Shrunk
<1>5. ~Claims(cl[c], k)
  BY <1>4 DEF Claims, Peeked
<1> QED BY <1>1, <1>2, <1>5, StillClaimed

LEMMA SaveClaimed ==
  ASSUME Types, Claimed, NEW c \in Clients, Save(c) PROVE Claimed'
<1> SUFFICES ASSUME Quiet', NEW k \in DOMAIN rows', rows'[k].meta = <<>>
             PROVE  rows'[k].norm = <<>> /\ \E d \in Clients : Claims(cl'[d], k)
  BY DEF Claimed
<1>1. Others(c) /\ past \subseteq past' /\ cl[c].pc = "answered"
  BY SaveDoes
<1>2. PICK w : Committed(c, w, 2) /\ Shrunk(w, rows', Peeked(c))
  BY SaveDoes
<1>3. k \in DOMAIN w /\ rows'[k] = w[k]
  BY <1>2 DEF Shrunk
<1>4. k # cl[c].key
  <2>1. Turned(c, cl[c]) # <<>>
    BY <1>1, TurnedIs DEF Types
  <2>2. cl[c].key \in DOMAIN w /\ w[cl[c].key].meta # <<>>
    BY <1>2, <2>1 DEF Committed, Meta
  <2> QED BY <1>3, <2>2
<1>5. k \in DOMAIN rows /\ Meta(w, k) = Meta(rows, k) /\ Norm(w, k) = Norm(rows, k)
  BY <1>2, <1>3, <1>4 DEF Committed
<1>6. rows[k].meta = <<>> /\ Quiet
  BY <1>1, <1>3, <1>5 DEF Meta, Quiet
<1>7. rows[k].norm = <<>> /\ rows'[k].norm = <<>>
  BY <1>3, <1>5, <1>6 DEF Claimed, Norm
<1>8. ~Claims(cl[c], k)
  BY <1>2, <1>4, <1>7 DEF Claims, Peeked, Shrunk
<1> QED BY <1>1, <1>5, <1>6, <1>7, <1>8, StillClaimed

LEMMA NextClaimed == Types /\ Claimed /\ [Next]_vars => Claimed'
<1> SUFFICES ASSUME Types, Claimed, [Next]_vars PROVE Claimed'
  OBVIOUS
<1>1. ASSUME NEW c \in Clients, Refuse(c) \/ Disconnect(c) \/ Kill(c) PROVE Claimed'
  <2>1. ~Quiet'
    BY <1>1, RefuseDoes, DisconnectDoes, KillDoes DEF Quiet, Restarts
  <2> QED BY <2>1 DEF Claimed
<1>2. CASE Restart
  BY <1>2, RestartDoes DEF Claimed, Quiet, Restarts
<1>3. ASSUME NEW c \in Clients, RetryFresh(c) \/ Answer(c) PROVE Claimed'
  <2> SUFFICES ASSUME Quiet', NEW k \in DOMAIN rows', rows'[k].meta = <<>>
               PROVE  rows'[k].norm = <<>> /\ \E d \in Clients : Claims(cl'[d], k)
    BY DEF Claimed
  <2>1. /\ Others(c) /\ Asking(cl[c], cl'[c]) /\ past \subseteq past' /\ rows' = rows
        /\ cl'[c].pc # "idle" /\ cl'[c].pc # "waiting" /\ cl'[c].key = cl[c].key
    BY <1>3, RetryFreshDoes, AnswerDoes
  <2>2. Claims(cl[c], k) => Claims(cl'[c], k)
    BY <2>1 DEF Claims, Asking
  <2>3. Quiet
    BY <2>1 DEF Quiet
  <2> QED BY <2>1, <2>2, <2>3, StillClaimed
<1>4. CASE UNCHANGED vars
  BY <1>4 DEF vars, Claimed, Quiet
<1> QED BY <1>1, <1>2, <1>3, <1>4, ArriveClaimed, EnterClaimed, FailClaimed, SaveClaimed DEF Next

\* Once everybody is served no row without a history is left, for any clients
\* and whatever they do to each other's conversations: what waits for the peeked
\* row and what fails cleans up after itself.
THEOREM JunkRemoved == Spec => []NoJunkRows
<1>1. Init => Claimed
  BY DEF Init, Claimed
<1>2. Claimed => NoJunkRows
  BY DEF Claimed, NoJunkRows, Quiet, Claims
<1> QED BY <1>1, <1>2, AlwaysTyped, NextClaimed, PTL DEF Spec
-----------------------------------------------------------------------------
(* What a client tells, when it neither repeats a message nor goes back to   *)
(* an older response: its transcript alternates, and each request adds the   *)
(* next message to it.                                                       *)

Straight == Events \cap {"repeat", "fork"} = {}

Rounds(c, t) ==
  /\ IsInjective(t)
  /\ \E n \in Nat : Len(t) = 2 * n /\ \A item \in Range(t) : item.of = c /\ item.n <= n

NextUser(c, t) == User(c, Len(t) \div 2 + 1)

\* A request, to a client with the transcript t and the last response last
OneMore(c, x, t, last) ==
  /\ x.msgs = Append(t, NextUser(c, t))
  /\ x.items = <<>> \/ x.items = x.msgs \/ x.items = <<NextUser(c, t)>>
  /\ x.prev = NoRid \/ x.prev = last
  /\ x.items = <<>> => x.prev = NoRid /\ x.conv = NoId

Told(c, x) ==
  /\ Rounds(c, x.transcript)
  /\ x.last = NoRid => x.transcript = <<>>
  /\ x.last # NoRid => x.last \in DOMAIN x.read /\ x.read[x.last] = x.transcript
  /\ x.pc # "idle" => OneMore(c, x, x.transcript, x.last)

\* The next message is new, and with its answer it is one more round.
LEMMA NextRound ==
  ASSUME NEW c \in Clients, NEW t \in Seq(Items), Rounds(c, t)
  PROVE  LET u == NextUser(c, t)
             m == Append(t, u)
             r == Reply(c, u.n)
         IN  /\ u \in Items /\ IsUserItem(u) /\ u.of = c /\ u \notin Range(t)
             /\ m \in Seq(Items) /\ m # <<>> /\ Last(m) = u /\ IsInjective(m) /\ Range(m) = Range(t) \cup {u}
             /\ r \in Items /\ ~IsUserItem(r) /\ r.of = c /\ r \notin Range(m)
             /\ Append(m, r) \in Seq(Items) /\ Rounds(c, Append(m, r))
             /\ Range(Append(m, r)) = Range(m) \cup {r}
<1> DEFINE u == NextUser(c, t)
           m == Append(t, u)
           r == Reply(c, u.n)
           a == Append(m, r)
<1>1. PICK n \in Nat : Len(t) = 2 * n /\ \A item \in Range(t) : item.of = c /\ item.n <= n
  BY DEF Rounds
<1>2. Len(t) \div 2 + 1 = n + 1
  BY <1>1
<1>3. u = User(c, n + 1)
  BY <1>2 DEF NextUser
<1>4. u \in Items /\ IsUserItem(u) /\ u.of = c /\ u.n = n + 1 /\ u.role = "user"
  BY <1>3 DEF User, Items, IsUserItem
<1>5. r \in Items /\ ~IsUserItem(r) /\ r.of = c /\ r.n = n + 1
  BY <1>4 DEF Reply, Items, IsUserItem
<1> HIDE DEF u, r
<1>6. u \notin Range(t) /\ r \notin Range(t) /\ u # r
  BY <1>1, <1>4, <1>5
<1>7. /\ m \in Seq(Items) /\ Range(m) = Range(t) \cup {u} /\ IsInjective(m)
      /\ Len(m) = Len(t) + 1 /\ m[Len(t) + 1] = u
  BY <1>4, <1>6, AppendOne DEF Rounds
<1> HIDE DEF m
<1>8. m # <<>> /\ Last(m) = u
  BY <1>1, <1>7 DEF Last
<1>9. r \notin Range(m)
  BY <1>6, <1>7
<1>10. a \in Seq(Items) /\ Range(a) = Range(m) \cup {r} /\ IsInjective(a) /\ Len(a) = Len(m) + 1
  BY <1>5, <1>7, <1>9, AppendOne
<1> HIDE DEF a
<1>11. Len(a) = 2 * (n + 1)
  BY <1>1, <1>7, <1>10
<1>12. ASSUME NEW item \in Range(a) PROVE item.of = c /\ item.n <= n + 1
  <2>1. CASE item \in Range(t)
    <3>1. item.of = c /\ item.n <= n /\ item \in Items
      BY <1>1, <2>1 DEF Range
    <3>2. item.n \in Nat
      BY <3>1 DEF Items
    <3> QED BY <3>1, <3>2
  <2>2. CASE item = u \/ item = r
    BY <1>4, <1>5, <2>2
  <2> QED BY <1>7, <1>10, <2>1, <2>2
<1>13. Rounds(c, a)
  <2> DEFINE k == n + 1
  <2>1. k \in Nat /\ Len(a) = 2 * k /\ \A item \in Range(a) : item.of = c /\ item.n <= k
    BY <1>11, <1>12
  <2> HIDE DEF k
  <2> QED BY <1>10, <2>1 DEF Rounds
<1> QED BY <1>4, <1>5, <1>6, <1>7, <1>8, <1>9, <1>10, <1>13 DEF u, m, r, a

\* A request stays what it is while it runs, and leaves the transcript when it goes.
LEMMA StaysTold ==
  ASSUME NEW c, NEW x, NEW y, Told(c, x)
  PROVE  /\ Asking(x, y) /\ x.pc # "idle" => Told(c, y)
         /\ Remembers(x, y) /\ y.pc = "idle" => Told(c, y)
BY DEF Told, Asking, Remembers, OneMore

LEMMA ArriveAsks ==
  ASSUME Straight, Types, NEW c \in Clients, Arrive(c), Told(c, cl[c])
  PROVE  LET x == cl[c]
             y == cl'[c]
         IN  /\ y.prev \in PrevIds(c) /\ (y.prev = NoRid \/ y.prev = x.last)
             /\ y.msgs = Append(x.transcript, NextUser(c, x.transcript))
             /\ y.items = IF style[c].input = "string" /\ y.prev = NoRid /\ ConvId(c) = NoId THEN <<>>
                          ELSE IF style[c].input = "full" THEN y.msgs ELSE <<NextUser(c, x.transcript)>>
             /\ y.items = <<>> => y.prev = NoRid /\ y.conv = NoId
<1> DEFINE x == cl[c]
           y == cl'[c]
<1>1. /\ Client(x) /\ y.transcript = x.transcript /\ y.read = x.read /\ y.last = x.last
      /\ y.conv = ConvId(c) /\ Arrives(c, y)
  BY ArriveDoes DEF Types
<1>2. PICK prev \in PrevIds(c), repeat \in Repeats :
        LET before == IF prev = NoRid THEN x.transcript ELSE x.read[prev]
            number == IF repeat THEN 1 ELSE Len(before) \div 2 + 1
        IN  /\ y.prev = prev /\ y.msgs = Append(before, User(c, number))
            /\ y.items = IF style[c].input = "string" /\ prev = NoRid /\ ConvId(c) = NoId THEN <<>>
                         ELSE IF style[c].input = "full" THEN y.msgs ELSE <<User(c, number)>>
  BY <1>1 DEF Arrives
<1>3. repeat = FALSE
  BY <1>2 DEF Straight, Repeats
<1>4. prev = NoRid \/ prev = x.last
  BY <1>2 DEF Straight, PrevIds
<1>5. (IF prev = NoRid THEN x.transcript ELSE x.read[prev]) = x.transcript
  BY <1>4 DEF Told
<1>6. /\ y.msgs = Append(x.transcript, NextUser(c, x.transcript)) /\ y.prev = prev
      /\ y.items = IF style[c].input = "string" /\ prev = NoRid /\ ConvId(c) = NoId THEN <<>>
                   ELSE IF style[c].input = "full" THEN y.msgs ELSE <<NextUser(c, x.transcript)>>
  BY <1>2, <1>3, <1>5 DEF NextUser
<1> HIDE DEF y, x
<1>7. y.items = <<>> => y.prev = NoRid /\ y.conv = NoId
  <2>1. <<NextUser(c, x.transcript)>> # <<>>
    OBVIOUS
  <2>2. y.msgs # <<>>
    <3>1. Client(y) /\ y.pc # "idle"
      BY ArriveDoes DEF y
    <3> QED BY <3>1 DEF Client
  <2> QED BY <1>1, <1>6, <2>1, <2>2
<1> QED BY <1>2, <1>4, <1>6, <1>7 DEF x, y

LEMMA ArriveTold ==
  ASSUME Straight, Types, NEW c \in Clients, Arrive(c), Told(c, cl[c])
  PROVE  Told(c, cl'[c])
<1> DEFINE x == cl[c]
           y == cl'[c]
<1>1. OneMore(c, y, x.transcript, x.last)
  <2>1. y.items = <<>> \/ y.items = y.msgs \/ y.items = <<NextUser(c, x.transcript)>>
    BY ArriveAsks, Zenon
  <2> QED BY <2>1, ArriveAsks DEF OneMore
<1>2. y.transcript = x.transcript /\ y.read = x.read /\ y.last = x.last
  BY ArriveDoes
<1> HIDE DEF y
<1>3. Told(c, y)
  BY <1>1, <1>2 DEF Told
<1> QED BY <1>3 DEF y

\* The new message of a request
LEMMA ToldNext ==
  ASSUME Types, NEW c \in Clients, Told(c, cl[c]), cl[c].pc # "idle"
  PROVE  LET x == cl[c]
             u == NextUser(c, x.transcript)
         IN  /\ u \in Items /\ IsUserItem(u) /\ u.of = c /\ u \notin Range(x.transcript)
             /\ x.msgs = Append(x.transcript, u) /\ Last(x.msgs) = u /\ IsInjective(x.msgs)
             /\ Range(x.msgs) = Range(x.transcript) \cup {u}
             /\ x.items # <<>> => u \in Range(x.items)
             /\ Range(x.items) \subseteq Range(x.msgs) /\ IsInjective(x.items)
             /\ \A item \in Range(x.msgs) : item.of = c
<1> DEFINE x == cl[c]
           u == NextUser(c, x.transcript)
<1>1. x.transcript \in Seq(Items) /\ Rounds(c, x.transcript)
  BY DEF Types, Client, Told
<1>2. /\ x.msgs = Append(x.transcript, u)
      /\ x.items = <<>> \/ x.items = x.msgs \/ x.items = <<u>>
  BY DEF Told, OneMore
<1>3. /\ u \in Items /\ IsUserItem(u) /\ u.of = c /\ u \notin Range(x.transcript)
      /\ Last(x.msgs) = u /\ IsInjective(x.msgs) /\ Range(x.msgs) = Range(x.transcript) \cup {u}
  BY <1>1, <1>2, NextRound
<1> HIDE DEF u
<1>4. Range(<<u>>) = {u} /\ IsInjective(<<u>>) /\ Range(<<>>) = {} /\ IsInjective(<<>>)
  BY DEF Range, IsInjective
<1>5. \A item \in Range(x.transcript) : item.of = c
  BY <1>1 DEF Rounds
<1> QED BY <1>2, <1>3, <1>4, <1>5 DEF u

LEMMA SaveTold ==
  ASSUME Types, NEW c \in Clients, Save(c), Told(c, cl[c])
  PROVE  /\ Told(c, cl'[c]) /\ Range(cl[c].transcript) \subseteq Range(cl'[c].transcript)
         /\ "lost" \notin past' => Range(cl[c].msgs) \subseteq Range(cl'[c].transcript)
<1> DEFINE x == cl[c]
           y == cl'[c]
           u == NextUser(c, x.transcript)
           r == Reply(c, u.n)
<1>1. /\ x.pc # "idle" /\ y.pc = "idle"
      /\ \/ Reads(c, x, y) /\ past' = past
         \/ Remembers(x, y) /\ past' = past \cup {"lost"}
  BY SaveDoes
<1>2. CASE Remembers(x, y) /\ past' = past \cup {"lost"}
  <2>1. Told(c, y)
    BY <1>1, <1>2, StaysTold
  <2> QED BY <1>2, <2>1 DEF Remembers
<1>3. CASE Reads(c, x, y)
  <2>1. x.transcript \in Seq(Items) /\ Rounds(c, x.transcript)
    BY DEF Types, Client, Told
  <2>2. Last(x.msgs) = u /\ x.msgs = Append(x.transcript, u)
    BY <1>1, ToldNext
  <2>3. Extended(c, x) = Append(x.msgs, r)
    BY <2>2 DEF Extended
  <2>4. /\ Rounds(c, Extended(c, x)) /\ Range(Extended(c, x)) = Range(x.msgs) \cup {r}
        /\ Range(x.msgs) = Range(x.transcript) \cup {u}
    BY <2>1, <2>2, <2>3, NextRound
  <2>5. Request(c) # NoRid
    BY DEF Request, NoRid
  <2>6. Told(c, y)
    BY <1>1, <1>3, <2>4, <2>5 DEF Told, Reads
  <2> QED BY <1>3, <2>4, <2>6 DEF Reads
<1> QED BY <1>1, <1>2, <1>3
-----------------------------------------------------------------------------
(* What is said to have been sent was sent: norms hold messages of answered  *)
(* requests alone, so the new message of a request is never taken for one of *)
(* them.                                                                     *)

Undisturbed == past \cap {"lost", "kill"} = {}

Heard(item) == item \in Range(cl[item.of].transcript)

AllTold == \A c \in Clients : Told(c, cl[c])

NormsHeard ==
  Undisturbed =>
    /\ \A k \in DOMAIN rows : \A item \in Range(rows[k].norm) : Heard(item)
    /\ \A r \in DOMAIN responses : \A item \in Range(responses[r].norm) : Heard(item)
    /\ \A c \in Clients : ~cl[c].refused

\* Transcripts only grow
Remembered == \A c \in Clients : Range(cl[c].transcript) \subseteq Range(cl'[c].transcript)

LEMMA NextRemembered ==
  ASSUME Straight, Types, AllTold, [Next]_vars
  PROVE  Remembered /\ AllTold' /\ past \subseteq past'
<1> USE DEF AllTold
<1>1. ASSUME NEW c \in Clients, Arrive(c) PROVE Remembered /\ AllTold' /\ past \subseteq past'
  <2>1. Told(c, cl'[c])
    BY <1>1, ArriveTold
  <2> QED BY <1>1, <2>1, ArriveDoes DEF Others, Remembered
<1>2. ASSUME NEW c \in Clients, Enter(c) \/ Pick(c) \/ RetryFresh(c) \/ Answer(c)
      PROVE  Remembered /\ AllTold' /\ past \subseteq past'
  <2>1. Others(c) /\ Asking(cl[c], cl'[c]) /\ cl[c].pc # "idle" /\ past \subseteq past'
    BY <1>2, EnterDoes, PickDoes, RetryFreshDoes, AnswerDoes
  <2>2. Told(c, cl'[c])
    BY <2>1, StaysTold
  <2> QED BY <2>1, <2>2 DEF Others, Remembered, Asking, Remembers
<1>3. ASSUME NEW c \in Clients, Refuse(c) \/ Fail(c) \/ Disconnect(c)
      PROVE  Remembered /\ AllTold' /\ past \subseteq past'
  <2>1. Others(c) /\ Remembers(cl[c], cl'[c]) /\ cl'[c].pc = "idle" /\ past \subseteq past'
    BY <1>3, RefuseDoes, FailDoes, DisconnectDoes
  <2>2. Told(c, cl'[c])
    BY <2>1, StaysTold
  <2> QED BY <2>1, <2>2 DEF Others, Remembered, Remembers
<1>4. ASSUME NEW c \in Clients, Save(c) PROVE Remembered /\ AllTold' /\ past \subseteq past'
  <2>1. Others(c) /\ past \subseteq past'
    BY <1>4, SaveDoes
  <2>2. Told(c, cl'[c]) /\ Range(cl[c].transcript) \subseteq Range(cl'[c].transcript)
    BY <1>4, SaveTold
  <2> QED BY <2>1, <2>2 DEF Others, Remembered
<1>5. ASSUME NEW table, NEW marks, Restarts(table, marks)
      PROVE  Remembered /\ AllTold' /\ past \subseteq past'
  <2>1. \A c \in Clients : Told(c, cl'[c])
    BY <1>5, StaysTold DEF Restarts
  <2> QED BY <1>5, <2>1 DEF Restarts, Remembered, Remembers
<1>6. ASSUME NEW c \in Clients, Kill(c) PROVE Remembered /\ AllTold' /\ past \subseteq past'
  BY <1>5, <1>6, KillDoes
<1>7. CASE Restart
  BY <1>5, <1>7, RestartDoes
<1>8. CASE UNCHANGED vars
  BY <1>8 DEF vars, Remembered
<1> QED BY <1>1, <1>2, <1>3, <1>4, <1>6, <1>7, <1>8 DEF Next

\* The row and the response a request may continue have norms.
LEMMA NewNotInNorms ==
  ASSUME Types, NEW c \in Clients, Told(c, cl[c]), cl[c].pc # "idle", NormsHeard, Undisturbed
  PROVE  LET u == NextUser(c, cl[c].transcript)
         IN  /\ \A k \in DOMAIN rows : u \notin Range(rows[k].norm)
             /\ \A r \in DOMAIN responses : u \notin Range(responses[r].norm)
<1> DEFINE u == NextUser(c, cl[c].transcript)
<1>1. u.of = c /\ u \notin Range(cl[c].transcript)
  BY ToldNext
<1> HIDE DEF u
<1>2. ~Heard(u)
  BY <1>1 DEF Heard
<1> QED BY <1>2 DEF NormsHeard, u

\* A request goes on with all its items, with those its norm does not have, or
\* with the one that is new.
LEMMA ResolvedIs ==
  ASSUME Types, NEW c \in Clients, Told(c, cl[c]), cl[c].pc = "waiting"
  PROVE  LET x == cl[c]
             t == Resolved(c).turns
             k == ConvKey(x.conv)
             u == NextUser(c, x.transcript)
         IN  \/ x.api = "chat" /\ t = IF Fresh(k) THEN ItemsToTurns(x.items) ELSE <<u>>
             \/ x.api # "chat" /\ x.items = <<>> /\ t = <<u>>
             \/ x.api # "chat" /\ x.items # <<>> /\ x.conv # NoId /\ Fresh(k) /\ t = x.items
             \/ x.api # "chat" /\ x.items # <<>> /\ x.conv # NoId /\ ~Fresh(k) /\ t = Unseen(rows[k].norm, x.items)
             \/ /\ x.api # "chat" /\ x.items # <<>> /\ x.conv = NoId /\ x.prev \in DOMAIN responses
                /\ t = Unseen(responses[x.prev].norm, x.items)
             \/ /\ x.api # "chat" /\ x.items # <<>> /\ x.conv = NoId /\ x.prev \notin DOMAIN responses
                /\ t = x.items
<1> DEFINE x == cl[c]
           u == NextUser(c, x.transcript)
           users == ItemsToTurns(x.items)
<1>1. Last(x.msgs) = u
  BY ToldNext
<1> HIDE DEF u
<1>2. ASSUME x.api = "chat" PROVE users # <<>> /\ Last(users) = u
  <2>1. x.items = x.msgs /\ x.items \in Seq(Items) /\ x.items # <<>>
    BY <1>2 DEF Types, Client
  <2>2. IsInjective(x.items) /\ IsUserItem(u)
    BY <2>1, ToldNext DEF u
  <2>3. u \in Range(x.items) /\ u = x.items[Len(x.items)]
    BY <1>1, <2>1, LastIs DEF Last
  <2>4. users \in Seq(Items) /\ u \in Range(users)
    BY <2>1, <2>2, <2>3, TurnsAreItems
  <2> DEFINE S == {item \in Range(x.items) : IsUserItem(item)}
  <2>5. users = Among(x.items, S)
    BY DEF ItemsToTurns
  <2> HIDE DEF S, users
  <2>6. PICK j \in 1..Len(users) : users[j] = u
    BY <2>4 DEF Range
  <2>7. j = Len(users)
    BY <2>1, <2>2, <2>3, <2>5, <2>6, AmongLast
  <2>8. users # <<>>
    BY <2>4 DEF Range
  <2> QED BY <2>6, <2>7, <2>8 DEF Last
<1> HIDE DEF users
<1> QED BY <1>1, <1>2 DEF Resolved, users, u

\* So a request with a new message always has something to send.
LEMMA NeverEmpty ==
  ASSUME Types, NEW c \in Clients, Told(c, cl[c]), cl[c].pc = "waiting", NormsHeard, Undisturbed
  PROVE  Resolved(c).turns # <<>>
<1> DEFINE x == cl[c]
           u == NextUser(c, x.transcript)
           k == ConvKey(x.conv)
<1>1. /\ u \in Items /\ IsUserItem(u) /\ x.items \in Seq(Items)
      /\ x.items # <<>> => u \in Range(x.items)
      /\ x.api = "chat" => x.items = x.msgs /\ x.items # <<>>
  BY ToldNext DEF Types, Client
<1>2. /\ \A j \in DOMAIN rows : u \notin Range(rows[j].norm) /\ rows[j].norm \in Seq(Items)
      /\ \A r \in DOMAIN responses : u \notin Range(responses[r].norm) /\ responses[r].norm \in Seq(Items)
  BY NewNotInNorms DEF Types, Table, Row, Bodies
<1> HIDE DEF u
<1>3. x.items # <<>> => u \in Range(ItemsToTurns(x.items))
  BY <1>1, TurnsAreItems
<1>4. ~Fresh(k) => k \in DOMAIN rows
  BY DEF Fresh
<1>5. x.items # <<>> /\ ~Fresh(k) => u \in Range(Unseen(rows[k].norm, x.items))
  BY <1>1, <1>2, <1>4, UnseenIs
<1>6. x.items # <<>> /\ x.prev \in DOMAIN responses => u \in Range(Unseen(responses[x.prev].norm, x.items))
  BY <1>1, <1>2, UnseenIs
<1>7. u \notin Range(<<>>)
  BY DEF Range
<1>8. <<u>> # <<>>
  OBVIOUS
<1> QED BY <1>1, <1>3, <1>5, <1>6, <1>7, <1>8, ResolvedIs DEF u
\* The steps that save nothing
Passes(c) ==
  Arrive(c) \/ Enter(c) \/ Refuse(c) \/ Pick(c) \/ RetryFresh(c) \/ Answer(c) \/ Fail(c) \/ Disconnect(c)

LEMMA PassesIs ==
  ASSUME Types, NEW c \in Clients, Passes(c)
  PROVE  Others(c) /\ SameRows(rows, rows') /\ UNCHANGED <<responses, style>> /\ past \subseteq past'
<1>1. CASE Pick(c)
  <2>1. PICK table : Grown(rows, table, cl[c].key) /\ (Shrunk(table, rows', Peeked(c)) \/ rows' = table)
    BY <1>1, PickDoes
  <2>2. SameRows(rows, rows')
    BY <2>1 DEF Grown, Shrunk, SameRows
  <2> QED BY <1>1, <2>2, PickDoes
<1>2. CASE Arrive(c)
  BY <1>2, ArriveDoes DEF Grown
<1>3. CASE Enter(c)
  BY <1>3, EnterDoes DEF Grown, SameRows
<1>4. CASE Fail(c)
  BY <1>4, FailDoes DEF Shrunk
<1>5. CASE Refuse(c)
  BY <1>5, RefuseDoes DEF SameRows
<1>6. CASE RetryFresh(c)
  BY <1>6, RetryFreshDoes DEF SameRows
<1>7. CASE Answer(c)
  BY <1>7, AnswerDoes DEF SameRows
<1>8. CASE Disconnect(c)
  BY <1>8, DisconnectDoes DEF SameRows
<1> QED BY <1>1, <1>2, <1>3, <1>4, <1>5, <1>6, <1>7, <1>8 DEF Passes

\* Reading a table by Norm and by its rows is the same.
LEMMA NormsOf ==
  ASSUME NEW t
  PROVE  /\ \A k \in DOMAIN t : t[k].norm = Norm(t, k) /\ t[k].meta = Meta(t, k)
         /\ \A k : k \notin DOMAIN t => Norm(t, k) = <<>> /\ Meta(t, k) = <<>>
BY DEF Norm, Meta

LEMMA StillHeard ==
  ASSUME AllTold, Types, Remembered, NEW item \in Items, Heard(item)
  PROVE  Heard(item)'
<1>1. item.of \in Clients
  BY DEF Items
<1> QED BY <1>1 DEF Heard, Remembered

LEMMA PassesHeard ==
  ASSUME Straight, Types, AllTold, NormsHeard, NEW c \in Clients, Passes(c), Remembered
  PROVE  NormsHeard'
<1> SUFFICES ASSUME Undisturbed' PROVE NormsHeard'
  BY DEF NormsHeard
<1>1. Others(c) /\ SameRows(rows, rows') /\ UNCHANGED <<responses, style>> /\ past \subseteq past'
  BY PassesIs
<1>2. Undisturbed
  BY <1>1 DEF Undisturbed
<1>3. ASSUME NEW k \in DOMAIN rows', NEW item \in Range(rows'[k].norm) PROVE Heard(item)'
  <2>1. item \in Range(Norm(rows, k))
    BY <1>1, <1>3 DEF SameRows, Norm
  <2>2. k \in DOMAIN rows /\ item \in Range(rows[k].norm)
    BY <2>1 DEF Norm, Range
  <2>3. item \in Items /\ Heard(item)
    BY <1>2, <2>2 DEF NormsHeard, Types, Table, Row, Range
  <2> QED BY <2>3, StillHeard
<1>4. ASSUME NEW r \in DOMAIN responses', NEW item \in Range(responses'[r].norm) PROVE Heard(item)'
  <2>1. item \in Items /\ Heard(item)
    BY <1>1, <1>2, <1>4 DEF NormsHeard, Types, Bodies, Range
  <2> QED BY <2>1, StillHeard
<1>5. ~cl'[c].refused
  <2>1. ~cl[c].refused
    BY <1>2 DEF NormsHeard
  <2>2. ~Refuse(c)
    BY <1>2, RefuseDoes, NeverEmpty DEF AllTold
  <2> QED BY <2>1, <2>2, ArriveDoes, EnterDoes, PickDoes, RetryFreshDoes, AnswerDoes, FailDoes,
              DisconnectDoes DEF Passes, Asking
<1>6. \A d \in Clients : ~cl'[d].refused
  BY <1>1, <1>2, <1>5 DEF NormsHeard, Others
<1> QED BY <1>3, <1>4, <1>6 DEF NormsHeard

LEMMA SaveHeard ==
  ASSUME Straight, Types, AllTold, NormsHeard, NEW c \in Clients, Save(c), Remembered
  PROVE  NormsHeard'
<1> SUFFICES ASSUME Undisturbed' PROVE NormsHeard'
  BY DEF NormsHeard
<1>1. /\ Others(c) /\ cl'[c].refused = cl[c].refused /\ Stored(c, responses') /\ cl[c].pc # "idle"
      /\ past \subseteq past' /\ Client(cl[c])
  BY SaveDoes DEF Types
<1>2. PICK w : Committed(c, w, 2) /\ Shrunk(w, rows', Peeked(c))
  BY SaveDoes
<1>3. Undisturbed /\ "lost" \notin past'
  BY <1>1 DEF Undisturbed
<1>4. ASSUME NEW item \in Range(cl[c].items) PROVE Heard(item)'
  <2>1. item \in Range(cl[c].msgs) /\ item.of = c
    BY <1>1, ToldNext DEF AllTold
  <2>2. item \in Range(cl'[c].transcript)
    BY <1>3, <2>1, SaveTold DEF AllTold
  <2> QED BY <2>1, <2>2 DEF Heard
<1>5. ASSUME NEW k \in DOMAIN rows', NEW item \in Range(rows'[k].norm) PROVE Heard(item)'
  <2>1. item \in Range(Norm(w, k))
    BY <1>2, <1>5 DEF Shrunk, SameRows, Norm
  <2>2. item \in Range(cl[c].items) \/ item \in Range(Norm(rows, k))
    BY <1>2, <2>1 DEF Committed
  <2>3. CASE item \in Range(Norm(rows, k))
    <3>1. k \in DOMAIN rows /\ item \in Range(rows[k].norm)
      BY <2>3 DEF Norm, Range
    <3>2. item \in Items /\ Heard(item)
      BY <1>3, <3>1 DEF NormsHeard, Types, Table, Row, Range
    <3> QED BY <3>2, StillHeard
  <2> QED BY <1>4, <2>2, <2>3
<1>6. ASSUME NEW r \in DOMAIN responses', NEW item \in Range(responses'[r].norm) PROVE Heard(item)'
  <2>1. item \in Range(cl[c].items) \/ (r \in DOMAIN responses /\ item \in Range(responses[r].norm))
    BY <1>1, <1>6 DEF Stored
  <2>2. CASE r \in DOMAIN responses /\ item \in Range(responses[r].norm)
    <3>1. item \in Items /\ Heard(item)
      BY <1>3, <2>2 DEF NormsHeard, Types, Bodies, Range
    <3> QED BY <3>1, StillHeard
  <2> QED BY <1>4, <2>1, <2>2
<1>7. \A d \in Clients : ~cl'[d].refused
  BY <1>1, <1>3 DEF NormsHeard, Others
<1> QED BY <1>5, <1>6, <1>7 DEF NormsHeard

LEMMA NextHeard ==
  ASSUME Straight, Types, AllTold, NormsHeard, [Next]_vars
  PROVE  NormsHeard'
<1>1. Remembered
  BY NextRemembered
<1>2. ASSUME NEW c \in Clients, Kill(c) PROVE NormsHeard'
  <2>1. ~Undisturbed'
    BY <1>2, KillDoes DEF Restarts, Undisturbed
  <2> QED BY <2>1 DEF NormsHeard
<1>3. CASE Restart
  <2> SUFFICES ASSUME Undisturbed' PROVE NormsHeard'
    BY DEF NormsHeard
  <2>1. Restarts(rows, {"restart"})
    BY <1>3, RestartDoes
  <2>2. Undisturbed
    BY <2>1 DEF Restarts, Undisturbed
  <2>3. ASSUME NEW k \in DOMAIN rows', NEW item \in Range(rows'[k].norm) PROVE Heard(item)'
    <3>1. k \in DOMAIN rows /\ item \in Range(rows[k].norm)
      BY <2>1, <2>3 DEF Restarts
    <3>2. item \in Items /\ Heard(item)
      BY <2>2, <3>1 DEF NormsHeard, Types, Table, Row, Range
    <3> QED BY <1>1, <3>2, StillHeard
  <2>4. ASSUME NEW r \in DOMAIN responses', NEW item \in Range(responses'[r].norm) PROVE Heard(item)'
    <3>1. r \in DOMAIN responses /\ item \in Range(responses[r].norm)
      BY <2>1, <2>4 DEF Restarts
    <3>2. item \in Items /\ Heard(item)
      BY <2>2, <3>1 DEF NormsHeard, Types, Bodies, Range
    <3> QED BY <1>1, <3>2, StillHeard
  <2>5. \A d \in Clients : ~cl'[d].refused
    BY <2>1, <2>2 DEF NormsHeard, Restarts
  <2> QED BY <2>3, <2>4, <2>5 DEF NormsHeard
<1>4. CASE UNCHANGED vars
  BY <1>4 DEF vars, NormsHeard, Undisturbed, Heard
<1> QED BY <1>1, <1>2, <1>3, <1>4, PassesHeard, SaveHeard DEF Next, Passes

LEMMA InitTold == Init => AllTold /\ NormsHeard
<1> SUFFICES ASSUME Init PROVE AllTold /\ NormsHeard
  OBVIOUS
<1>1. IsInjective(<<>>) /\ Len(<<>>) = 2 * 0 /\ Range(<<>>) = {}
  BY DEF IsInjective, Range
<1>2. \A c \in Clients : /\ cl[c].transcript = <<>> /\ cl[c].last = NoRid /\ cl[c].pc = "idle"
                         /\ ~cl[c].refused
  BY DEF Init
<1>3. \A c \in Clients : Rounds(c, <<>>)
  BY <1>1 DEF Rounds
<1> QED BY <1>2, <1>3 DEF Init, AllTold, Told, NormsHeard

LEMMA AlwaysTold == ASSUME Straight PROVE Spec => [](Types /\ AllTold /\ NormsHeard)
<1> DEFINE I == Types /\ AllTold /\ NormsHeard
<1>1. Init => I
  BY InitTypes, InitTold
<1>2. I /\ [Next]_vars => I'
  BY NextTypes, NextRemembered, NextHeard
<1> QED BY <1>1, <1>2, PTL DEF Spec

\* A request with a new message is never refused as empty, whatever the clients
\* send and share, as long as they neither repeat a message nor fork a chain.
THEOREM NewMessagesHeard == ASSUME Straight PROVE Spec => []NewMessagesPass
<1>1. NormsHeard => NewMessagesPass
  BY DEF NormsHeard, Undisturbed, NewMessagesPass
<1> QED BY <1>1, AlwaysTold, PTL
-----------------------------------------------------------------------------
(* Whose rows and responses they are, when clients do not send back ids of   *)
(* replies and each uses one API: those of a conversation that is named, or   *)
(* of the requests of one client.                                            *)

Plain == \A s \in Scenes : \A c \in Clients : s[c].by # "reply" /\ s[c].api # "both"

\* The rows a client in the style y may use with its first n requests
Belongs(c, y, n, k) ==
  IF y.by = "own" THEN k = ConvKey(<<y.conv>>)
  ELSE \E m \in 0..n : k \in {<<"resp", <<c, m>>>>, <<"peek", <<c, m>>>>, <<"pending", <<c, m>>>>}

\* A request in flight
Standing(c, y, x) ==
  /\ x.api = y.api
  /\ y.by = "own" => x.conv = <<y.conv>> /\ x.prev = NoRid
  /\ y.by = "prev" => x.conv = NoId /\ x.prev = x.last
  /\ x.items = IF y.input = "string" /\ y.by = "prev" /\ x.last = NoRid THEN <<>>
               ELSE IF y.input = "full" THEN x.msgs ELSE <<NextUser(c, x.transcript)>>
  /\ Belongs(c, y, x.sent, x.peek)
  /\ x.items = <<>> => x.peek = <<"resp", <<c, x.sent>>>>

\* Where it goes
Goes(c, y, x, saved, k) ==
  /\ Belongs(c, y, x.sent, k)
  /\ y.by = "prev" => k = IF x.prev \in DOMAIN saved THEN saved[x.prev].state ELSE <<"resp", <<c, x.sent>>>>

Entered(x) == x.pc \in {"entered", "turn", "answered"}

Placed(c, y, x, saved) ==
  /\ x.last # NoRid => \E m \in 0..x.sent : x.last = <<c, m>>
  /\ x.pc # "idle" => Standing(c, y, x)
  /\ Entered(x) => Goes(c, y, x, saved, x.key)

BodiesPlaced(saved) ==
  \A r \in DOMAIN saved : \E c \in Clients : \E m \in 0..cl[c].sent :
    r = <<c, m>> /\ Belongs(c, style[c], cl[c].sent, saved[r].state)

RowsPlaced(keys) == \A k \in keys : \E c \in Clients : Belongs(c, style[c], cl[c].sent, k)

Sorted ==
  /\ \A c \in Clients : Placed(c, style[c], cl[c], responses)
  /\ BodiesPlaced(responses) /\ RowsPlaced(DOMAIN rows)

LEMMA StyleIs ==
  ASSUME Plain, Types, NEW c \in Clients
  PROVE  LET y == style[c]
         IN  /\ y.by = "own" \/ y.by = "prev"
             /\ y.api = "chat" \/ y.api = "responses"
             /\ y.api = "chat" => y.input = "full" /\ y.by = "own"
             /\ Apis(c) = {y.api}
BY ResponsesAssumption DEF Plain, Types, Apis

LEMMA BelongsStill ==
  ASSUME NEW c, NEW y, NEW n \in Nat, NEW m \in Nat, n <= m, NEW k, Belongs(c, y, n, k)
  PROVE  Belongs(c, y, m, k)
BY DEF Belongs

\* Clients do not meet but in a conversation both name.
LEMMA Apart ==
  ASSUME NEW c, NEW d, c # d, NEW y, NEW z, NEW n, NEW m, NEW k,
         y.by = "own" /\ z.by = "own" => y.conv # z.conv,
         Belongs(c, y, n, k)
  PROVE  ~Belongs(d, z, m, k)
<1>1. CASE y.by = "own" /\ z.by = "own"
  <2>1. ConvKey(<<y.conv>>) # ConvKey(<<z.conv>>)
    BY <1>1 DEF ConvKey
  <2> QED BY <1>1, <2>1 DEF Belongs
<1>2. CASE y.by = "own" /\ z.by # "own"
  <2>1. k[1] = "conv"
    BY <1>2 DEF Belongs, ConvKey
  <2>2. Belongs(d, z, m, k) => k[1] # "conv"
    BY <1>2 DEF Belongs
  <2> QED BY <2>1, <2>2
<1>3. CASE y.by # "own" /\ z.by = "own"
  <2>1. k[1] # "conv"
    BY <1>3 DEF Belongs
  <2>2. Belongs(d, z, m, k) => k[1] = "conv"
    BY <1>3 DEF Belongs, ConvKey
  <2> QED BY <2>1, <2>2
<1>4. CASE y.by # "own" /\ z.by # "own"
  <2>1. k[2][1] = c
    BY <1>4 DEF Belongs
  <2>2. Belongs(d, z, m, k) => k[2][1] = d
    BY <1>4 DEF Belongs
  <2> QED BY <2>1, <2>2
<1> QED BY <1>1, <1>2, <1>3, <1>4

\* Nothing of what there is belongs to the request that comes next.
LEMMA NextIsNew ==
  ASSUME Sorted, Types, NEW c \in Clients, style[c].by = "prev"
  PROVE  LET n == cl[c].sent + 1
         IN  <<"resp", <<c, n>>>> \notin DOMAIN rows /\ <<c, n>> \notin DOMAIN responses
<1> DEFINE n == cl[c].sent + 1
           k == <<"resp", <<c, n>>>>
<1>1. \A d \in Clients : cl[d].sent \in Nat
  BY ResponsesAssumption DEF Types, Client
<1>2. ASSUME NEW d \in Clients, Belongs(d, style[d], cl[d].sent, k) PROVE FALSE
  <2>1. style[d].by # "own"
    BY <1>2 DEF Belongs, ConvKey
  <2>2. PICK m \in 0..cl[d].sent : k \in {<<"resp", <<d, m>>>>, <<"peek", <<d, m>>>>, <<"pending", <<d, m>>>>}
    BY <1>2, <2>1 DEF Belongs
  <2>3. d = c /\ m = n
    BY <2>2
  <2> QED BY <1>1, <2>2, <2>3
<1>3. k \notin DOMAIN rows
  BY <1>2 DEF Sorted, RowsPlaced
<1>4. ASSUME <<c, n>> \in DOMAIN responses PROVE FALSE
  <2>1. PICK d \in Clients : \E m \in 0..cl[d].sent : <<c, n>> = <<d, m>>
    BY <1>4 DEF Sorted, BodiesPlaced
  <2> QED BY <1>1, <2>1
<1> QED BY <1>3, <1>4

\* What a step leaves in place: who asked before, and what was there
LEMMA StillPlaced ==
  ASSUME Types, Sorted, UNCHANGED style, \A c \in Clients : cl'[c].sent \in Nat /\ cl[c].sent <= cl'[c].sent
  PROVE  /\ \A ks : ks \subseteq DOMAIN rows => RowsPlaced(ks)'
         /\ \A r \in DOMAIN responses : \E c \in Clients : \E m \in 0..cl'[c].sent :
              r = <<c, m>> /\ Belongs(c, style[c], cl'[c].sent, responses[r].state)
<1>1. \A c \in Clients : cl[c].sent \in Nat
  BY ResponsesAssumption DEF Types, Client
<1>2. ASSUME NEW c \in Clients, NEW k, Belongs(c, style[c], cl[c].sent, k)
      PROVE  Belongs(c, style[c], cl'[c].sent, k)
  BY <1>1, <1>2, BelongsStill
<1>3. ASSUME NEW k \in DOMAIN rows PROVE \E c \in Clients : Belongs(c, style[c], cl'[c].sent, k)
  BY <1>2 DEF Sorted, RowsPlaced
<1>4. ASSUME NEW r \in DOMAIN responses
      PROVE  \E c \in Clients : \E m \in 0..cl'[c].sent :
               r = <<c, m>> /\ Belongs(c, style[c], cl'[c].sent, responses[r].state)
  <2>1. PICK c \in Clients : \E m \in 0..cl[c].sent : r = <<c, m>> /\ Belongs(c, style[c], cl[c].sent, responses[r].state)
    BY DEF Sorted, BodiesPlaced
  <2>2. PICK m \in 0..cl[c].sent : r = <<c, m>> /\ Belongs(c, style[c], cl[c].sent, responses[r].state)
    BY <2>1
  <2>3. m \in 0..cl'[c].sent
    BY <1>1
  <2> QED BY <1>2, <2>2, <2>3
<1>5. \A ks : ks \subseteq DOMAIN rows => RowsPlaced(ks)'
  BY <1>3 DEF RowsPlaced
<1> QED BY <1>4, <1>5

\* A step of c that saves nothing: c is in its place, and so is the row it makes.
LEMMA PassesSorted ==
  ASSUME Types, Sorted, NEW c \in Clients, Others(c), UNCHANGED <<responses, style>>,
         cl'[c].sent \in Nat, cl[c].sent <= cl'[c].sent,
         Placed(c, style[c], cl'[c], responses),
         \A k \in DOMAIN rows' \ DOMAIN rows : Belongs(c, style[c], cl'[c].sent, k)
  PROVE  Sorted'
<1>1. \A d \in Clients : cl'[d].sent \in Nat /\ cl[d].sent <= cl'[d].sent
  BY ResponsesAssumption DEF Types, Client, Others
<1>2. \A d \in Clients : Placed(d, style'[d], cl'[d], responses')
  BY DEF Sorted, Others
<1>3. BodiesPlaced(responses)'
  BY <1>1, StillPlaced DEF BodiesPlaced
<1>4. RowsPlaced(DOMAIN rows)'
  <2>1. ASSUME NEW k \in DOMAIN rows' PROVE \E d \in Clients : Belongs(d, style'[d], cl'[d].sent, k)
    <3>1. CASE k \in DOMAIN rows
      BY <1>1, <3>1, StillPlaced DEF Sorted, RowsPlaced
    <3> QED BY <3>1
  <2> QED BY <2>1 DEF RowsPlaced
<1> QED BY <1>2, <1>3, <1>4 DEF Sorted

\* A client that leaves what it asks
LEMMA LeavesPlaced ==
  ASSUME Types, Sorted, NEW c \in Clients, Remembers(cl[c], cl'[c]), cl'[c].pc = "idle"
  PROVE  Placed(c, style[c], cl'[c], responses)
BY DEF Sorted, Placed, Remembers, Entered

\* A client that goes on with it
LEMMA GoesOnPlaced ==
  ASSUME Types, Sorted, NEW c \in Clients, Asking(cl[c], cl'[c]), cl[c].pc # "idle",
         Entered(cl'[c]) => Goes(c, style[c], cl[c], responses, cl'[c].key)
  PROVE  Placed(c, style[c], cl'[c], responses)
<1> DEFINE x == cl[c]
           y == cl'[c]
<1>1. Placed(c, style[c], x, responses) /\ Asking(x, y)
  BY DEF Sorted
<1> HIDE DEF x, y
<1>2. x.pc # "idle" => Standing(c, style[c], y)
  BY <1>1 DEF Placed, Asking, Remembers, Standing
<1>3. Goes(c, style[c], x, responses, y.key) => Goes(c, style[c], y, responses, y.key)
  BY <1>1 DEF Asking, Remembers, Goes
<1>4. y.last # NoRid => \E m \in 0..y.sent : y.last = <<c, m>>
  BY <1>1 DEF Placed, Asking, Remembers
<1> QED BY <1>2, <1>3, <1>4 DEF Placed, x, y

\* The response a client has read leads to a row of its own.
LEMMA StateOf ==
  ASSUME Sorted, NEW c \in Clients
  PROVE  /\ NoRid \notin DOMAIN responses
         /\ cl[c].last \in DOMAIN responses => Belongs(c, style[c], cl[c].sent, responses[cl[c].last].state)
<1>1. NoRid \notin DOMAIN responses
  <2> SUFFICES ASSUME NoRid \in DOMAIN responses PROVE FALSE
    OBVIOUS
  <2>1. PICK d \in Clients : \E m \in 0..cl[d].sent : NoRid = <<d, m>>
    BY DEF Sorted, BodiesPlaced
  <2>2. PICK m \in 0..cl[d].sent : NoRid = <<d, m>>
    BY <2>1
  <2>3. Len(NoRid) = 0 /\ Len(<<d, m>>) = 2
    BY DEF NoRid
  <2> QED BY <2>2, <2>3
<1>2. ASSUME cl[c].last \in DOMAIN responses
      PROVE  Belongs(c, style[c], cl[c].sent, responses[cl[c].last].state)
  <2>1. PICK m \in 0..cl[c].sent : cl[c].last = <<c, m>>
    BY <1>1, <1>2 DEF Sorted, Placed
  <2>2. PICK d \in Clients : \E n \in 0..cl[d].sent :
          cl[c].last = <<d, n>> /\ Belongs(d, style[d], cl[d].sent, responses[cl[c].last].state)
    BY <1>2 DEF Sorted, BodiesPlaced
  <2>3. d = c
    BY <2>1, <2>2
  <2> QED BY <2>2, <2>3
<1> QED BY <1>1, <1>2

LEMMA ArriveStands ==
  ASSUME Straight, Plain, Types, AllTold, Sorted, NEW c \in Clients, Arrive(c)
  PROVE  Standing(c, style[c], cl'[c])
<1> DEFINE x == cl[c]
           y == cl'[c]
           z == style[c]
<1>1. /\ y.transcript = x.transcript /\ y.last = x.last /\ y.sent = x.sent + 1 /\ y.api \in Apis(c)
      /\ y.conv = ConvId(c) /\ y.peek = PeekKey(c, y)
  BY ArriveDoes
<1>2. /\ y.prev \in PrevIds(c) /\ (y.prev = NoRid \/ y.prev = x.last)
      /\ y.items = IF z.input = "string" /\ y.prev = NoRid /\ ConvId(c) = NoId THEN <<>>
                   ELSE IF z.input = "full" THEN y.msgs ELSE <<NextUser(c, x.transcript)>>
      /\ y.items = <<>> => y.prev = NoRid /\ y.conv = NoId
  BY ArriveAsks DEF AllTold
<1>3. y.api = z.api /\ (z.by = "own" \/ z.by = "prev")
  BY <1>1, StyleIs
<1>4. x.sent \in Nat /\ y.sent \in Nat /\ x.sent <= y.sent /\ y.sent \in 0..y.sent
  BY <1>1, ResponsesAssumption DEF Types, Client
<1>5. z.by = "own" => ConvId(c) = <<z.conv>> /\ ConvId(c) # NoId /\ y.prev = NoRid
  BY <1>2 DEF ConvId, PrevIds, NoId
<1>6. z.by = "prev" => ConvId(c) = NoId /\ y.prev = x.last
  BY <1>2 DEF ConvId, PrevIds, Straight
<1>7. NoRid \notin DOMAIN responses /\ (x.last \in DOMAIN responses => Belongs(c, z, x.sent, responses[x.last].state))
  BY StateOf
<1>8. x.last # NoRid => \E m \in 0..x.sent : x.last = <<c, m>>
  BY DEF Sorted, Placed
<1> HIDE DEF x, y, z
<1>9. Belongs(c, z, y.sent, y.peek)
  <2>1. CASE z.by = "own"
    BY <1>1, <1>5, <2>1 DEF PeekKey, Belongs
  <2>2. CASE z.by = "prev" /\ x.last \in DOMAIN responses
    <3>1. y.peek = responses[x.last].state
      BY <1>1, <1>6, <2>2 DEF PeekKey
    <3> QED BY <1>4, <1>7, <2>2, <3>1, BelongsStill
  <2>3. CASE z.by = "prev" /\ x.last \notin DOMAIN responses /\ x.last # NoRid
    <3>1. y.peek = <<"pending", x.last>>
      BY <1>1, <1>6, <2>3 DEF PeekKey
    <3>2. PICK m \in 0..x.sent : x.last = <<c, m>>
      BY <1>8, <2>3
    <3>3. m \in 0..y.sent
      BY <1>4
    <3> QED BY <2>3, <3>1, <3>2, <3>3 DEF Belongs
  <2>4. CASE z.by = "prev" /\ x.last \notin DOMAIN responses /\ x.last = NoRid
    <3>1. y.peek = <<"resp", <<c, y.sent>>>> \/ y.peek = <<"peek", <<c, y.sent>>>>
      BY <1>1, <1>6, <2>4 DEF PeekKey
    <3> QED BY <1>4, <2>4, <3>1 DEF Belongs
  <2> QED BY <1>3, <2>1, <2>2, <2>3, <2>4
<1>10. y.items = <<>> => y.peek = <<"resp", <<c, y.sent>>>>
  BY <1>1, <1>2, <1>7 DEF PeekKey
<1>11. z.by = "own" => y.conv = <<z.conv>> /\ y.prev = NoRid
  BY <1>1, <1>5
<1>12. z.by = "prev" => y.conv = NoId /\ y.prev = y.last
  BY <1>1, <1>6
<1>13. y.items = IF z.input = "string" /\ z.by = "prev" /\ y.last = NoRid THEN <<>>
                 ELSE IF z.input = "full" THEN y.msgs ELSE <<NextUser(c, y.transcript)>>
  <2>1. CASE z.by = "own"
    BY <1>1, <1>2, <1>5, <2>1
  <2>2. CASE z.by = "prev"
    BY <1>1, <1>2, <1>6, <2>2
  <2> QED BY <1>3, <2>1, <2>2
<1> QED BY <1>3, <1>9, <1>10, <1>11, <1>12, <1>13 DEF Standing, y, z

LEMMA ArriveSorted ==
  ASSUME Straight, Plain, Types, AllTold, Sorted, NEW c \in Clients, Arrive(c)
  PROVE  Sorted'
<1>1. Standing(c, style[c], cl'[c])
  BY ArriveStands
<1>2. /\ Others(c) /\ cl'[c].pc = "waiting" /\ cl'[c].last = cl[c].last /\ cl'[c].sent = cl[c].sent + 1
      /\ UNCHANGED <<responses, style>> /\ Grown(rows, rows', cl'[c].peek)
  BY ArriveDoes
<1>3. cl[c].sent \in Nat /\ cl'[c].sent \in Nat /\ cl[c].sent <= cl'[c].sent
  BY <1>2, ResponsesAssumption DEF Types, Client
<1>4. cl'[c].last # NoRid => \E m \in 0..cl'[c].sent : cl'[c].last = <<c, m>>
  <2>1. \A m \in 0..cl[c].sent : m \in 0..cl'[c].sent
    BY <1>3
  <2> QED BY <1>2, <2>1 DEF Sorted, Placed
<1>5. Placed(c, style[c], cl'[c], responses)
  BY <1>1, <1>2, <1>4 DEF Placed, Entered
<1>6. \A k \in DOMAIN rows' \ DOMAIN rows : Belongs(c, style[c], cl'[c].sent, k)
  BY <1>1, <1>2 DEF Grown, Standing
<1> QED BY <1>2, <1>3, <1>5, <1>6, PassesSorted

LEMMA EnterGoes ==
  ASSUME Plain, Types, Sorted, NEW c \in Clients, cl[c].pc = "waiting"
  PROVE  Goes(c, style[c], cl[c], responses, Resolved(c).key)
<1> DEFINE x == cl[c]
           z == style[c]
           k == Resolved(c).key
<1>1. Standing(c, z, x)
  BY DEF Sorted, Placed
<1>2. /\ z.by = "own" \/ z.by = "prev"
      /\ z.api = "chat" => z.by = "own"
  BY StyleIs
<1>3. <<z.conv>> # NoId
  BY DEF NoId
<1>4. CASE z.by = "own"
  <2>1. x.items # <<>>
    <3>1. <<NextUser(c, x.transcript)>> # <<>>
      OBVIOUS
    <3>2. x.msgs # <<>>
      BY DEF Types, Client
    <3> QED BY <1>1, <1>4, <3>1, <3>2 DEF Standing
  <2>2. k = ConvKey(<<z.conv>>)
    BY <1>1, <1>3, <1>4, <2>1 DEF Standing, Resolved
  <2> QED BY <1>4, <2>2 DEF Goes, Belongs
<1>5. CASE z.by = "prev"
  <2>1. x.api # "chat" /\ x.conv = NoId /\ x.prev = x.last /\ Belongs(c, z, x.sent, x.peek)
        /\ (x.items = <<>> => x.peek = <<"resp", <<c, x.sent>>>>)
    BY <1>1, <1>2, <1>5 DEF Standing
  <2>2. NoRid \notin DOMAIN responses /\ (x.last \in DOMAIN responses => Belongs(c, z, x.sent, responses[x.last].state))
    BY StateOf
  <2>3. x.sent \in 0..x.sent
    BY ResponsesAssumption DEF Types, Client
  <2>4. CASE x.items = <<>>
    <3>1. k = <<"resp", <<c, x.sent>>>>
      BY <2>1, <2>4 DEF Resolved
    <3>2. x.last = NoRid
      <4>1. <<NextUser(c, x.transcript)>> # <<>>
        OBVIOUS
      <4>2. x.msgs # <<>>
        BY DEF Types, Client
      <4> QED BY <1>1, <2>4, <4>1, <4>2 DEF Standing
    <3> QED BY <2>1, <2>2, <2>4, <3>1, <3>2 DEF Goes
  <2>5. CASE x.items # <<>> /\ x.prev \in DOMAIN responses
    <3>1. k = responses[x.prev].state
      BY <2>1, <2>5 DEF Resolved
    <3> QED BY <2>1, <2>2, <2>5, <3>1 DEF Goes
  <2>6. CASE x.items # <<>> /\ x.prev \notin DOMAIN responses
    <3>1. k = <<"resp", <<c, x.sent>>>>
      BY <2>1, <2>6 DEF Resolved, Request
    <3> QED BY <1>5, <2>3, <2>6, <3>1 DEF Goes, Belongs
  <2> QED BY <2>4, <2>5, <2>6
<1> QED BY <1>2, <1>4, <1>5

\* The steps between arrival and save
LEMMA TurnSorted ==
  ASSUME Plain, Types, Sorted, NEW c \in Clients, Passes(c), ~Arrive(c)
  PROVE  Sorted'
<1>1. Others(c) /\ UNCHANGED <<responses, style>>
  BY PassesIs
<1>2. cl[c].sent \in Nat
  BY ResponsesAssumption DEF Types, Client
<1>3. CASE Enter(c)
  <2>1. /\ Asking(cl[c], cl'[c]) /\ cl[c].pc = "waiting" /\ cl'[c].key = Resolved(c).key
        /\ rows' = rows \/ Grown(rows, rows', cl'[c].key)
    BY <1>3, EnterDoes
  <2>2. Goes(c, style[c], cl[c], responses, cl'[c].key)
    BY <2>1, EnterGoes
  <2>3. Placed(c, style[c], cl'[c], responses)
    BY <2>1, <2>2, GoesOnPlaced
  <2>4. \A k \in DOMAIN rows' \ DOMAIN rows : Belongs(c, style[c], cl[c].sent, k)
    BY <2>1, <2>2 DEF Grown, Goes
  <2> QED BY <1>1, <1>2, <2>1, <2>3, <2>4, PassesSorted DEF Asking, Remembers
<1>4. CASE Pick(c) \/ RetryFresh(c) \/ Answer(c)
  <2>1. /\ Asking(cl[c], cl'[c]) /\ cl[c].pc # "idle" /\ Entered(cl[c]) /\ cl'[c].key = cl[c].key
        /\ DOMAIN rows' \subseteq DOMAIN rows \cup {cl[c].key}
    <3>1. Pick(c) => DOMAIN rows' \subseteq DOMAIN rows \cup {cl[c].key}
      BY PickDoes DEF Grown, Shrunk
    <3> QED BY <1>4, <3>1, PickDoes, RetryFreshDoes, AnswerDoes DEF Entered
  <2>2. Goes(c, style[c], cl[c], responses, cl[c].key)
    BY <2>1 DEF Sorted, Placed
  <2>3. Placed(c, style[c], cl'[c], responses)
    BY <2>1, <2>2, GoesOnPlaced
  <2>4. \A k \in DOMAIN rows' \ DOMAIN rows : Belongs(c, style[c], cl[c].sent, k)
    BY <2>1, <2>2 DEF Goes
  <2> QED BY <1>1, <1>2, <2>1, <2>3, <2>4, PassesSorted DEF Asking, Remembers
<1>5. CASE Refuse(c) \/ Fail(c) \/ Disconnect(c)
  <2>1. Remembers(cl[c], cl'[c]) /\ cl'[c].pc = "idle" /\ DOMAIN rows' \subseteq DOMAIN rows
    BY <1>5, RefuseDoes, FailDoes, DisconnectDoes DEF Shrunk
  <2>2. Placed(c, style[c], cl'[c], responses)
    BY <2>1, LeavesPlaced
  <2> QED BY <1>1, <1>2, <2>1, <2>2, PassesSorted DEF Remembers
<1> QED BY <1>3, <1>4, <1>5 DEF Passes

LEMMA SaveSorted ==
  ASSUME Plain, Types, Sorted, NEW c \in Clients, Save(c)
  PROVE  Sorted'
<1> DEFINE n == cl[c].sent
<1>1. /\ Others(c) /\ cl[c].pc = "answered" /\ cl'[c].pc = "idle" /\ Stored(c, responses')
      /\ UNCHANGED style
      /\ \/ cl'[c].last = <<c, n>> /\ cl'[c].sent = n
         \/ Remembers(cl[c], cl'[c])
  BY SaveDoes DEF Reads, Request
<1>2. DOMAIN rows' \subseteq DOMAIN rows \cup {cl[c].key}
  <2>1. PICK w : Committed(c, w, 2) /\ Shrunk(w, rows', Peeked(c))
    BY SaveDoes
  <2> QED BY <2>1 DEF Committed, Shrunk
<1>3. n \in Nat /\ cl'[c].sent = n /\ n \in 0..n
  BY <1>1, ResponsesAssumption DEF Types, Client, Remembers
<1>4. Goes(c, style[c], cl[c], responses, cl[c].key)
  BY <1>1 DEF Sorted, Placed, Entered
<1>5. \A d \in Clients : cl'[d].sent \in Nat /\ cl[d].sent <= cl'[d].sent
  BY <1>1, <1>3, ResponsesAssumption DEF Types, Client, Others
<1>6. Placed(c, style[c], cl'[c], responses')
  <2>1. cl'[c].last # NoRid => \E m \in 0..n : cl'[c].last = <<c, m>>
    BY <1>1, <1>3 DEF Remembers, Sorted, Placed
  <2> QED BY <1>1, <1>3, <2>1 DEF Placed, Entered
<1>7. ASSUME NEW d \in Clients \ {c} PROVE Placed(d, style[d], cl'[d], responses')
  <2>1. cl'[d] = cl[d] /\ Placed(d, style[d], cl[d], responses)
    BY <1>1 DEF Others, Sorted
  <2>2. cl[d].last # <<c, n>>
    <3>1. Len(NoRid) = 0 /\ Len(<<c, n>>) = 2
      BY DEF NoRid
    <3>2. cl[d].last = NoRid \/ \E m \in 0..cl[d].sent : cl[d].last = <<d, m>>
      BY <2>1 DEF Placed
    <3> QED BY <3>1, <3>2
  <2>3. /\ cl[d].last \in DOMAIN responses' <=> cl[d].last \in DOMAIN responses
        /\ cl[d].last \in DOMAIN responses => responses'[cl[d].last] = responses[cl[d].last]
    BY <1>1, <2>2 DEF Stored, Request
  <2>4. CASE ~Entered(cl[d])
    BY <2>1, <2>4 DEF Placed
  <2>5. CASE Entered(cl[d]) /\ style[d].by = "prev"
    <3>1. cl[d].prev = cl[d].last
      BY <2>1, <2>5 DEF Placed, Entered, Standing
    <3>2. Goes(d, style[d], cl[d], responses, cl[d].key)
      BY <2>1, <2>5 DEF Placed
    <3>3. Goes(d, style[d], cl[d], responses', cl[d].key)
      BY <2>3, <3>1, <3>2 DEF Goes
    <3> QED BY <2>1, <3>3 DEF Placed
  <2>6. CASE Entered(cl[d]) /\ style[d].by # "prev"
    BY <2>1, <2>6 DEF Placed, Goes
  <2> QED BY <2>4, <2>5, <2>6
<1>8. BodiesPlaced(responses)'
  <2>1. ASSUME NEW r \in DOMAIN responses'
        PROVE  \E d \in Clients : \E m \in 0..cl'[d].sent :
                 r = <<d, m>> /\ Belongs(d, style[d], cl'[d].sent, responses'[r].state)
    <3>1. CASE r \in DOMAIN responses /\ responses'[r] = responses[r]
      BY <1>1, <1>5, <3>1, StillPlaced
    <3>2. CASE r = <<c, n>> /\ responses'[r].state = cl[c].key
      BY <1>3, <1>4, <3>2 DEF Goes
    <3> QED BY <1>1, <3>1, <3>2 DEF Stored, Request
  <2> QED BY <1>1, <2>1 DEF BodiesPlaced
<1>9. RowsPlaced(DOMAIN rows)'
  <2>1. ASSUME NEW k \in DOMAIN rows' PROVE \E d \in Clients : Belongs(d, style[d], cl'[d].sent, k)
    <3>1. CASE k \in DOMAIN rows
      <4>1. RowsPlaced(DOMAIN rows) /\ Belongs(c, style[c], n, cl[c].key)
        BY <1>4 DEF Sorted, Goes
      <4>2. PICK d \in Clients : Belongs(d, style[d], cl[d].sent, k)
        BY <3>1, <4>1 DEF RowsPlaced
      <4>3. cl[d].sent \in Nat
        BY ResponsesAssumption DEF Types, Client
      <4> QED BY <1>5, <4>2, <4>3, BelongsStill
    <3>2. CASE k = cl[c].key
      BY <1>3, <1>4, <3>2 DEF Goes
    <3> QED BY <1>2, <3>1, <3>2
  <2> QED BY <1>1, <2>1 DEF RowsPlaced
<1> QED BY <1>1, <1>6, <1>7, <1>8, <1>9 DEF Sorted

LEMMA RestartSorted ==
  ASSUME Plain, Types, Sorted, NEW table, NEW marks, Restarts(table, marks),
         \A k \in DOMAIN table \ DOMAIN rows : \E c \in Clients : Belongs(c, style[c], cl[c].sent, k)
  PROVE  Sorted'
<1>1. /\ \A c \in Clients : Remembers(cl[c], cl'[c]) /\ cl'[c].pc = "idle"
      /\ DOMAIN rows' \subseteq DOMAIN table /\ UNCHANGED <<responses, style>>
  BY DEF Restarts
<1>2. \A c \in Clients : cl'[c].sent = cl[c].sent
  BY <1>1 DEF Remembers
<1>3. \A c \in Clients : Placed(c, style[c], cl'[c], responses)
  BY <1>1, LeavesPlaced
<1>4. BodiesPlaced(responses)'
  BY <1>1, <1>2 DEF Sorted, BodiesPlaced
<1>5. RowsPlaced(DOMAIN rows)'
  BY <1>1, <1>2 DEF Sorted, RowsPlaced
<1> QED BY <1>1, <1>3, <1>4, <1>5 DEF Sorted

LEMMA NextSorted ==
  ASSUME Straight, Plain, Types, AllTold, Sorted, [Next]_vars
  PROVE  Sorted'
<1>1. ASSUME NEW c \in Clients, Passes(c) PROVE Sorted'
  BY <1>1, ArriveSorted, TurnSorted
<1>2. ASSUME NEW c \in Clients, Save(c) PROVE Sorted'
  BY <1>2, SaveSorted
<1>3. ASSUME NEW c \in Clients, Kill(c) PROVE Sorted'
  <2>1. \E n \in 1..2 : \E w : Committed(c, w, n) /\ Restarts(w, {"restart", "kill"})
    BY <1>3, KillDoes
  <2> PICK n \in 1..2 : \E w : Committed(c, w, n) /\ Restarts(w, {"restart", "kill"})
    BY <2>1
  <2>4. PICK w : Committed(c, w, n) /\ Restarts(w, {"restart", "kill"})
    OBVIOUS
  <2>2. Belongs(c, style[c], cl[c].sent, cl[c].key)
    BY <1>3, KillDoes DEF Sorted, Placed, Entered, Goes
  <2>3. \A k \in DOMAIN w \ DOMAIN rows : \E d \in Clients : Belongs(d, style[d], cl[d].sent, k)
    BY <2>4, <2>2 DEF Committed
  <2> QED BY <2>4, <2>3, RestartSorted
<1>4. CASE Restart
  <2>1. Restarts(rows, {"restart"})
    BY <1>4, RestartDoes
  <2> QED BY <2>1, RestartSorted
<1>5. CASE UNCHANGED vars
  BY <1>5 DEF vars, Sorted, BodiesPlaced, RowsPlaced
<1> QED BY <1>1, <1>2, <1>3, <1>4, <1>5 DEF Next, Passes

LEMMA InitSorted == Init => Sorted
<1> SUFFICES ASSUME Init PROVE Sorted
  OBVIOUS
<1>1. DOMAIN rows = {} /\ DOMAIN responses = {}
  BY DEF Init
<1>2. \A c \in Clients : cl[c].last = NoRid /\ cl[c].pc = "idle"
  BY DEF Init
<1> QED BY <1>1, <1>2 DEF Sorted, Placed, Entered, BodiesPlaced, RowsPlaced

-----------------------------------------------------------------------------
(* A client alone in its conversation, or with a chain of its own.  What its *)
(* row holds is the history it has seen, until a purge takes it.             *)

Calm == past \cap {"lost", "kill", "resume"} = {}

\* A chat whose row is purged goes on with the messages of its user alone.
ChatsShared ==
  "purge" \in Events =>
    \A s \in Scenes : \A c \in Clients : s[c].api = "chat" =>
      \E d \in Clients \ {c} : s[d].by = "own" /\ s[d].conv = s[c].conv

\* t is what norm says, and a reply
Fronted(norm, t) == \E reply \in Items : t = Append(norm, reply) /\ ~IsUserItem(reply)

Intact(y, purged) == ~purged \/ (y.by = "own" /\ y.input = "full")

OwnRow(y, x, meta, norm, purged) ==
  /\ meta = x.transcript \/ (meta = <<>> /\ purged)
  /\ y.input = "full" /\ y.api = "responses" /\ meta # <<>> => Fronted(norm, x.transcript)

Chained(c, y, x, table, saved, purged) ==
  LET k == ConvKey(<<y.conv>>)
  IN  /\ x.last # NoRid => x.transcript # <<>> /\ (y.api = "responses" => x.last \in DOMAIN saved)
      /\ y.by = "own" /\ y.api = "responses" /\ x.last # NoRid => saved[x.last].state = k
      /\ y.by = "prev" /\ y.input = "full" /\ x.last # NoRid => Fronted(saved[x.last].norm, x.transcript)
      /\ y.by = "prev" /\ x.pc # "idle" /\ x.prev = NoRid => Meta(table, <<"resp", <<c, x.sent>>>>) = <<>>
      /\ Intact(y, purged) =>
           /\ y.by = "own" => OwnRow(y, x, Meta(table, k), Norm(table, k), purged)
           /\ y.by = "prev" /\ x.last # NoRid => Meta(table, saved[x.last].state) = x.transcript
           /\ x.pc = "entered" => Meta(table, x.key) \o x.turns = x.msgs
           /\ x.pc \in {"turn", "answered"} => x.meta \o x.turns = x.msgs

AllChained ==
  Calm => \A c \in Clients :
            Alone(c) => Chained(c, style[c], cl[c], rows, responses, "purge" \in past)

\* The same rows and the same response are the same history.
LEMMA ChainedStays ==
  ASSUME NEW c, NEW y, NEW x, NEW t, NEW s, NEW w, NEW v, NEW p, Chained(c, y, x, t, s, p),
         y.by = "own" \/ y.by = "prev", y.by = "prev" => y.api = "responses", x.sent \in Nat,
         \A k : Belongs(c, y, x.sent, k) => Meta(w, k) = Meta(t, k) /\ Norm(w, k) = Norm(t, k),
         x.last \in DOMAIN s =>
           x.last \in DOMAIN v /\ v[x.last] = s[x.last] /\ Belongs(c, y, x.sent, s[x.last].state),
         Entered(x) => Belongs(c, y, x.sent, x.key)
  PROVE  Chained(c, y, x, w, v, p)
<1> DEFINE k == ConvKey(<<y.conv>>)
<1>1. y.by = "own" => Meta(w, k) = Meta(t, k) /\ Norm(w, k) = Norm(t, k)
  BY DEF Belongs
<1>2. y.by = "prev" => Meta(w, <<"resp", <<c, x.sent>>>>) = Meta(t, <<"resp", <<c, x.sent>>>>)
  <2>1. x.sent \in 0..x.sent
    OBVIOUS
  <2> QED BY <2>1 DEF Belongs
<1>3. x.last \in DOMAIN s => Meta(w, v[x.last].state) = Meta(t, s[x.last].state)
  OBVIOUS
<1>4. x.pc = "entered" => Meta(w, x.key) = Meta(t, x.key)
  BY DEF Entered
<1> QED BY <1>1, <1>2, <1>3, <1>4 DEF Chained

\* Of the items of a request its norm, which is all but the reply, leaves the
\* message that is new.
LEMMA UnseenNext ==
  ASSUME Types, AllTold, Sorted, NEW c \in Clients, cl[c].pc # "idle", NEW norm \in Seq(Items),
         NextUser(c, cl[c].transcript) \notin Range(norm), cl[c].items # <<>>,
         style[c].input = "full" => Fronted(norm, cl[c].transcript)
  PROVE  Unseen(norm, cl[c].items) = <<NextUser(c, cl[c].transcript)>>
<1> DEFINE x == cl[c]
           y == style[c]
           u == NextUser(c, x.transcript)
<1>1. u \in Items /\ IsUserItem(u) /\ x.msgs = Append(x.transcript, u) /\ Standing(c, y, x)
  BY ToldNext DEF AllTold, Sorted, Placed
<1>2. CASE y.input = "full"
  <2>1. PICK reply \in Items : x.transcript = Append(norm, reply) /\ ~IsUserItem(reply)
    BY <1>2 DEF Fronted
  <2>2. x.items = Append(Append(norm, reply), u)
    BY <1>1, <1>2, <2>1 DEF Standing
  <2> QED BY <1>1, <2>1, <2>2, OneUnseen
<1>3. CASE y.input # "full"
  <2>1. x.items = <<u>>
    BY <1>1, <1>3 DEF Standing
  <2> QED BY <1>1, <2>1, OneUnseen
<1> QED BY <1>2, <1>3

\* What Gemini has and what is sent to it are what the client has sent and got.
LEMMA EnterAdds ==
  ASSUME Plain, Types, AllTold, NormsHeard, Sorted, Undisturbed, NEW c \in Clients, cl[c].pc = "waiting",
         NEW p, style[c].api = "chat" => ~p, Intact(style[c], p),
         Chained(c, style[c], cl[c], rows, responses, p)
  PROVE  Meta(rows, Resolved(c).key) \o Resolved(c).turns = cl[c].msgs
<1> DEFINE x == cl[c]
           y == style[c]
           k == ConvKey(<<y.conv>>)
           u == NextUser(c, x.transcript)
           key == Resolved(c).key
           turns == Resolved(c).turns
<1> SUFFICES Meta(rows, key) \o turns = x.msgs
  OBVIOUS
<1>1. /\ x.transcript \in Seq(Items) /\ x.items \in Seq(Items) /\ x.pc = "waiting"
      /\ x.prev = NoRid \/ x.prev = x.last
      /\ x.last = NoRid => x.transcript = <<>>
  BY DEF Types, Client, AllTold, Told, OneMore
<1>2. u \in Items /\ IsUserItem(u) /\ x.msgs = Append(x.transcript, u)
  BY ToldNext DEF AllTold
<1>3. Standing(c, y, x) /\ Goes(c, y, x, responses, key)
  BY EnterGoes DEF Sorted, Placed
<1>4. /\ y.by = "own" \/ y.by = "prev"
      /\ y.api = "chat" \/ y.api = "responses"
      /\ y.api = "chat" => y.input = "full" /\ y.by = "own"
  BY StyleIs
<1>5. /\ \A j \in DOMAIN rows : u \notin Range(rows[j].norm)
      /\ \A r \in DOMAIN responses : u \notin Range(responses[r].norm)
  BY NewNotInNorms DEF AllTold
<1>6. /\ \A j \in DOMAIN rows : rows[j].norm \in Seq(Items)
      /\ \A r \in DOMAIN responses : responses[r].norm \in Seq(Items)
  BY DEF Types, Table, Row, Bodies
<1>7. <<>> \o <<u>> = <<u>> /\ x.transcript \o <<u>> = Append(x.transcript, u) /\ <<>> \o x.items = x.items
      /\ Append(<<>>, u) = <<u>>
  BY <1>1, <1>2
<1>8. \/ x.api = "chat" /\ turns = IF Fresh(ConvKey(x.conv)) THEN ItemsToTurns(x.items) ELSE <<u>>
      \/ x.api # "chat" /\ x.items = <<>> /\ turns = <<u>>
      \/ x.api # "chat" /\ x.items # <<>> /\ x.conv # NoId /\ Fresh(ConvKey(x.conv)) /\ turns = x.items
      \/ /\ x.api # "chat" /\ x.items # <<>> /\ x.conv # NoId /\ ~Fresh(ConvKey(x.conv))
         /\ turns = Unseen(rows[ConvKey(x.conv)].norm, x.items)
      \/ /\ x.api # "chat" /\ x.items # <<>> /\ x.conv = NoId /\ x.prev \in DOMAIN responses
         /\ turns = Unseen(responses[x.prev].norm, x.items)
      \/ x.api # "chat" /\ x.items # <<>> /\ x.conv = NoId /\ x.prev \notin DOMAIN responses /\ turns = x.items
  BY <1>1, ResolvedIs DEF AllTold
<1>9. \A norm \in Seq(Items) :
        u \notin Range(norm) /\ (y.input = "full" => Fronted(norm, x.transcript)) /\ x.items # <<>>
        => Unseen(norm, x.items) = <<u>>
  BY UnseenNext
<1>10. Fresh(k) <=> Meta(rows, k) = <<>>
  BY DEF Fresh, Meta
<1>11. ~Fresh(k) => k \in DOMAIN rows /\ Norm(rows, k) = rows[k].norm
  BY DEF Fresh, Norm
<1>12. y.by = "own" => /\ x.conv = <<y.conv>> /\ x.conv # NoId /\ key = k /\ x.api = y.api
                       /\ OwnRow(y, x, Meta(rows, k), Norm(rows, k), p)
  <2>1. <<y.conv>> # NoId
    BY DEF NoId
  <2> QED BY <1>3, <2>1 DEF Standing, Goes, Belongs, Chained
<1>13. ItemsToTurns(<<u>>) = <<u>>
  <2> DEFINE s == <<u>>
  <2>1. s \in Seq(Items) /\ Len(s) = 1 /\ s[1] = u /\ Range(s) = {u}
    BY <1>2 DEF Range
  <2>2. u \in {item \in Range(s) : IsUserItem(item)}
    BY <1>2, <2>1
  <2> HIDE DEF s
  <2>3. ItemsToTurns(s) = <<u>>
    BY <2>1, <2>2, AmongFew DEF ItemsToTurns
  <2> QED BY <2>3 DEF s
<1>14. y.by = "prev" => /\ x.conv = NoId /\ x.prev = x.last /\ x.api = y.api /\ y.api = "responses"
                        /\ x.last # NoRid => /\ x.last \in DOMAIN responses
                                             /\ Meta(rows, responses[x.last].state) = x.transcript
                                             /\ y.input = "full" => Fronted(responses[x.last].norm, x.transcript)
                        /\ x.last = NoRid => Meta(rows, <<"resp", <<c, x.sent>>>>) = <<>>
  BY <1>1, <1>3, <1>4 DEF Standing, Chained
<1>15. NoRid \notin DOMAIN responses
  BY StateOf
<1>16. x.last = NoRid => x.msgs = <<u>> /\ (x.items = <<>> \/ x.items = <<u>>)
  BY <1>1, <1>2, <1>3, <1>7 DEF Standing
<1> HIDE DEF x, y, u, key, turns, k
<1>17. CASE y.by = "own"
  <2>1. CASE y.api = "chat"
    <3>1. x.items = x.msgs /\ Meta(rows, k) = x.transcript
      BY <1>3, <1>4, <1>12, <2>1 DEF Standing, OwnRow, x, y, u
    <3>2. CASE Fresh(k)
      <4>1. x.transcript = <<>> /\ x.items = <<u>>
        BY <1>2, <1>7, <1>10, <3>1, <3>2
      <4>2. turns = <<u>>
        BY <1>8, <1>12, <1>13, <1>17, <2>1, <3>2, <4>1 DEF k
      <4> QED BY <1>2, <1>7, <1>12, <1>17, <3>1, <4>1, <4>2
    <3>3. CASE ~Fresh(k)
      <4>1. turns = <<u>>
        BY <1>8, <1>12, <1>17, <2>1, <3>3 DEF k
      <4> QED BY <1>2, <1>7, <1>12, <1>17, <3>1, <4>1
    <3> QED BY <3>2, <3>3
  <2>2. CASE y.api = "responses"
    <3>1. x.items # <<>> /\ (y.input = "full" => x.items = x.msgs) /\ (y.input # "full" => x.items = <<u>>)
      <4>1. x.msgs # <<>> /\ <<u>> # <<>>
        BY <1>2, <1>1
      <4> QED BY <1>3, <1>17, <4>1 DEF Standing, u
    <3>2. CASE Fresh(k)
      <4>1. turns = x.items /\ Meta(rows, key) = <<>>
        BY <1>8, <1>10, <1>12, <1>17, <2>2, <3>1, <3>2 DEF k
      <4>2. x.items = x.msgs
        <5>1. CASE y.input = "full"
          BY <3>1, <5>1
        <5>2. CASE y.input # "full"
          <6>1. x.transcript = <<>>
            BY <1>10, <1>12, <1>17, <3>2, <5>2 DEF OwnRow, Intact, y
          <6> QED BY <1>2, <1>7, <3>1, <5>2, <6>1
        <5> QED BY <5>1, <5>2
      <4> QED BY <1>7, <4>1, <4>2
    <3>3. CASE ~Fresh(k)
      <4>1. turns = Unseen(rows[k].norm, x.items)
        BY <1>8, <1>12, <1>17, <2>2, <3>1, <3>3 DEF k
      <4>2. Meta(rows, k) = x.transcript /\ (y.input = "full" => Fronted(rows[k].norm, x.transcript))
        BY <1>10, <1>11, <1>12, <1>17, <2>2, <3>3 DEF OwnRow
      <4>3. turns = <<u>>
        BY <1>5, <1>6, <1>9, <1>11, <3>1, <3>3, <4>1, <4>2
      <4> QED BY <1>2, <1>7, <1>12, <1>17, <4>2, <4>3
    <3> QED BY <3>2, <3>3
  <2> QED BY <1>4, <2>1, <2>2
<1>18. CASE y.by = "prev"
  <2>1. CASE x.last = NoRid
    <3>1. Meta(rows, key) = <<>>
      BY <1>3, <1>14, <1>15, <1>18, <2>1 DEF Goes
    <3>2. turns = <<u>>
      BY <1>8, <1>14, <1>15, <1>16, <1>18, <2>1
    <3> QED BY <1>7, <1>16, <2>1, <3>1, <3>2
  <2>2. CASE x.last # NoRid
    <3>1. key = responses[x.last].state
      BY <1>3, <1>14, <1>18, <2>2 DEF Goes
    <3>2. x.items # <<>>
      <4>1. x.msgs # <<>> /\ <<u>> # <<>>
        BY <1>2, <1>1
      <4> QED BY <1>3, <2>2, <4>1 DEF Standing, u
    <3>3. turns = Unseen(responses[x.last].norm, x.items)
      BY <1>8, <1>14, <1>18, <2>2, <3>2
    <3>4. turns = <<u>>
      BY <1>5, <1>6, <1>9, <1>14, <1>18, <2>2, <3>2, <3>3
    <3> QED BY <1>2, <1>7, <1>14, <1>18, <2>2, <3>1, <3>4
  <2> QED BY <2>1, <2>2
<1> QED BY <1>4, <1>17, <1>18

LEMMA SameChained ==
  ASSUME NEW c, NEW y, NEW x, NEW t, NEW s, NEW w, NEW p, Chained(c, y, x, t, s, p), SameRows(t, w)
  PROVE  Chained(c, y, x, w, s, p)
<1>1. \A k : Meta(w, k) = Meta(t, k) /\ Norm(w, k) = Norm(t, k)
  BY DEF SameRows
<1> QED BY <1>1 DEF Chained

\* Where a client stands
LEMMA PlaceOf ==
  ASSUME Plain, Types, Sorted, NEW c \in Clients
  PROVE  LET x == cl[c]
             y == style[c]
         IN  /\ y.by = "own" \/ y.by = "prev"
             /\ y.by = "prev" => y.api = "responses"
             /\ x.sent \in Nat /\ x.last # <<c, x.sent + 1>>
             /\ x.last = NoRid \/ \E m \in 0..x.sent : x.last = <<c, m>>
             /\ x.last \in DOMAIN responses => Belongs(c, y, x.sent, responses[x.last].state)
             /\ Entered(x) => Goes(c, y, x, responses, x.key) /\ Standing(c, y, x)
<1> DEFINE x == cl[c]
           y == style[c]
<1>1. (y.by = "own" \/ y.by = "prev") /\ (y.by = "prev" => y.api = "responses")
  BY StyleIs
<1>2. x.sent \in Nat
  BY ResponsesAssumption DEF Types, Client
<1>3. x.last = NoRid \/ \E m \in 0..x.sent : x.last = <<c, m>>
  BY DEF Sorted, Placed
<1>4. x.last # <<c, x.sent + 1>>
  <2> DEFINE n == x.sent
  <2>1. n \in Nat /\ (x.last = NoRid \/ \E m \in 0..n : x.last = <<c, m>>)
    BY <1>2, <1>3
  <2>2. NoRid # <<c, n + 1>>
    BY DEF NoRid
  <2> HIDE DEF x, n
  <2>3. \A m \in 0..n : <<c, m>> # <<c, n + 1>>
    BY <2>1
  <2>4. x.last # <<c, n + 1>>
    BY <2>1, <2>2, <2>3
  <2> QED BY <2>4 DEF n
<1>5. x.last \in DOMAIN responses => Belongs(c, y, x.sent, responses[x.last].state)
  BY StateOf
<1>6. Entered(x) => Goes(c, y, x, responses, x.key) /\ Standing(c, y, x)
  BY DEF Sorted, Placed, Entered
<1> QED BY <1>1, <1>2, <1>3, <1>4, <1>5, <1>6

\* Others leave the rows and the responses of a client that is alone as they are.
LEMMA OtherChained ==
  ASSUME Plain, Types, Sorted, NEW c \in Clients, NEW d \in Clients \ {c}, Passes(d) \/ Save(d), Alone(c),
         NEW p, Chained(c, style[c], cl[c], rows, responses, p)
  PROVE  Chained(c, style[c], cl[c], rows', responses', p)
<1>1. CASE Passes(d)
  BY <1>1, PassesIs, SameChained
<1>2. CASE Save(d)
  <2> DEFINE x == cl[c]
             y == style[c]
  <2>1. PICK w : Committed(d, w, 2) /\ Shrunk(w, rows', Peeked(d))
    BY <1>2, SaveDoes
  <2>2. Stored(d, responses') /\ Entered(cl[d])
    BY <1>2, SaveDoes DEF Entered
  <2>3. Belongs(d, style[d], cl[d].sent, cl[d].key)
    BY <2>2, PlaceOf DEF Goes
  <2>4. y.by = "own" /\ style[d].by = "own" => y.conv # style[d].conv
    BY DEF Alone
  <2>5. ASSUME NEW k, Belongs(c, y, x.sent, k)
        PROVE  Meta(rows', k) = Meta(rows, k) /\ Norm(rows', k) = Norm(rows, k)
    <3>1. k # cl[d].key
      BY <2>3, <2>4, <2>5, Apart
    <3> QED BY <2>1, <3>1 DEF Committed, Shrunk, SameRows
  <2>6. x.last # Request(d)
    <3>1. Len(NoRid) = 0 /\ Len(Request(d)) = 2 /\ Request(d)[1] = d
      BY DEF NoRid, Request
    <3>2. x.last = NoRid \/ \E m \in 0..x.sent : x.last = <<c, m>>
      BY PlaceOf
    <3> QED BY <3>1, <3>2
  <2>7. x.last \in DOMAIN responses =>
          /\ x.last \in DOMAIN responses' /\ responses'[x.last] = responses[x.last]
          /\ Belongs(c, y, x.sent, responses[x.last].state)
    BY <2>2, <2>6, PlaceOf DEF Stored
  <2>8. /\ y.by = "own" \/ y.by = "prev"
        /\ y.by = "prev" => y.api = "responses"
        /\ x.sent \in Nat
        /\ Entered(x) => Belongs(c, y, x.sent, x.key)
    BY PlaceOf DEF Goes
  <2> HIDE DEF x, y
  <2>9. Chained(c, y, x, rows, responses, p)
    BY DEF x, y
  <2>10. Chained(c, y, x, rows', responses', p)
    BY <2>5, <2>7, <2>8, <2>9, ChainedStays
  <2> QED BY <2>10 DEF x, y
<1> QED BY <1>1, <1>2

\* Its own steps up to the answer
LEMMA OwnChained ==
  ASSUME Straight, Plain, Types, AllTold, NormsHeard, Sorted, Undisturbed, NEW c \in Clients,
         Passes(c), ~RetryFresh(c), NEW p, style[c].api = "chat" => ~p,
         Chained(c, style[c], cl[c], rows, responses, p)
  PROVE  Chained(c, style[c], cl'[c], rows', responses', p)
<1> DEFINE x == cl[c]
           y == style[c]
           z == cl'[c]
<1> SUFFICES Chained(c, y, z, rows', responses', p)
  OBVIOUS
<1>1. SameRows(rows, rows') /\ responses' = responses
  BY PassesIs
<1>2. Chained(c, y, x, rows, responses, p)
  OBVIOUS
<1>3. CASE Arrive(c)
  <2>1. z.transcript = x.transcript /\ z.last = x.last /\ z.sent = x.sent + 1 /\ z.pc = "waiting"
    BY <1>3, ArriveDoes
  <2>2. y.by = "prev" => Meta(rows, <<"resp", <<c, x.sent + 1>>>>) = <<>>
    BY NextIsNew DEF Meta
  <2> HIDE DEF x, y, z
  <2>3. OwnRow(y, z, Meta(rows, ConvKey(<<y.conv>>)), Norm(rows, ConvKey(<<y.conv>>)), p)
          <=> OwnRow(y, x, Meta(rows, ConvKey(<<y.conv>>)), Norm(rows, ConvKey(<<y.conv>>)), p)
    BY <2>1 DEF OwnRow
  <2>4. Chained(c, y, z, rows, responses, p)
    BY <1>2, <2>1, <2>2, <2>3 DEF Chained
  <2> QED BY <1>1, <2>4, SameChained
<1>4. CASE Enter(c)
  <2>1. Asking(x, z) /\ x.pc = "waiting" /\ z.pc = "entered" /\ z.key = Resolved(c).key /\ z.turns = Resolved(c).turns
    BY <1>4, EnterDoes
  <2>2. Intact(y, p) => Meta(rows, z.key) \o z.turns = x.msgs
    BY <2>1, EnterAdds
  <2> HIDE DEF x, y, z
  <2>3. OwnRow(y, z, Meta(rows, ConvKey(<<y.conv>>)), Norm(rows, ConvKey(<<y.conv>>)), p)
          <=> OwnRow(y, x, Meta(rows, ConvKey(<<y.conv>>)), Norm(rows, ConvKey(<<y.conv>>)), p)
    BY <2>1 DEF OwnRow, Asking, Remembers
  <2>4. Chained(c, y, z, rows, responses, p)
    BY <1>2, <2>1, <2>2, <2>3 DEF Chained, Asking, Remembers
  <2> QED BY <1>1, <2>4, SameChained
<1>5. CASE Pick(c) \/ Answer(c)
  <2>1. /\ Asking(x, z) /\ x.pc \in {"entered", "turn"} /\ z.pc \in {"turn", "answered"} /\ z.turns = x.turns
        /\ z.meta = IF x.pc = "entered" THEN Meta(rows, x.key) ELSE x.meta
    BY <1>5, PickDoes, AnswerDoes
  <2> HIDE DEF x, y, z
  <2>3. OwnRow(y, z, Meta(rows, ConvKey(<<y.conv>>)), Norm(rows, ConvKey(<<y.conv>>)), p)
          <=> OwnRow(y, x, Meta(rows, ConvKey(<<y.conv>>)), Norm(rows, ConvKey(<<y.conv>>)), p)
    BY <2>1 DEF OwnRow, Asking, Remembers
  <2>4. Chained(c, y, z, rows, responses, p)
    BY <1>2, <2>1, <2>3 DEF Chained, Asking, Remembers
  <2> QED BY <1>1, <2>4, SameChained
<1>6. CASE Refuse(c) \/ Fail(c) \/ Disconnect(c)
  <2>1. Remembers(x, z) /\ z.pc = "idle"
    BY <1>6, RefuseDoes, FailDoes, DisconnectDoes
  <2> HIDE DEF x, y, z
  <2>3. OwnRow(y, z, Meta(rows, ConvKey(<<y.conv>>)), Norm(rows, ConvKey(<<y.conv>>)), p)
          <=> OwnRow(y, x, Meta(rows, ConvKey(<<y.conv>>)), Norm(rows, ConvKey(<<y.conv>>)), p)
    BY <2>1 DEF OwnRow, Remembers
  <2>4. Chained(c, y, z, rows, responses, p)
    BY <1>2, <2>1, <2>3 DEF Chained, Remembers
  <2> QED BY <1>1, <2>4, SameChained
<1> QED BY <1>3, <1>4, <1>5, <1>6 DEF Passes

\* Its answer
LEMMA SaveChained ==
  ASSUME Plain, Types, AllTold, Sorted, NEW c \in Clients, Save(c), "lost" \notin past',
         NEW p, Chained(c, style[c], cl[c], rows, responses, p)
  PROVE  Chained(c, style[c], cl'[c], rows', responses', p)
<1> DEFINE x == cl[c]
           y == style[c]
           z == cl'[c]
           k == x.key
           reply == Reply(c, Last(x.msgs).n)
<1> SUFFICES Chained(c, y, z, rows', responses', p)
  OBVIOUS
<1>1. /\ Client(x) /\ x.pc = "answered" /\ z.pc = "idle" /\ Entered(x)
      /\ Stored(c, responses')
      /\ z.transcript = Extended(c, x) /\ z.last = Request(c)
  BY SaveDoes DEF Reads, Types, Entered
<1>2. PICK w : Committed(c, w, 2) /\ Shrunk(w, rows', Peeked(c))
  BY SaveDoes
<1>3. /\ Meta(rows', k) = Append(x.meta \o x.turns, reply)
      /\ x.api # "chat" => Norm(rows', k) = x.items
  <2>1. Turned(c, x) = Append(x.meta \o x.turns, reply)
    BY <1>1, TurnedIs
  <2>2. Meta(w, k) = Turned(c, x) /\ (x.api # "chat" => Norm(w, k) = x.items)
    BY <1>2 DEF Committed
  <2>3. Meta(rows', k) = Meta(w, k) /\ Norm(rows', k) = Norm(w, k)
    BY <1>2 DEF Shrunk, SameRows
  <2> QED BY <2>1, <2>2, <2>3
<1>4. Standing(c, y, x) /\ Goes(c, y, x, responses, k)
  BY <1>1, PlaceOf
<1>5. reply \in Items /\ ~IsUserItem(reply) /\ Extended(c, x) = Append(x.msgs, reply) /\ Extended(c, x) # <<>>
  <2>1. reply \in Items
    BY <1>1, TurnedIs
  <2>2. Extended(c, x) # <<>>
    BY <1>1, ExtendedIs
  <2> QED BY <2>1, <2>2 DEF Extended, Reply, IsUserItem
<1>6. y.by = "own" => k = ConvKey(<<y.conv>>)
  BY <1>4 DEF Goes, Belongs
<1>7. /\ y.by = "own" \/ y.by = "prev"
      /\ y.api = "chat" \/ y.api = "responses"
      /\ y.by = "prev" => y.api = "responses"
  BY StyleIs
<1>8. x.api = y.api /\ (y.input = "full" => x.items = x.msgs)
  <2>1. y.api = "chat" => y.input = "full" /\ y.by = "own"
    BY StyleIs
  <2> QED BY <1>4, <2>1 DEF Standing
<1>9. y.api = "responses" => /\ z.last \in DOMAIN responses' /\ responses'[z.last].state = k
                             /\ responses'[z.last].norm = x.items
  BY <1>1, <1>8 DEF Stored
<1>10. Intact(y, p) => Meta(rows', k) = z.transcript
  <2>1. Intact(y, p) => x.meta \o x.turns = x.msgs
    BY <1>1 DEF Chained
  <2> QED BY <1>1, <1>3, <1>5, <2>1
<1> HIDE DEF x, y, z, k, reply
<1>11. y.input = "full" => Fronted(x.items, z.transcript)
  BY <1>1, <1>5, <1>8 DEF Fronted
<1>12. y.by = "own" /\ Intact(y, p) => OwnRow(y, z, Meta(rows', k), Norm(rows', k), p)
  BY <1>3, <1>8, <1>10, <1>11 DEF OwnRow
<1>13. z.transcript # <<>>
  BY <1>1, <1>5
<1> QED BY <1>1, <1>6, <1>7, <1>9, <1>10, <1>11, <1>12, <1>13 DEF Chained

\* A restart, which may purge
LEMMA RestartChained ==
  ASSUME Plain, Types, Sorted, NEW c \in Clients, Restarts(rows, {"restart"}),
         Chained(c, style[c], cl[c], rows, responses, "purge" \in past)
  PROVE  Chained(c, style[c], cl'[c], rows', responses', "purge" \in past')
<1> DEFINE x == cl[c]
           y == style[c]
           z == cl'[c]
           k == ConvKey(<<y.conv>>)
           p == "purge" \in past
           q == "purge" \in past'
<1> SUFFICES Chained(c, y, z, rows', responses', q)
  OBVIOUS
<1>1. Remembers(x, z) /\ z.pc = "idle" /\ responses' = responses /\ (p => q)
  BY DEF Restarts
<1>2. \A j : \/ Meta(rows', j) = Meta(rows, j) /\ Norm(rows', j) = Norm(rows, j)
             \/ Meta(rows', j) = <<>> /\ Norm(rows', j) = <<>> /\ q
  BY DEF Restarts, Meta, Norm
<1>3. Chained(c, y, x, rows, responses, p)
  OBVIOUS
<1>4. y.by = "own" \/ y.by = "prev"
  BY PlaceOf
<1> HIDE DEF x, y, z, p, q
<1>5. Intact(y, q) => Intact(y, p)
  BY <1>1 DEF Intact
<1>6. y.by = "own" /\ Intact(y, q) => OwnRow(y, z, Meta(rows', k), Norm(rows', k), q)
  <2> SUFFICES ASSUME y.by = "own", Intact(y, q) PROVE OwnRow(y, z, Meta(rows', k), Norm(rows', k), q)
    OBVIOUS
  <2>1. OwnRow(y, x, Meta(rows, k), Norm(rows, k), p)
    BY <1>3, <1>5 DEF Chained
  <2> HIDE DEF k
  <2>2. z.transcript = x.transcript
    BY <1>1 DEF Remembers
  <2>3. CASE Meta(rows', k) = Meta(rows, k) /\ Norm(rows', k) = Norm(rows, k)
    BY <1>1, <2>1, <2>2, <2>3 DEF OwnRow
  <2>4. CASE Meta(rows', k) = <<>> /\ q
    BY <2>4 DEF OwnRow
  <2> QED BY <1>2, <2>3, <2>4
<1>7. y.by = "prev" /\ Intact(y, q) => \A j : Meta(rows', j) = Meta(rows, j)
  BY <1>2 DEF Intact
<1>8. z.transcript = x.transcript /\ z.last = x.last
  BY <1>1 DEF Remembers
<1> QED BY <1>1, <1>3, <1>4, <1>5, <1>6, <1>7, <1>8 DEF Chained

Purging == "purge" \in past => "purge" \in Events

LEMMA NextPurging ==
  ASSUME Types, Purging, [Next]_vars
  PROVE  Purging' /\ past \subseteq past' /\ style' = style
<1>1. ASSUME NEW c \in Clients, Passes(c) PROVE Purging' /\ past \subseteq past' /\ style' = style
  <2>1. past' \subseteq past \cup {"refused", "resume", "orphaned", "disconnect"}
    <3>1. Fail(c) => past' \subseteq past \cup {"orphaned"}
      BY FailDoes
    <3> QED BY <1>1, <3>1, ArriveDoes, EnterDoes, RefuseDoes, PickDoes, RetryFreshDoes, AnswerDoes, DisconnectDoes
            DEF Passes
  <2> QED BY <1>1, <2>1, PassesIs DEF Purging
<1>2. ASSUME NEW c \in Clients, Save(c) PROVE Purging' /\ past \subseteq past' /\ style' = style
  <2>1. past' = past \/ past' = past \cup {"lost"}
    BY <1>2, SaveDoes
  <2> QED BY <1>2, <2>1, SaveDoes DEF Purging
<1>3. ASSUME NEW table, NEW marks, Restarts(table, marks), "purge" \notin marks
      PROVE  Purging' /\ past \subseteq past' /\ style' = style
  BY <1>3 DEF Restarts, Purging
<1>4. ASSUME NEW c \in Clients, Kill(c) PROVE Purging' /\ past \subseteq past' /\ style' = style
  <2>1. PICK w : Restarts(w, {"restart", "kill"})
    BY <1>4, KillDoes
  <2> QED BY <1>3, <2>1
<1>5. CASE Restart
  <2>1. Restarts(rows, {"restart"})
    BY <1>5, RestartDoes
  <2> QED BY <1>3, <2>1
<1>6. CASE UNCHANGED vars
  BY <1>6 DEF vars, Purging
<1> QED BY <1>1, <1>2, <1>4, <1>5, <1>6 DEF Next, Passes

LEMMA NextChained ==
  ASSUME Straight, Plain, ChatsShared, Types, AllTold, NormsHeard, Sorted, Purging, AllChained, [Next]_vars
  PROVE  AllChained'
<1> SUFFICES ASSUME Calm', NEW c \in Clients, Alone(c)'
             PROVE  Chained(c, style[c], cl[c], rows, responses, "purge" \in past)'
  BY DEF AllChained
<1> DEFINE p == "purge" \in past
<1>1. style' = style /\ Calm /\ Undisturbed /\ Alone(c)
  <2>1. style' = style /\ past \subseteq past'
    BY NextPurging
  <2> QED BY <2>1 DEF Calm, Undisturbed, Alone
<1>2. Chained(c, style[c], cl[c], rows, responses, p)
  BY <1>1 DEF AllChained
<1>3. style[c].api = "chat" => ~p
  <2> SUFFICES ASSUME style[c].api = "chat", p PROVE FALSE
    OBVIOUS
  <2>1. \E d \in Clients \ {c} : style[d].by = "own" /\ style[d].conv = style[c].conv
    BY DEF Purging, ChatsShared, Types
  <2>2. style[c].by = "own"
    BY StyleIs
  <2> QED BY <1>1, <2>1, <2>2 DEF Alone
<1>4. ASSUME NEW d \in Clients, Passes(d)
      PROVE  Chained(c, style[c], cl'[c], rows', responses', p) /\ p = ("purge" \in past')
  <2>1. "purge" \in past' => p
    <3>1. Fail(d) => past' \subseteq past \cup {"orphaned"}
      BY FailDoes
    <3> QED BY <1>4, <3>1, ArriveDoes, EnterDoes, RefuseDoes, PickDoes, RetryFreshDoes, AnswerDoes, DisconnectDoes
            DEF Passes
  <2>2. p => "purge" \in past'
    BY NextPurging
  <2>3. CASE d = c
    <3>1. ~RetryFresh(c) /\ Passes(c)
      BY <1>4, <2>3, RetryFreshDoes DEF Calm
    <3> HIDE DEF p
    <3>2. Chained(c, style[c], cl'[c], rows', responses', p)
      BY <1>1, <1>2, <1>3, <3>1, OwnChained
    <3> QED BY <2>1, <2>2, <3>2 DEF p
  <2>4. CASE d # c
    <3>1. cl'[c] = cl[c]
      BY <1>4, <2>4, PassesIs DEF Others
    <3>2. Chained(c, style[c], cl[c], rows', responses', p)
      BY <1>1, <1>2, <1>4, <2>4, OtherChained
    <3> QED BY <2>1, <2>2, <3>1, <3>2
  <2> QED BY <2>3, <2>4
<1>5. ASSUME NEW d \in Clients, Save(d)
      PROVE  Chained(c, style[c], cl'[c], rows', responses', p) /\ p = ("purge" \in past')
  <2>1. p = ("purge" \in past') /\ "lost" \notin past'
    BY <1>5, SaveDoes DEF Calm
  <2>2. CASE d = c
    BY <1>2, <1>5, <2>1, <2>2, SaveChained
  <2>3. CASE d # c
    <3>1. cl'[c] = cl[c]
      BY <1>5, <2>3, SaveDoes DEF Others
    <3>2. Chained(c, style[c], cl[c], rows', responses', p)
      BY <1>1, <1>2, <1>5, <2>3, OtherChained
    <3> QED BY <2>1, <3>1, <3>2
  <2> QED BY <2>2, <2>3
<1>6. ASSUME NEW d \in Clients, Kill(d) PROVE FALSE
  <2>1. PICK w : Restarts(w, {"restart", "kill"})
    BY <1>6, KillDoes
  <2> QED BY <2>1 DEF Restarts, Calm
<1>7. CASE Restart
  BY <1>1, <1>2, <1>7, RestartDoes, RestartChained
<1>8. CASE UNCHANGED vars
  BY <1>2, <1>8 DEF vars
<1>9. CASE \E d \in Clients : Passes(d) \/ Save(d)
  BY <1>1, <1>4, <1>5, <1>9
<1> QED BY <1>6, <1>7, <1>8, <1>9 DEF Next, Passes

LEMMA InitChained == Init => AllChained /\ Purging
<1> SUFFICES ASSUME Init PROVE AllChained /\ Purging
  OBVIOUS
<1>1. rows = <<>> /\ DOMAIN rows = {} /\ past = {}
  BY DEF Init
<1>2. \A c \in Clients : cl[c].last = NoRid /\ cl[c].pc = "idle" /\ cl[c].transcript = <<>>
  BY DEF Init
<1>3. \A k : Meta(rows, k) = <<>>
  BY <1>1 DEF Meta
<1> QED BY <1>1, <1>2, <1>3 DEF AllChained, Purging, Chained, OwnRow

LEMMA AlwaysChained ==
  ASSUME Straight, Plain, ChatsShared
  PROVE  Spec => [](Types /\ Sorted /\ AllTold /\ AllChained)
<1> DEFINE I == Types /\ AllTold /\ NormsHeard /\ Sorted /\ Purging /\ AllChained
<1>1. Init => I
  BY InitTypes, InitTold, InitSorted, InitChained
<1>2. I /\ [Next]_vars => I'
  BY NextTypes, NextRemembered, NextHeard, NextSorted, NextPurging, NextChained
<1>3. I => Types /\ Sorted /\ AllTold /\ AllChained
  OBVIOUS
<1> QED BY <1>1, <1>2, <1>3, PTL DEF Spec

\* What Gemini has and what it is sent are together the history of a client that
\* is alone in its conversation or chains its responses, for any number of
\* clients, requests, failures, disconnects and restarts.
THEOREM HistoryIsContext ==
  ASSUME Straight, Plain, ChatsShared
  PROVE  Spec => []ContextIsHistory
<1>1. Types /\ AllChained => ContextIsHistory
  <2> SUFFICES ASSUME Types, AllChained, Calm, NEW c \in Clients, Running(c), Alone(c),
                      "purge" \in past => Complete(c)
               PROVE  cl[c].meta \o cl[c].turns = cl[c].msgs
    BY DEF ContextIsHistory, Calm
  <2>1. Chained(c, style[c], cl[c], rows, responses, "purge" \in past)
    BY DEF AllChained
  <2>2. Intact(style[c], "purge" \in past)
    BY DEF Intact, Complete
  <2> QED BY <2>1, <2>2 DEF Chained, Running
<1> QED BY <1>1, AlwaysChained, PTL

\* The last response a client has read is stored with its row, and the row has the
\* history the client has seen, across restarts.
THEOREM ResponsesContinue ==
  ASSUME Straight, Plain, ChatsShared
  PROVE  Spec => []ResponsesResume
<1>1. Types /\ Sorted /\ AllChained => ResponsesResume
  <2> SUFFICES ASSUME Types, Sorted, AllChained, Calm, "purge" \notin past, NEW c \in Clients, cl[c].pc = "idle",
                      style[c].api = "responses", Alone(c), cl[c].last # NoRid
               PROVE  /\ cl[c].last \in DOMAIN responses
                      /\ responses[cl[c].last].state \in DOMAIN rows
                      /\ rows[responses[cl[c].last].state].meta = cl[c].transcript
    BY DEF ResponsesResume, Calm
  <2> DEFINE x == cl[c]
             y == style[c]
             k == responses[x.last].state
  <2>1. Chained(c, y, x, rows, responses, "purge" \in past)
    BY DEF AllChained
  <2>2. Intact(y, "purge" \in past)
    BY DEF Intact
  <2>3. x.last \in DOMAIN responses /\ x.transcript # <<>>
    BY <2>1 DEF Chained
  <2>4. Meta(rows, k) = x.transcript
    <3>1. CASE y.by = "own"
      BY <2>1, <2>2, <3>1 DEF Chained, OwnRow
    <3>2. CASE y.by = "prev"
      BY <2>1, <2>2, <3>2 DEF Chained
    <3> QED BY <3>1, <3>2, PlaceOf
  <2> QED BY <2>3, <2>4 DEF Meta
<1> QED BY <1>1, AlwaysChained, PTL

-----------------------------------------------------------------------------
(* One request of a conversation at a time.  Those that wait for a row or    *)
(* run behind its lock stand in line; a stream, which has left it, must be    *)
(* alone in its conversation.                                                *)

StreamsAlone ==
  \A s \in Scenes : \A c \in Clients : s[c].stream /\ s[c].by = "own" =>
    \A d \in Clients \ {c} : s[d].by = "own" => s[d].conv # s[c].conv

Queues(y, x) == x.pc \in {"waiting", "entered"} \/ (x.pc \in {"turn", "answered"} /\ ~y.stream)

InLine ==
  /\ Line(line)
  /\ \A e \in Range(line) : e[1] \in Clients /\ Queues(style[e[1]], cl[e[1]])
  /\ \A c \in Clients : Queues(style[c], cl[c]) =>
       /\ style[c].by = "own" => cl[c].peek \in DOMAIN rows /\ <<c, rows[cl[c].peek].lock>> \in Range(line)
       /\ Entered(cl[c]) => FirstOf(line, c)

Serial == "orphaned" \notin past => InLine

\* The rows of conversations for which others stand in line keep their locks.
RowsStay(c) ==
  \A k \in DOMAIN rows :
    k[1] = "conv" /\ (\E e \in Range(line) : e[1] # c /\ e[2] = rows[k].lock)
      => k \in DOMAIN rows' /\ rows'[k].lock = rows[k].lock

\* The row a client of a conversation waits for and goes to
LEMMA OwnKey ==
  ASSUME Sorted, NEW c \in Clients, style[c].by = "own", cl[c].pc # "idle"
  PROVE  /\ cl[c].peek = ConvKey(<<style[c].conv>>) /\ cl[c].peek[1] = "conv"
         /\ Entered(cl[c]) => cl[c].key = cl[c].peek
<1>1. Standing(c, style[c], cl[c]) /\ (Entered(cl[c]) => Goes(c, style[c], cl[c], responses, cl[c].key))
  BY DEF Sorted, Placed
<1>2. /\ Belongs(c, style[c], cl[c].sent, cl[c].peek)
      /\ Entered(cl[c]) => Belongs(c, style[c], cl[c].sent, cl[c].key)
  BY <1>1 DEF Standing, Goes
<1> QED BY <1>2 DEF Belongs, ConvKey

\* The row of a chain is no conversation's.
LEMMA ChainKey ==
  ASSUME Sorted, NEW c \in Clients, style[c].by # "own", cl[c].pc # "idle"
  PROVE  cl[c].peek[1] # "conv" /\ (Entered(cl[c]) => cl[c].key[1] # "conv")
<1>1. Standing(c, style[c], cl[c]) /\ (Entered(cl[c]) => Goes(c, style[c], cl[c], responses, cl[c].key))
  BY DEF Sorted, Placed
<1>2. \A k : Belongs(c, style[c], cl[c].sent, k) => k[1] # "conv"
  BY DEF Belongs
<1> QED BY <1>1, <1>2 DEF Standing, Goes

\* c leaves the line, or has left it.
LEMMA Leaves ==
  ASSUME Sorted, NEW c \in Clients, InLine, Others(c), UNCHANGED style, RowsStay(c),
         ~Queues(style[c], cl'[c]),
         line' = Released(c) \/ (line' = line /\ ~Queues(style[c], cl[c]))
  PROVE  InLine'
<1>1. /\ Line(line') /\ Range(line') = {e \in Range(line) : e[1] # c}
      /\ \A d \in Clients \ {c} : FirstOf(line, d) => FirstOf(line', d)
  <2>1. CASE line' = Released(c)
    BY <2>1, LineLeft DEF InLine, Released
  <2>2. CASE line' = line /\ ~Queues(style[c], cl[c])
    BY <2>2 DEF InLine
  <2> QED BY <2>1, <2>2
<1>2. \A e \in Range(line') : e[1] \in Clients /\ Queues(style[e[1]], cl'[e[1]])
  BY <1>1 DEF InLine, Others
<1>3. ASSUME NEW d \in Clients, Queues(style[d], cl'[d])
      PROVE  /\ style[d].by = "own" => cl'[d].peek \in DOMAIN rows' /\ <<d, rows'[cl'[d].peek].lock>> \in Range(line')
             /\ Entered(cl'[d]) => FirstOf(line', d)
  <2>1. d # c /\ cl'[d] = cl[d] /\ cl[d].pc # "idle"
    BY <1>3 DEF Others, Queues
  <2>2. Entered(cl[d]) => FirstOf(line', d)
    BY <1>1, <1>3, <2>1 DEF InLine
  <2>3. CASE style[d].by = "own"
    <3> DEFINE k == cl[d].peek
    <3>1. k \in DOMAIN rows /\ <<d, rows[k].lock>> \in Range(line) /\ k[1] = "conv"
      BY <1>3, <2>1, <2>3, OwnKey DEF InLine
    <3>2. k \in DOMAIN rows' /\ rows'[k].lock = rows[k].lock
      <4>1. \E e \in Range(line) : e[1] # c /\ e[2] = rows[k].lock
        BY <2>1, <3>1
      <4> QED BY <3>1, <4>1 DEF RowsStay
    <3>3. <<d, rows'[k].lock>> \in Range(line')
      BY <1>1, <2>1, <3>1, <3>2
    <3> QED BY <2>1, <2>2, <3>2, <3>3
  <2> QED BY <2>1, <2>2, <2>3
<1> QED BY <1>1, <1>2, <1>3 DEF InLine

\* c stays where it stands.
LEMMA Stands ==
  ASSUME Sorted, NEW c \in Clients, InLine, Others(c), UNCHANGED <<style, line>>, RowsStay(c),
         Queues(style[c], cl'[c]) <=> Queues(style[c], cl[c]), cl'[c].peek = cl[c].peek,
         Queues(style[c], cl[c]) /\ style[c].by = "own" =>
           cl[c].peek \in DOMAIN rows' /\ rows'[cl[c].peek].lock = rows[cl[c].peek].lock,
         Queues(style[c], cl'[c]) /\ Entered(cl'[c]) => FirstOf(line, c)
  PROVE  InLine'
<1>1. \A d \in Clients : /\ Queues(style[d], cl'[d]) <=> Queues(style[d], cl[d])
                         /\ Queues(style[d], cl[d]) => cl'[d].peek = cl[d].peek
  BY DEF Others
<1>2. ASSUME NEW d \in Clients, Queues(style[d], cl'[d])
      PROVE  /\ style[d].by = "own" => cl'[d].peek \in DOMAIN rows' /\ <<d, rows'[cl'[d].peek].lock>> \in Range(line)
             /\ Entered(cl'[d]) => FirstOf(line, d)
  <2>1. Queues(style[d], cl[d]) /\ cl'[d].peek = cl[d].peek /\ cl[d].pc # "idle"
    BY <1>1, <1>2 DEF Queues
  <2>2. Entered(cl'[d]) => FirstOf(line, d)
    BY <1>2, <2>1 DEF InLine, Others
  <2>3. CASE style[d].by = "own"
    <3> DEFINE k == cl[d].peek
    <3>1. k \in DOMAIN rows /\ <<d, rows[k].lock>> \in Range(line) /\ k[1] = "conv"
      BY <2>1, <2>3, OwnKey DEF InLine
    <3>2. k \in DOMAIN rows' /\ rows'[k].lock = rows[k].lock
      <4>1. CASE d = c
        BY <2>1, <2>3, <4>1
      <4>2. CASE d # c
        <5>1. \E e \in Range(line) : e[1] # c /\ e[2] = rows[k].lock
          BY <3>1, <4>2
        <5> QED BY <3>1, <5>1 DEF RowsStay
      <4> QED BY <4>1, <4>2
    <3> QED BY <2>1, <2>2, <3>1, <3>2
  <2> QED BY <2>1, <2>2, <2>3
<1>3. \A e \in Range(line) : e[1] \in Clients /\ Queues(style[e[1]], cl'[e[1]])
  BY <1>1 DEF InLine
<1> QED BY <1>2, <1>3 DEF InLine

\* A row that goes with a handler that is through is no conversation's.
LEMMA PeekedOff ==
  ASSUME Plain, Types, Sorted, NEW c \in Clients, Entered(cl[c])
  PROVE  \A k \in Peeked(c) : k[1] # "conv"
<1>1. cl[c].pc # "idle"
  BY DEF Entered
<1>2. CASE style[c].by = "own"
  BY <1>1, <1>2, OwnKey DEF Peeked
<1>3. CASE style[c].by # "own"
  BY <1>1, <1>3, ChainKey DEF Peeked
<1> QED BY <1>2, <1>3

LEMMA ArriveInLine ==
  ASSUME Types, Sorted, InLine, NEW c \in Clients, Arrive(c)
  PROVE  InLine'
<1> DEFINE k == cl'[c].peek
           l == rows'[k].lock
<1>1. /\ Others(c) /\ cl[c].pc = "idle" /\ cl'[c].pc = "waiting" /\ Grown(rows, rows', k)
      /\ line' = Append(line, <<c, l>>) /\ UNCHANGED style
  BY ArriveDoes
<1>2. \A e \in Range(line) : e[1] # c
  BY <1>1 DEF InLine, Queues
<1>3. /\ Line(line') /\ Range(line') = Range(line) \cup {<<c, l>>}
      /\ \A d : FirstOf(line, d) => FirstOf(line', d)
  <2>1. Line(line)
    BY DEF InLine
  <2> HIDE DEF l
  <2> QED BY <1>1, <1>2, <2>1, LineJoined
<1>4. \A j \in DOMAIN rows : j \in DOMAIN rows' /\ rows'[j] = rows[j]
  BY <1>1 DEF Grown
<1>5. k \in DOMAIN rows'
  BY <1>1 DEF Grown
<1>6. \A e \in Range(line') : e[1] \in Clients /\ Queues(style[e[1]], cl'[e[1]])
  <2>1. Queues(style[c], cl'[c])
    BY <1>1 DEF Queues
  <2> HIDE DEF l
  <2> QED BY <1>1, <1>2, <1>3, <2>1 DEF InLine, Others
<1>7. ASSUME NEW d \in Clients, Queues(style[d], cl'[d])
      PROVE  /\ style[d].by = "own" => cl'[d].peek \in DOMAIN rows' /\ <<d, rows'[cl'[d].peek].lock>> \in Range(line')
             /\ Entered(cl'[d]) => FirstOf(line', d)
  <2>1. CASE d = c
    <3>1. ~Entered(cl'[c])
      BY <1>1 DEF Entered
    <3> QED BY <1>3, <1>5, <2>1, <3>1
  <2>2. CASE d # c
    <3>1. cl'[d] = cl[d]
      BY <1>1, <2>2 DEF Others
    <3> QED BY <1>3, <1>4, <1>7, <3>1 DEF InLine
  <2> QED BY <2>1, <2>2
<1> QED BY <1>1, <1>3, <1>6, <1>7 DEF InLine

LEMMA RefuseInLine ==
  ASSUME Types, Sorted, InLine, NEW c \in Clients, Refuse(c)
  PROVE  InLine'
<1>1. RowsStay(c)
  BY RefuseDoes DEF RowsStay
<1>2. ~Queues(style[c], cl'[c])
  BY RefuseDoes DEF Queues
<1> QED BY <1>1, <1>2, RefuseDoes, Leaves

LEMMA EnterInLine ==
  ASSUME Types, Sorted, InLine, NEW c \in Clients, Enter(c)
  PROVE  InLine'
<1>1. /\ Others(c) /\ Asking(cl[c], cl'[c]) /\ cl[c].pc = "waiting" /\ cl'[c].pc = "entered"
      /\ HoldsLock(c) /\ UNCHANGED <<line, style>>
      /\ rows' = rows \/ Grown(rows, rows', cl'[c].key)
  BY EnterDoes
<1>2. \A k \in DOMAIN rows : k \in DOMAIN rows' /\ rows'[k] = rows[k]
  BY <1>1 DEF Grown
<1>3. RowsStay(c)
  BY <1>2 DEF RowsStay
<1>4. Queues(style[c], cl'[c]) /\ Queues(style[c], cl[c]) /\ cl'[c].peek = cl[c].peek
  BY <1>1 DEF Queues, Asking
<1>5. style[c].by = "own" => cl[c].peek \in DOMAIN rows
  BY <1>4 DEF InLine
<1>6. FirstOf(line, c)
  BY <1>1 DEF HoldsLock, FirstOf
<1> QED BY <1>1, <1>2, <1>3, <1>4, <1>5, <1>6, Stands

LEMMA PickInLine ==
  ASSUME Plain, Types, Sorted, InLine, NEW c \in Clients, Pick(c)
  PROVE  InLine'
<1>1. PICK t : /\ Grown(rows, t, cl[c].key)
               /\ \/ style[c].stream /\ Shrunk(t, rows', Peeked(c)) /\ line' = Released(c)
                  \/ ~style[c].stream /\ rows' = t /\ line' = line
  BY PickDoes
<1>2. /\ Others(c) /\ Asking(cl[c], cl'[c]) /\ cl[c].pc = "entered" /\ cl'[c].pc = "turn" /\ UNCHANGED style
  BY PickDoes
<1>3. \A k \in DOMAIN rows : k \in DOMAIN t /\ t[k] = rows[k]
  BY <1>1 DEF Grown
<1>4. \A k \in Peeked(c) : k[1] # "conv"
  BY <1>2, PeekedOff DEF Entered
<1>5. CASE style[c].stream
  <2>1. Shrunk(t, rows', Peeked(c)) /\ line' = Released(c)
    BY <1>1, <1>5
  <2>2. RowsStay(c)
    BY <1>3, <1>4, <2>1 DEF Shrunk, RowsStay
  <2>3. ~Queues(style[c], cl'[c])
    BY <1>2, <1>5 DEF Queues
  <2> QED BY <1>2, <2>1, <2>2, <2>3, Leaves
<1>6. CASE ~style[c].stream
  <2>1. rows' = t /\ line' = line
    BY <1>1, <1>6
  <2>2. RowsStay(c)
    BY <1>3, <2>1 DEF RowsStay
  <2>3. Queues(style[c], cl'[c]) /\ Queues(style[c], cl[c]) /\ cl'[c].peek = cl[c].peek
    BY <1>2, <1>6 DEF Queues, Asking
  <2>4. (style[c].by = "own" => cl[c].peek \in DOMAIN rows) /\ FirstOf(line, c)
    BY <1>2, <2>3 DEF InLine, Entered
  <2> QED BY <1>2, <1>3, <2>1, <2>2, <2>3, <2>4, Stands
<1> QED BY <1>5, <1>6

LEMMA TurnInLine ==
  ASSUME Types, Sorted, InLine, NEW c \in Clients, RetryFresh(c) \/ Answer(c)
  PROVE  InLine'
<1>1. /\ Others(c) /\ Asking(cl[c], cl'[c]) /\ cl[c].pc = "turn" /\ cl'[c].pc \in {"turn", "answered"}
      /\ UNCHANGED <<rows, line, style>>
  BY RetryFreshDoes, AnswerDoes
<1>2. RowsStay(c)
  BY <1>1 DEF RowsStay
<1>3. (Queues(style[c], cl'[c]) <=> Queues(style[c], cl[c])) /\ cl'[c].peek = cl[c].peek
  BY <1>1 DEF Queues, Asking
<1>4. Queues(style[c], cl[c]) => (style[c].by = "own" => cl[c].peek \in DOMAIN rows) /\ FirstOf(line, c)
  BY <1>1 DEF InLine, Entered
<1> QED BY <1>1, <1>2, <1>3, <1>4, Stands

LEMMA FailInLine ==
  ASSUME Types, Sorted, InLine, NEW c \in Clients, Fail(c), "orphaned" \notin past'
  PROVE  InLine'
<1>1. /\ Others(c) /\ cl'[c].pc = "idle" /\ Shrunk(rows, rows', {cl[c].key} \cup Peeked(c))
      /\ line' = Released(c) /\ UNCHANGED style /\ ~Orphans(c, rows')
  BY FailDoes
<1>2. RowsStay(c)
  <2> SUFFICES ASSUME NEW k \in DOMAIN rows, NEW e \in Range(line), e[1] # c, e[2] = rows[k].lock
               PROVE  k \in DOMAIN rows' /\ rows'[k].lock = rows[k].lock
    BY DEF RowsStay
  <2>1. PICK i \in DOMAIN line : e = line[i]
    BY DEF Range
  <2>2. k \in DOMAIN rows'
    BY <1>1, <2>1 DEF Orphans
  <2> QED BY <1>1, <2>2 DEF Shrunk
<1>3. ~Queues(style[c], cl'[c])
  BY <1>1 DEF Queues
<1> QED BY <1>1, <1>2, <1>3, Leaves

LEMMA SaveInLine ==
  ASSUME Plain, Types, Sorted, InLine, NEW c \in Clients, Save(c)
  PROVE  InLine'
<1>1. PICK w : Committed(c, w, 2) /\ Shrunk(w, rows', Peeked(c))
  BY SaveDoes
<1>2. Others(c) /\ cl[c].pc = "answered" /\ cl'[c].pc = "idle" /\ line' = Released(c) /\ UNCHANGED style
  BY SaveDoes
<1>3. \A k \in DOMAIN rows : k \in DOMAIN w /\ w[k].lock = rows[k].lock
  BY <1>1 DEF Committed
<1>4. \A k \in Peeked(c) : k[1] # "conv"
  BY <1>2, PeekedOff DEF Entered
<1>5. RowsStay(c)
  BY <1>1, <1>3, <1>4 DEF Shrunk, RowsStay
<1>6. ~Queues(style[c], cl'[c])
  BY <1>2 DEF Queues
<1> QED BY <1>2, <1>5, <1>6, Leaves

LEMMA DisconnectInLine ==
  ASSUME Types, Sorted, InLine, NEW c \in Clients, Disconnect(c)
  PROVE  InLine'
<1>1. Others(c) /\ Running(c) /\ style[c].stream /\ cl'[c].pc = "idle" /\ UNCHANGED <<rows, line, style>>
  BY DisconnectDoes
<1>2. RowsStay(c) /\ ~Queues(style[c], cl'[c]) /\ ~Queues(style[c], cl[c])
  BY <1>1 DEF RowsStay, Queues, Running
<1> QED BY <1>1, <1>2, Leaves

LEMMA RestartInLine ==
  ASSUME NEW t, NEW marks, Restarts(t, marks)
  PROVE  InLine'
<1>1. line' = <<>> /\ \A c \in Clients : ~Queues(style'[c], cl'[c])
  BY DEF Restarts, Queues
<1>2. Line(<<>>) /\ Range(<<>>) = {}
  BY DEF Line, Range
<1> QED BY <1>1, <1>2 DEF InLine

LEMMA NextSerial ==
  ASSUME Straight, Plain, Types, AllTold, Sorted, Serial, [Next]_vars
  PROVE  Serial'
<1> SUFFICES ASSUME "orphaned" \notin past' PROVE InLine'
  BY DEF Serial
<1>1. InLine
  <2>1. past \subseteq past'
    BY NextRemembered
  <2> QED BY <2>1 DEF Serial
<1>2. ASSUME NEW c \in Clients, Passes(c) PROVE InLine'
  BY <1>1, <1>2, ArriveInLine, EnterInLine, RefuseInLine, PickInLine, TurnInLine, FailInLine,
     DisconnectInLine DEF Passes
<1>3. ASSUME NEW c \in Clients, Save(c) PROVE InLine'
  BY <1>1, <1>3, SaveInLine
<1>4. ASSUME NEW c \in Clients, Kill(c) PROVE InLine'
  BY <1>4, KillDoes, RestartInLine
<1>5. CASE Restart
  BY <1>5, RestartDoes, RestartInLine
<1>6. CASE UNCHANGED vars
  BY <1>1, <1>6 DEF vars, InLine
<1> QED BY <1>2, <1>3, <1>4, <1>5, <1>6 DEF Next, Passes

LEMMA InitSerial == Init => Serial
<1> SUFFICES ASSUME Init PROVE InLine
  BY DEF Serial
<1>1. line = <<>> /\ \A c \in Clients : ~Queues(style[c], cl[c])
  BY DEF Init, Queues
<1>2. Line(<<>>) /\ Range(<<>>) = {}
  BY DEF Line, Range
<1> QED BY <1>1, <1>2 DEF InLine

\* Those behind the lock of a row are one.
LEMMA OneEntered ==
  ASSUME Plain, StreamsAlone, Types, Sorted, Serial, "orphaned" \notin past,
         NEW c \in Clients, NEW d \in Clients, Entered(cl[c]), Entered(cl[d]), cl[c].key = cl[d].key
  PROVE  c = d
<1> SUFFICES ASSUME c # d PROVE FALSE
  OBVIOUS
<1>1. Belongs(c, style[c], cl[c].sent, cl[c].key) /\ Belongs(d, style[d], cl[d].sent, cl[c].key)
  BY DEF Sorted, Placed, Goes
<1>2. style[c].by = "own" /\ style[d].by = "own" /\ style[c].conv = style[d].conv
  BY <1>1, Apart
<1>3. ~style[c].stream /\ ~style[d].stream
  BY <1>2 DEF StreamsAlone, Types
<1>4. Queues(style[c], cl[c]) /\ Queues(style[d], cl[d]) /\ cl[c].pc # "idle" /\ cl[d].pc # "idle"
  BY <1>3 DEF Queues, Entered
<1>5. cl[c].peek = cl[d].peek
  BY <1>2, <1>4, OwnKey
<1>6. /\ <<c, rows[cl[c].peek].lock>> \in Range(line) /\ <<d, rows[cl[c].peek].lock>> \in Range(line)
      /\ FirstOf(line, c) /\ FirstOf(line, d) /\ Line(line)
  BY <1>2, <1>4, <1>5 DEF Serial, InLine
<1> QED BY <1>6, LineFirst


-----------------------------------------------------------------------------
(* Conversations grow: a turn runs on what its row has, and what the norm of *)
(* a row or a response names is in the row.                                  *)

Users(s) == {item \in Range(s) : IsUserItem(item)}

\* A purge takes norm and metadata of a conversation together, but leaves the
\* norm of a response whose row it takes.
Kept(k, purged) == k[1] = "conv" \/ ~purged

\* The item list of a client behind the lock is in the row or is sent.
Covered(x, table, purged) ==
  Entered(x) /\ x.api = "responses" /\ Kept(x.key, purged) =>
    Users(x.items) \subseteq Range(Meta(table, x.key)) \cup Range(x.turns)

\* A running client has what its row has.
Current(x, table) == x.pc \in {"turn", "answered"} => x.meta = Meta(table, x.key)

RowsCover(table, purged) ==
  \A k : Kept(k, purged) => Users(Norm(table, k)) \subseteq Range(Meta(table, k))

BodiesCover(saved, table, purged) ==
  ~purged => \A r \in DOMAIN saved : Users(saved[r].norm) \subseteq Range(Meta(table, saved[r].state))

Unbroken == past \cap {"resume", "orphaned"} = {}

Grows ==
  Unbroken =>
    /\ RowsCover(rows, "purge" \in past) /\ BodiesCover(responses, rows, "purge" \in past)
    /\ \A c \in Clients : Covered(cl[c], rows, "purge" \in past) /\ Current(cl[c], rows)

\* Rows that read the same change none of this.
LEMMA SameGrows ==
  ASSUME NEW t, NEW w, SameRows(t, w)
  PROVE  /\ \A p : RowsCover(t, p) => RowsCover(w, p)
         /\ \A s, p : BodiesCover(s, t, p) => BodiesCover(s, w, p)
         /\ \A x, p : Covered(x, t, p) => Covered(x, w, p)
         /\ \A x : Current(x, t) => Current(x, w)
BY DEF SameRows, RowsCover, BodiesCover, Covered, Current

\* What a client that enters is to send covers its items.
LEMMA EnterCovers ==
  ASSUME Plain, Types, Sorted, NEW c \in Clients, cl[c].pc = "waiting",
         RowsCover(rows, "purge" \in past), BodiesCover(responses, rows, "purge" \in past),
         cl[c].api = "responses", Kept(Resolved(c).key, "purge" \in past)
  PROVE  Users(cl[c].items) \subseteq Range(Meta(rows, Resolved(c).key)) \cup Range(Resolved(c).turns)
<1> DEFINE x == cl[c]
           key == ConvKey(x.conv)
           to == Resolved(c)
<1>1. x.items \in Seq(Items) /\ Standing(c, style[c], x)
  BY DEF Types, Client, Sorted, Placed
<1>2. \A norm \in Seq(Items) : Users(x.items) \subseteq Users(norm) \cup Range(Unseen(norm, x.items))
  BY <1>1, UnseenIs DEF Users
<1>3. CASE x.items = <<>>
  BY <1>3 DEF Users, Range
<1>4. CASE x.items # <<>> /\ x.conv # NoId
  <2>1. CASE Fresh(key)
    <3>1. to.turns = x.items
      BY <1>4, <2>1 DEF Resolved
    <3> QED BY <3>1 DEF Users
  <2>2. CASE ~Fresh(key)
    <3>1. to.key = key /\ to.turns = Unseen(rows[key].norm, x.items) /\ key \in DOMAIN rows
      BY <1>4, <2>2 DEF Resolved, Fresh
    <3>2. rows[key].norm \in Seq(Items) /\ Norm(rows, key) = rows[key].norm
      BY <3>1 DEF Types, Table, Row, Norm
    <3>3. Users(rows[key].norm) \subseteq Range(Meta(rows, key))
      BY <3>1, <3>2 DEF RowsCover
    <3> QED BY <1>2, <3>1, <3>2, <3>3
  <2> QED BY <2>1, <2>2
<1>5. CASE x.items # <<>> /\ x.conv = NoId /\ x.prev \in DOMAIN responses
  <2>1. to.key = responses[x.prev].state /\ to.turns = Unseen(responses[x.prev].norm, x.items)
    BY <1>5 DEF Resolved
  <2>2. style[c].by = "prev"
    <3>1. NoId # <<style[c].conv>>
      BY DEF NoId
    <3> QED BY <1>1, <1>5, <3>1, StyleIs DEF Standing
  <2>3. "purge" \notin past
    <3>1. Belongs(c, style[c], x.sent, to.key)
      BY <1>1, <1>5, <2>1, <2>2, StateOf DEF Standing
    <3>2. to.key[1] # "conv"
      BY <2>2, <3>1 DEF Belongs
    <3> QED BY <3>2 DEF Kept
  <2>4. responses[x.prev].norm \in Seq(Items) /\ Users(responses[x.prev].norm) \subseteq Range(Meta(rows, to.key))
    BY <1>5, <2>1, <2>3 DEF BodiesCover, Types, Bodies
  <2> QED BY <1>2, <2>1, <2>4
<1>6. CASE x.items # <<>> /\ x.conv = NoId /\ x.prev \notin DOMAIN responses
  <2>1. to.turns = x.items
    BY <1>6 DEF Resolved
  <2> QED BY <2>1 DEF Users
<1> QED BY <1>3, <1>4, <1>5, <1>6

\* A step that leaves the rows as they read, and one client in its place
LEMMA PassGrows ==
  ASSUME Grows, Unbroken, NEW c \in Clients, Others(c), SameRows(rows, rows'), UNCHANGED responses,
         "purge" \in past' <=> "purge" \in past,
         Covered(cl'[c], rows, "purge" \in past), Current(cl'[c], rows)
  PROVE  Grows'
<1> DEFINE p == "purge" \in past
<1>1. RowsCover(rows', p) /\ BodiesCover(responses', rows', p)
  BY SameGrows DEF Grows
<1>2. ASSUME NEW d \in Clients PROVE Covered(cl'[d], rows', p) /\ Current(cl'[d], rows')
  <2>1. Covered(cl'[d], rows, p) /\ Current(cl'[d], rows)
    BY DEF Grows, Others
  <2> QED BY <2>1, SameGrows
<1>3. RowsCover(rows', "purge" \in past') /\ BodiesCover(responses', rows', "purge" \in past')
  BY <1>1
<1>4. \A d \in Clients : Covered(cl'[d], rows', "purge" \in past') /\ Current(cl'[d], rows')
  BY <1>2
<1> QED BY <1>3, <1>4 DEF Grows

LEMMA PassesGrow ==
  ASSUME Plain, Types, Sorted, Grows, Unbroken, Unbroken', NEW c \in Clients, Passes(c)
  PROVE  Grows'
<1>1. Others(c) /\ SameRows(rows, rows') /\ UNCHANGED responses
  BY PassesIs
<1> DEFINE p == "purge" \in past
<1>2. Covered(cl[c], rows, p) /\ Current(cl[c], rows) /\ RowsCover(rows, p) /\ BodiesCover(responses, rows, p)
  BY DEF Grows
<1>3. CASE Arrive(c) \/ Refuse(c) \/ Fail(c) \/ Disconnect(c)
  <2>1. cl'[c].pc \in {"idle", "waiting"}
    BY <1>3, ArriveDoes, RefuseDoes, FailDoes, DisconnectDoes
  <2>2. "purge" \in past' <=> "purge" \in past
    <3>1. Arrive(c) => past' = past
      BY ArriveDoes
    <3>2. Refuse(c) => past' = past \cup {"refused"}
      BY RefuseDoes
    <3>3. Fail(c) => past' = past \/ past' = past \cup {"orphaned"}
      BY FailDoes
    <3>4. Disconnect(c) => past' = past \cup {"disconnect"}
      BY DisconnectDoes
    <3> QED BY <1>3, <3>1, <3>2, <3>3, <3>4
  <2>3. Covered(cl'[c], rows, p) /\ Current(cl'[c], rows)
    BY <2>1 DEF Covered, Current, Entered
  <2> QED BY <1>1, <2>2, <2>3, PassGrows
<1>4. CASE Enter(c)
  <2>1. /\ Asking(cl[c], cl'[c]) /\ cl[c].pc = "waiting" /\ cl'[c].pc = "entered"
        /\ cl'[c].key = Resolved(c).key /\ cl'[c].turns = Resolved(c).turns /\ past' = past
    BY <1>4, EnterDoes
  <2>2. Covered(cl'[c], rows, p)
    <3> SUFFICES ASSUME cl[c].api = "responses", Kept(Resolved(c).key, p)
                 PROVE  Users(cl[c].items) \subseteq Range(Meta(rows, Resolved(c).key)) \cup Range(Resolved(c).turns)
      BY <2>1 DEF Covered, Asking
    <3> QED BY <1>2, <2>1, EnterCovers
  <2>3. Current(cl'[c], rows)
    BY <2>1 DEF Current
  <2> QED BY <1>1, <2>1, <2>2, <2>3, PassGrows
<1>5. CASE Pick(c) \/ Answer(c)
  <2>1. /\ Asking(cl[c], cl'[c]) /\ cl[c].pc \in {"entered", "turn"} /\ past' = past
        /\ cl'[c].key = cl[c].key /\ cl'[c].turns = cl[c].turns
        /\ cl'[c].meta = Meta(rows, cl[c].key) \/ (cl[c].pc = "turn" /\ cl'[c].meta = cl[c].meta)
    BY <1>5, PickDoes, AnswerDoes
  <2>2. Covered(cl'[c], rows, p)
    BY <1>2, <2>1 DEF Covered, Entered, Asking
  <2>3. Current(cl'[c], rows)
    BY <1>2, <2>1 DEF Current
  <2> QED BY <1>1, <2>1, <2>2, <2>3, PassGrows
<1>6. CASE RetryFresh(c)
  BY <1>6, RetryFreshDoes DEF Unbroken
<1> QED BY <1>3, <1>4, <1>5, <1>6 DEF Passes

\* The row of an answer has all that it had, and what was sent.
LEMMA CommitGrows ==
  ASSUME Plain, Types, Sorted, Grows, Unbroken, NEW c \in Clients, cl[c].pc = "answered",
         NEW n \in 1..2, NEW w, Committed(c, w, n)
  PROVE  /\ RowsCover(w, "purge" \in past) /\ BodiesCover(responses, w, "purge" \in past)
         /\ \A k : Range(Meta(rows, k)) \subseteq Range(Meta(w, k))
         /\ cl[c].api = "responses" /\ Kept(cl[c].key, "purge" \in past) =>
              Users(cl[c].items) \subseteq Range(Meta(w, cl[c].key))
<1> DEFINE x == cl[c]
           p == "purge" \in past
           t == Turned(c, x)
<1>1. /\ Client(x) /\ Current(x, rows) /\ Covered(x, rows, p)
      /\ RowsCover(rows, p) /\ BodiesCover(responses, rows, p)
  BY DEF Types, Grows
<1>2. Range(Meta(rows, x.key)) \cup Range(x.turns) \subseteq Range(t)
  <2>1. Range(x.meta) \cup Range(x.turns) \subseteq Range(t)
    BY <1>1, TurnedIs
  <2> QED BY <1>1, <2>1 DEF Current
<1> HIDE DEF t
<1>3. /\ Meta(w, x.key) = t
      /\ Norm(w, x.key) = IF n = 1 \/ x.api = "chat" THEN Norm(rows, x.key) ELSE x.items
      /\ \A j : j # x.key => Meta(w, j) = Meta(rows, j) /\ Norm(w, j) = Norm(rows, j)
  BY DEF Committed, t
<1>4. \A k : Range(Meta(rows, k)) \subseteq Range(Meta(w, k))
  <2>1. ASSUME NEW k PROVE Range(Meta(rows, k)) \subseteq Range(Meta(w, k))
    <3>1. CASE k = x.key
      BY <1>2, <1>3, <3>1
    <3>2. CASE k # x.key
      BY <1>3, <3>2
    <3> QED BY <3>1, <3>2
  <2> QED BY <2>1
<1>5. ASSUME x.api = "responses", Kept(x.key, p) PROVE Users(x.items) \subseteq Range(t)
  BY <1>1, <1>2, <1>5 DEF Covered, Entered
<1>6. RowsCover(w, p)
  <2> SUFFICES ASSUME NEW k, Kept(k, p) PROVE Users(Norm(w, k)) \subseteq Range(Meta(w, k))
    BY DEF RowsCover
  <2>1. Users(Norm(rows, k)) \subseteq Range(Meta(w, k))
    BY <1>1, <1>4 DEF RowsCover
  <2>2. CASE Norm(w, k) = Norm(rows, k)
    BY <2>1, <2>2
  <2>3. CASE Norm(w, k) # Norm(rows, k)
    <3>1. k = x.key /\ Norm(w, k) = x.items /\ x.api # "chat"
      BY <1>3, <2>3
    <3>2. x.api = "responses"
      BY <3>1, StyleIs DEF Sorted, Placed, Standing
    <3> QED BY <1>3, <1>5, <3>1, <3>2
  <2> QED BY <2>2, <2>3
<1>7. BodiesCover(responses, w, p)
  BY <1>1, <1>4 DEF BodiesCover
<1> QED BY <1>3, <1>4, <1>5, <1>6, <1>7


LEMMA SaveGrows ==
  ASSUME Plain, StreamsAlone, Types, Sorted, Serial, Grows, Unbroken, NEW c \in Clients, Save(c)
  PROVE  Grows'
<1> DEFINE x == cl[c]
           p == "purge" \in past
<1>1. PICK w : Committed(c, w, 2) /\ Shrunk(w, rows', Peeked(c))
  BY SaveDoes
<1>2. Others(c) /\ x.pc = "answered" /\ cl'[c].pc = "idle" /\ Stored(c, responses')
  BY SaveDoes
<1>3. "purge" \in past' <=> "purge" \in past
  BY SaveDoes
<1>4. /\ RowsCover(w, p) /\ BodiesCover(responses, w, p)
      /\ \A k : Range(Meta(rows, k)) \subseteq Range(Meta(w, k))
      /\ x.api = "responses" /\ Kept(x.key, p) => Users(x.items) \subseteq Range(Meta(w, x.key))
  BY <1>1, <1>2, CommitGrows
<1>5. BodiesCover(responses', w, p)
  <2> SUFFICES ASSUME ~p, NEW r \in DOMAIN responses'
               PROVE  Users(responses'[r].norm) \subseteq Range(Meta(w, responses'[r].state))
    BY DEF BodiesCover
  <2>1. CASE x.api = "chat" \/ r # Request(c)
    <3>1. r \in DOMAIN responses /\ responses'[r] = responses[r]
      BY <1>2, <2>1 DEF Stored
    <3> QED BY <1>4, <3>1 DEF BodiesCover
  <2>2. CASE x.api # "chat" /\ r = Request(c)
    <3>1. responses'[r].state = x.key /\ responses'[r].norm = x.items
      BY <1>2, <2>2 DEF Stored
    <3>2. x.api = "responses"
      BY <1>2, <2>2, StyleIs DEF Sorted, Placed, Standing
    <3> QED BY <1>4, <3>1, <3>2 DEF Kept
  <2> QED BY <2>1, <2>2
<1>6. ASSUME NEW d \in Clients PROVE Covered(cl'[d], w, p) /\ Current(cl'[d], w)
  <2>1. CASE d = c
    BY <1>2, <2>1 DEF Covered, Current, Entered
  <2>2. CASE d # c
    <3>1. cl'[d] = cl[d] /\ Covered(cl[d], rows, p) /\ Current(cl[d], rows)
      BY <1>2, <2>2 DEF Others, Grows
    <3>2. Covered(cl[d], w, p)
      BY <1>4, <3>1 DEF Covered
    <3>3. Current(cl[d], w)
      <4>1. SUFFICES ASSUME cl[d].pc \in {"turn", "answered"} PROVE cl[d].meta = Meta(w, cl[d].key)
        BY DEF Current
      <4>2. cl[d].key # x.key
        BY <1>2, <2>2, <4>1, OneEntered DEF Entered, Unbroken
      <4> QED BY <1>1, <3>1, <4>1, <4>2 DEF Committed, Current
    <3> QED BY <3>1, <3>2, <3>3
  <2> QED BY <2>1, <2>2
<1>7. SameRows(w, rows')
  BY <1>1 DEF Shrunk
<1>8. /\ RowsCover(rows', p) /\ BodiesCover(responses', rows', p)
      /\ \A d \in Clients : Covered(cl'[d], rows', p) /\ Current(cl'[d], rows')
  BY <1>4, <1>5, <1>6, <1>7, SameGrows
<1> QED BY <1>3, <1>8 DEF Grows

LEMMA RestartGrows ==
  ASSUME NEW t, NEW marks, RowsCover(t, "purge" \in past), BodiesCover(responses, t, "purge" \in past),
         Restarts(t, marks)
  PROVE  Grows'
<1>1. /\ UNCHANGED responses /\ DOMAIN rows' \subseteq DOMAIN t /\ \A k \in DOMAIN rows' : rows'[k] = t[k]
      /\ DOMAIN rows' = DOMAIN t \/ "purge" \in past'
      /\ past \subseteq past' /\ \A c \in Clients : cl'[c].pc = "idle"
  BY DEF Restarts
<1>2. \A k : \/ Meta(rows', k) = Meta(t, k) /\ Norm(rows', k) = Norm(t, k)
             \/ Norm(rows', k) = <<>>
  BY <1>1 DEF Meta, Norm
<1>3. "purge" \notin past' => \A k : Meta(rows', k) = Meta(t, k)
  BY <1>1 DEF Meta
<1>4. RowsCover(rows', "purge" \in past')
  <2> SUFFICES ASSUME NEW k, Kept(k, "purge" \in past') PROVE Users(Norm(rows', k)) \subseteq Range(Meta(rows', k))
    BY DEF RowsCover
  <2>1. Kept(k, "purge" \in past)
    BY <1>1 DEF Kept
  <2>2. Users(<<>>) = {}
    BY DEF Users, Range
  <2> QED BY <1>2, <2>1, <2>2 DEF RowsCover
<1>5. BodiesCover(responses', rows', "purge" \in past')
  BY <1>1, <1>3 DEF BodiesCover
<1>6. \A c \in Clients : Covered(cl'[c], rows', "purge" \in past') /\ Current(cl'[c], rows')
  BY <1>1 DEF Covered, Current, Entered
<1> QED BY <1>4, <1>5, <1>6 DEF Grows

LEMMA NextGrows ==
  ASSUME Straight, Plain, StreamsAlone, Types, AllTold, Sorted, Serial, Grows, [Next]_vars
  PROVE  Grows'
<1> SUFFICES ASSUME Unbroken' PROVE Grows'
  BY DEF Grows
<1>1. Unbroken
  <2>1. past \subseteq past'
    BY NextRemembered
  <2> QED BY <2>1 DEF Unbroken
<1>2. RowsCover(rows, "purge" \in past) /\ BodiesCover(responses, rows, "purge" \in past)
  BY <1>1 DEF Grows
<1>3. ASSUME NEW c \in Clients, Passes(c) PROVE Grows'
  BY <1>1, <1>3, PassesGrow
<1>4. ASSUME NEW c \in Clients, Save(c) PROVE Grows'
  BY <1>1, <1>4, SaveGrows
<1>5. ASSUME NEW c \in Clients, Kill(c) PROVE Grows'
  <2>1. cl[c].pc = "answered" /\ \E n \in 1..2 : \E w : Committed(c, w, n) /\ Restarts(w, {"restart", "kill"})
    BY <1>5, KillDoes
  <2>2. PICK n \in 1..2 : \E w : Committed(c, w, n) /\ Restarts(w, {"restart", "kill"})
    BY <2>1
  <2>3. PICK w : Committed(c, w, n) /\ Restarts(w, {"restart", "kill"})
    BY <2>2
  <2>4. RowsCover(w, "purge" \in past) /\ BodiesCover(responses, w, "purge" \in past)
    BY <1>1, <2>1, <2>3, CommitGrows
  <2> QED BY <2>3, <2>4, RestartGrows
<1>6. CASE Restart
  BY <1>2, <1>6, RestartDoes, RestartGrows
<1>7. CASE UNCHANGED vars
  BY <1>1, <1>7 DEF vars, Grows
<1> QED BY <1>3, <1>4, <1>5, <1>6, <1>7 DEF Next, Passes

LEMMA InitGrows == Init => Grows
<1> SUFFICES ASSUME Init PROVE Grows
  OBVIOUS
<1>1. DOMAIN rows = {} /\ DOMAIN responses = {} /\ \A c \in Clients : cl[c].pc = "idle"
  BY DEF Init
<1>2. Users(<<>>) = {}
  BY DEF Users, Range
<1> QED BY <1>1, <1>2 DEF Grows, RowsCover, BodiesCover, Covered, Current, Entered, Norm

LEMMA AlwaysGrows ==
  ASSUME Straight, Plain, StreamsAlone
  PROVE  Spec => [](Types /\ AllTold /\ Sorted /\ Serial /\ Grows)
<1> DEFINE I == Types /\ AllTold /\ NormsHeard /\ Sorted /\ Serial /\ Grows
<1>1. Init => I
  BY InitTypes, InitTold, InitSorted, InitSerial, InitGrows
<1>2. I /\ [Next]_vars => I'
  BY NextTypes, NextRemembered, NextHeard, NextSorted, NextSerial, NextGrows
<1>3. I => Types /\ AllTold /\ Sorted /\ Serial /\ Grows
  OBVIOUS
<1> QED BY <1>1, <1>2, <1>3, PTL DEF Spec

\* What a row's norm says Gemini has seen, Gemini has: _prefix_overlap cuts from
\* a request only what was sent, whoever shares the conversation, whatever fails,
\* is lost or killed, and across purges for the conversations that are named.
THEOREM NormsAreSent ==
  ASSUME Straight, Plain, StreamsAlone
  PROVE  Spec => []NormWasSent
<1>1. Types /\ Grows => NormWasSent
  <2> SUFFICES ASSUME Types, Grows, Unbroken, NEW k \in DOMAIN rows, Kept(k, "purge" \in past),
                      NEW item \in Range(ItemsToTurns(rows[k].norm))
               PROVE  item \in Range(rows[k].meta)
    BY DEF NormWasSent, Unbroken, Kept
  <2>1. rows[k].norm \in Seq(Items) /\ Norm(rows, k) = rows[k].norm /\ Meta(rows, k) = rows[k].meta
    BY DEF Types, Table, Row, Norm, Meta
  <2>2. item \in Users(rows[k].norm)
    BY <2>1, TurnsAreItems DEF Users
  <2>3. Users(rows[k].norm) \subseteq Range(rows[k].meta)
    BY <2>1 DEF Grows, RowsCover
  <2> QED BY <2>2, <2>3
<1> QED BY <1>1, AlwaysGrows, PTL

\* A conversation only grows: lock_for keeps its turns in line, so none replaces
\* one it has not seen, for any number of clients that share it.
THEOREM ConversationsOnlyGrow ==
  ASSUME Straight, Plain, StreamsAlone
  PROVE  Spec => ConversationsGrow
<1> DEFINE Step == Unbroken => \A k \in DOMAIN rows \cap DOMAIN rows' : IsPrefix(rows[k].meta, rows'[k].meta)
           I == Types /\ AllTold /\ Sorted /\ Serial /\ Grows
<1>1. I /\ [Next]_vars => [Step]_rows
  <2> SUFFICES ASSUME I, [Next]_vars, Unbroken, NEW k \in DOMAIN rows \cap DOMAIN rows'
               PROVE  IsPrefix(rows[k].meta, rows'[k].meta)
    OBVIOUS
  <2>1. rows[k].meta \in Seq(Items) /\ Meta(rows, k) = rows[k].meta /\ Meta(rows', k) = rows'[k].meta
    BY DEF Types, Table, Row, Meta
  <2>2. Meta(rows', k) = Meta(rows, k) => IsPrefix(rows[k].meta, rows'[k].meta)
    BY <2>1, PrefixIs
  <2>3. ASSUME NEW c \in Clients, cl[c].pc = "answered", NEW n \in 1..2, NEW w, Committed(c, w, n),
               Meta(rows', k) = Meta(w, k)
        PROVE  IsPrefix(rows[k].meta, rows'[k].meta)
    <3>1. CASE k = cl[c].key
      <4> DEFINE x == cl[c]
                 r == <<Reply(c, Last(x.msgs).n)>>
      <4>1. Client(x) /\ x.meta = Meta(rows, k) /\ x.turns \in Seq(Items)
        BY <2>3, <3>1 DEF Types, Client, Grows, Current
      <4>2. r \in Seq(Items)
        <5>1. Reply(c, Last(x.msgs).n) \in Items
          BY <2>3, <4>1, TurnedIs
        <5> QED BY <5>1
      <4>3. rows'[k].meta = x.meta \o x.turns \o r
        BY <2>1, <2>3, <3>1 DEF Committed, Turned
      <4> HIDE DEF r, x
      <4> QED BY <2>1, <4>1, <4>2, <4>3, PrefixIs
    <3>2. CASE k # cl[c].key
      BY <2>2, <2>3, <3>2 DEF Committed
    <3> QED BY <3>1, <3>2
  <2>4. ASSUME NEW c \in Clients, Passes(c) PROVE IsPrefix(rows[k].meta, rows'[k].meta)
    BY <2>2, <2>4, PassesIs DEF SameRows
  <2>5. ASSUME NEW c \in Clients, Save(c) PROVE IsPrefix(rows[k].meta, rows'[k].meta)
    <3>1. PICK w : Committed(c, w, 2) /\ Shrunk(w, rows', Peeked(c))
      BY <2>5, SaveDoes
    <3>2. cl[c].pc = "answered" /\ Meta(rows', k) = Meta(w, k)
      BY <2>5, <3>1, SaveDoes DEF Shrunk, SameRows
    <3>3. 2 \in 1..2
      OBVIOUS
    <3> QED BY <2>3, <3>1, <3>2, <3>3
  <2>6. ASSUME NEW t, NEW marks, Restarts(t, marks) PROVE Meta(rows', k) = Meta(t, k)
    BY <2>6 DEF Restarts, Meta
  <2>7. ASSUME NEW c \in Clients, Kill(c) PROVE IsPrefix(rows[k].meta, rows'[k].meta)
    <3>1. cl[c].pc = "answered" /\ \E n \in 1..2 : \E w : Committed(c, w, n) /\ Restarts(w, {"restart", "kill"})
      BY <2>7, KillDoes
    <3>2. PICK n \in 1..2 : \E w : Committed(c, w, n) /\ Restarts(w, {"restart", "kill"})
      BY <3>1
    <3>3. PICK w : Committed(c, w, n) /\ Restarts(w, {"restart", "kill"})
      BY <3>2
    <3> QED BY <2>3, <2>6, <3>1, <3>3
  <2>8. CASE Restart
    BY <2>2, <2>6, <2>8, RestartDoes
  <2>9. CASE UNCHANGED vars
    BY <2>1, <2>2, <2>9 DEF vars
  <2> QED BY <2>4, <2>5, <2>7, <2>8, <2>9 DEF Next, Passes
<1>2. [Step]_rows => [past \cap {"resume", "orphaned"} = {} =>
         \A k \in DOMAIN rows \cap DOMAIN rows' : IsPrefix(rows[k].meta, rows'[k].meta)]_rows
  BY DEF Unbroken
<1> QED BY <1>1, <1>2, AlwaysGrows, PTL DEF Spec, ConversationsGrow

-----------------------------------------------------------------------------
(* Nothing twice.  The texts of a row are what it has and what the turns     *)
(* that run on it have started from: all of them were heard, and what a      *)
(* request is about to send is in none of them.                              *)

\* A client that sends its whole history to a named conversation is alone there.
HistoriesAlone ==
  \A s \in Scenes : \A c \in Clients :
    s[c].by = "own" /\ s[c].input = "full" /\ s[c].api = "responses" =>
      \A d \in Clients \ {c} : s[d].by = "own" => s[d].conv # s[c].conv

Texts(k) ==
  {Meta(rows, k)} \cup {cl[d].meta : d \in {d \in Clients : Running(d) /\ cl[d].key = k}}

Held(s) == IsInjective(s) /\ \A item \in Range(s) : Heard(item)

\* Where a client that sends its whole history is known to be
Follows(y, x, table, saved) ==
  LET k == ConvKey(<<y.conv>>)
  IN  y.input = "full" /\ y.api = "responses" =>
        /\ y.by = "own" /\ Meta(table, k) # <<>> => Fronted(Norm(table, k), x.transcript)
        /\ y.by = "prev" /\ x.last # NoRid =>
             x.last \in DOMAIN saved /\ Fronted(saved[x.last].norm, x.transcript)

Adds(x) == IsInjective(x.turns) /\ Range(x.turns) \subseteq Range(x.msgs)

Once ==
  Undisturbed =>
    /\ \A k : \A s \in Texts(k) : Held(s) /\ (s # <<>> => Meta(rows, k) # <<>>)
    /\ \A c \in Clients : Follows(style[c], cl[c], rows, responses)
    /\ \A c \in Clients : Entered(cl[c]) =>
         /\ Adds(cl[c])
         /\ \A k : k = cl[c].key => \A s \in Texts(k) : Range(s) \cap Range(cl[c].turns) = {}

LEMMA TextsTyped == Types => \A k : Texts(k) \subseteq Seq(Items)
<1> SUFFICES ASSUME Types, NEW k PROVE Texts(k) \subseteq Seq(Items)
  OBVIOUS
<1>1. Meta(rows, k) \in Seq(Items)
  <2>1. <<>> \in Seq(Items)
    OBVIOUS
  <2> QED BY <2>1 DEF Types, Table, Row, Meta
<1>2. \A d \in Clients : cl[d].meta \in Seq(Items)
  BY DEF Types, Client
<1> QED BY <1>1, <1>2 DEF Texts

LEMMA StillHeld ==
  ASSUME AllTold, Types, Remembered, NEW s \in Seq(Items), Held(s)
  PROVE  Held(s)'
<1>1. ASSUME NEW item \in Range(s) PROVE Heard(item)'
  <2>1. item \in Items /\ Heard(item)
    BY DEF Held, Range
  <2> QED BY <2>1, StillHeard
<1> QED BY <1>1 DEF Held

\* The new message of a request is in no text.
LEMMA NextNotHeld ==
  ASSUME Types, AllTold, NEW c \in Clients, cl[c].pc # "idle", NEW s, Held(s)
  PROVE  Range(s) \cap Range(<<NextUser(c, cl[c].transcript)>>) = {}
<1> DEFINE u == NextUser(c, cl[c].transcript)
<1>1. u.of = c /\ u \notin Range(cl[c].transcript)
  BY ToldNext DEF AllTold
<1> HIDE DEF u
<1>2. ~Heard(u) /\ Range(<<u>>) = {u}
  BY <1>1 DEF Heard, Range
<1> QED BY <1>2 DEF Held, u

\* A request sends its new message alone, or its row is empty.
LEMMA EnterOnce ==
  ASSUME Plain, Types, AllTold, NormsHeard, Sorted, Undisturbed, NEW c \in Clients, cl[c].pc = "waiting",
         Follows(style[c], cl[c], rows, responses)
  PROVE  \/ Resolved(c).turns = <<NextUser(c, cl[c].transcript)>>
         \/ /\ Meta(rows, Resolved(c).key) = <<>>
            /\ IsInjective(Resolved(c).turns) /\ Range(Resolved(c).turns) \subseteq Range(cl[c].msgs)
<1> DEFINE x == cl[c]
           y == style[c]
           u == NextUser(c, x.transcript)
           key == Resolved(c).key
           turns == Resolved(c).turns
           k == ConvKey(x.conv)
<1>1. /\ x.transcript \in Seq(Items) /\ x.items \in Seq(Items)
      /\ x.last = NoRid => x.transcript = <<>>
  BY DEF Types, Client, AllTold, Told, OneMore
<1>2. /\ u \in Items /\ x.msgs = Append(x.transcript, u)
      /\ Range(x.items) \subseteq Range(x.msgs) /\ IsInjective(x.items)
  BY ToldNext DEF AllTold
<1>3. Standing(c, y, x)
  BY DEF Sorted, Placed
<1>4. /\ y.by = "own" \/ y.by = "prev"
      /\ y.api = "chat" \/ y.api = "responses"
      /\ y.by = "prev" => y.api = "responses"
  BY StyleIs
<1>5. /\ \A j \in DOMAIN rows : u \notin Range(rows[j].norm) /\ rows[j].norm \in Seq(Items)
      /\ \A r \in DOMAIN responses : u \notin Range(responses[r].norm) /\ responses[r].norm \in Seq(Items)
  BY NewNotInNorms DEF AllTold, Types, Table, Row, Bodies
<1>6. \/ x.api = "chat" /\ turns = IF Fresh(k) THEN ItemsToTurns(x.items) ELSE <<u>>
      \/ x.api # "chat" /\ x.items = <<>> /\ turns = <<u>>
      \/ x.api # "chat" /\ x.items # <<>> /\ x.conv # NoId /\ Fresh(k) /\ turns = x.items
      \/ x.api # "chat" /\ x.items # <<>> /\ x.conv # NoId /\ ~Fresh(k) /\ turns = Unseen(rows[k].norm, x.items)
      \/ /\ x.api # "chat" /\ x.items # <<>> /\ x.conv = NoId /\ x.prev \in DOMAIN responses
         /\ turns = Unseen(responses[x.prev].norm, x.items)
      \/ x.api # "chat" /\ x.items # <<>> /\ x.conv = NoId /\ x.prev \notin DOMAIN responses /\ turns = x.items
  BY ResolvedIs DEF AllTold
<1>7. x.api = "chat" \/ (x.items # <<>> /\ x.conv # NoId) => key = k
  BY DEF Resolved
<1>8. /\ Fresh(k) => Meta(rows, k) = <<>>
      /\ ~Fresh(k) => k \in DOMAIN rows /\ Meta(rows, k) # <<>> /\ Norm(rows, k) = rows[k].norm
  BY DEF Fresh, Meta, Norm
<1>9. \A norm \in Seq(Items) :
        u \notin Range(norm) /\ (y.input = "full" => Fronted(norm, x.transcript)) /\ x.items # <<>>
        => Unseen(norm, x.items) = <<u>>
  BY UnseenNext DEF AllTold
<1>10. IsInjective(ItemsToTurns(x.items)) /\ Range(ItemsToTurns(x.items)) \subseteq Range(x.msgs)
  BY <1>1, <1>2, TurnsAreItems
<1>11. <<style[c].conv>> # NoId /\ NoRid \notin DOMAIN responses
  BY StateOf DEF NoId
<1>12. y.by = "own" => x.conv = <<y.conv>> /\ x.prev = NoRid
  BY <1>3 DEF Standing
<1>13. y.by = "prev" => x.conv = NoId /\ x.prev = x.last
  BY <1>3 DEF Standing
<1>14. CASE x.api = "chat"
  BY <1>6, <1>7, <1>8, <1>10, <1>14
<1>15. CASE x.api # "chat" /\ x.items # <<>> /\ x.conv # NoId
  <2>1. CASE Fresh(k)
    BY <1>2, <1>6, <1>7, <1>8, <1>15, <2>1
  <2>2. CASE ~Fresh(k)
    <3>1. y.by = "own" /\ x.conv = <<y.conv>> /\ y.api = "responses"
      BY <1>3, <1>4, <1>12, <1>13, <1>15 DEF Standing
    <3>2. y.input = "full" => Fronted(rows[k].norm, x.transcript)
      BY <1>8, <2>2, <3>1 DEF Follows
    <3>3. turns = Unseen(rows[k].norm, x.items)
      BY <1>6, <1>15, <2>2
    <3> QED BY <1>5, <1>8, <1>9, <1>15, <2>2, <3>2, <3>3
  <2> QED BY <2>1, <2>2
<1>16. CASE x.api # "chat" /\ x.items # <<>> /\ x.conv = NoId
  <2>1. y.by = "prev" /\ x.prev = x.last /\ y.api = "responses"
    BY <1>4, <1>11, <1>12, <1>13, <1>16
  <2>2. CASE x.prev \in DOMAIN responses
    <3>1. x.last # NoRid
      BY <1>11, <2>1, <2>2
    <3>2. y.input = "full" => Fronted(responses[x.last].norm, x.transcript)
      BY <2>1, <3>1 DEF Follows
    <3>3. turns = Unseen(responses[x.last].norm, x.items)
      BY <1>6, <1>16, <2>1, <2>2
    <3> QED BY <1>5, <1>9, <1>16, <2>1, <2>2, <3>2, <3>3
  <2>3. CASE x.prev \notin DOMAIN responses
    <3>1. y.input = "full" => x.last = NoRid
      BY <2>1, <2>3 DEF Follows
    <3>2. Append(<<>>, u) = <<u>>
      OBVIOUS
    <3>3. x.items = <<u>>
      BY <1>1, <1>2, <1>3, <1>16, <3>1, <3>2 DEF Standing
    <3> QED BY <1>6, <1>16, <2>3, <3>3
  <2> QED BY <2>2, <2>3
<1>17. CASE x.api # "chat" /\ x.items = <<>>
  BY <1>6, <1>17
<1> QED BY <1>14, <1>15, <1>16, <1>17


\* A step that saves nothing starts no text that was not there.
LEMMA FewerTexts ==
  ASSUME Types, NEW c \in Clients, Others(c), SameRows(rows, rows'),
         cl'[c].pc \in {"turn", "answered"} => cl'[c].meta = <<>> \/ cl'[c].meta \in Texts(cl'[c].key)
  PROVE  \A k : Texts(k)' \subseteq Texts(k) \cup {<<>>}
<1> SUFFICES ASSUME NEW k, NEW s \in Texts(k)' PROVE s \in Texts(k) \cup {<<>>}
  OBVIOUS
<1>1. Meta(rows', k) = Meta(rows, k)
  BY DEF SameRows
<1>2. s = Meta(rows', k) \/ \E d \in Clients : Running(d)' /\ cl'[d].key = k /\ s = cl'[d].meta
  BY DEF Texts
<1>3. ASSUME NEW d \in Clients, Running(d)', cl'[d].key = k, s = cl'[d].meta PROVE s \in Texts(k) \cup {<<>>}
  <2>1. CASE d = c
    BY <1>3, <2>1 DEF Running
  <2>2. CASE d # c
    BY <1>3, <2>2 DEF Others, Texts, Running
  <2> QED BY <2>1, <2>2
<1> QED BY <1>1, <1>2, <1>3 DEF Texts

LEMMA FollowsSame ==
  ASSUME NEW y, NEW x, NEW z, NEW t, NEW w, NEW s, SameRows(t, w), Follows(y, x, t, s),
         z.transcript = x.transcript, z.last = x.last
  PROVE  Follows(y, z, w, s)
BY DEF Follows, SameRows

LEMMA PassOnce ==
  ASSUME Types, AllTold, Remembered, Once, Undisturbed, NEW c \in Clients, Others(c),
         SameRows(rows, rows'), UNCHANGED <<responses, style>>,
         cl'[c].transcript = cl[c].transcript, cl'[c].last = cl[c].last,
         cl'[c].pc \in {"turn", "answered"} => cl'[c].meta = <<>> \/ cl'[c].meta \in Texts(cl'[c].key),
         Entered(cl'[c]) => Adds(cl'[c]) /\ \A s \in Texts(cl'[c].key) : Range(s) \cap Range(cl'[c].turns) = {}
  PROVE  Once'
<1>1. \A k : Texts(k)' \subseteq Texts(k) \cup {<<>>}
  BY FewerTexts
<1>2. \A k : Meta(rows', k) = Meta(rows, k)
  BY DEF SameRows
<1>3. Held(<<>>)' /\ Range(<<>>) = {}
  BY DEF Held, IsInjective, Range
<1>4. ASSUME NEW k, NEW s \in Texts(k)' PROVE Held(s)' /\ (s # <<>> => Meta(rows', k) # <<>>)
  <2>1. CASE s = <<>>
    BY <1>3, <2>1
  <2>2. CASE s # <<>>
    <3>1. s \in Texts(k) /\ s \in Seq(Items)
      BY <1>1, <1>4, <2>2, TextsTyped
    <3>2. Held(s) /\ Meta(rows, k) # <<>>
      BY <2>2, <3>1 DEF Once
    <3> QED BY <1>2, <3>1, <3>2, StillHeld
  <2> QED BY <2>1, <2>2
<1>5. ASSUME NEW d \in Clients PROVE Follows(style'[d], cl'[d], rows', responses')
  <2>1. Follows(style[d], cl[d], rows, responses) /\ cl'[d].transcript = cl[d].transcript /\ cl'[d].last = cl[d].last
    BY DEF Once, Others
  <2> QED BY <2>1, FollowsSame
<1>6. ASSUME NEW d \in Clients, Entered(cl'[d])
      PROVE  Adds(cl'[d]) /\ \A k : k = cl'[d].key => \A s \in Texts(k)' : Range(s) \cap Range(cl'[d].turns) = {}
  <2>1. Adds(cl'[d]) /\ \A s \in Texts(cl'[d].key) : Range(s) \cap Range(cl'[d].turns) = {}
    BY <1>6 DEF Once, Others
  <2> QED BY <1>1, <1>3, <2>1
<1> QED BY <1>4, <1>5, <1>6 DEF Once

LEMMA PassesOnce ==
  ASSUME Straight, Plain, Types, AllTold, NormsHeard, Sorted, Remembered, Once, Undisturbed,
         NEW c \in Clients, Passes(c)
  PROVE  Once'
<1>1. Others(c) /\ SameRows(rows, rows') /\ UNCHANGED <<responses, style>>
  BY PassesIs
<1>2. CASE Arrive(c) \/ Refuse(c) \/ Fail(c) \/ Disconnect(c)
  <2>1. /\ cl'[c].pc \in {"idle", "waiting"}
        /\ cl'[c].transcript = cl[c].transcript /\ cl'[c].last = cl[c].last
    BY <1>2, ArriveDoes, RefuseDoes, FailDoes, DisconnectDoes DEF Remembers
  <2> QED BY <1>1, <2>1, PassOnce DEF Entered
<1>3. CASE Enter(c)
  <2> DEFINE key == Resolved(c).key
             turns == Resolved(c).turns
  <2>1. /\ Asking(cl[c], cl'[c]) /\ cl[c].pc = "waiting" /\ cl'[c].pc = "entered"
        /\ cl'[c].key = key /\ cl'[c].turns = turns
    BY <1>3, EnterDoes
  <2>2. Follows(style[c], cl[c], rows, responses)
    BY DEF Once
  <2>3. \A s \in Texts(key) : Held(s) /\ (s # <<>> => Meta(rows, key) # <<>>)
    BY DEF Once
  <2>4. IsInjective(turns) /\ Range(turns) \subseteq Range(cl[c].msgs)
        /\ \A s \in Texts(key) : Range(s) \cap Range(turns) = {}
    <3>1. CASE turns = <<NextUser(c, cl[c].transcript)>>
      <4> DEFINE u == NextUser(c, cl[c].transcript)
      <4>1. u \in Range(cl[c].msgs)
        BY <2>1, ToldNext DEF AllTold
      <4> HIDE DEF u
      <4>2. IsInjective(<<u>>) /\ Range(<<u>>) = {u}
        BY DEF IsInjective, Range
      <4>3. \A s \in Texts(key) : Range(s) \cap Range(turns) = {}
        BY <2>1, <2>3, <3>1, NextNotHeld
      <4> QED BY <3>1, <4>1, <4>2, <4>3 DEF u
    <3>2. CASE turns # <<NextUser(c, cl[c].transcript)>>
      <4>1. /\ Meta(rows, key) = <<>>
            /\ IsInjective(turns) /\ Range(turns) \subseteq Range(cl[c].msgs)
        BY <2>1, <2>2, <3>2, EnterOnce
      <4>2. Range(<<>>) = {}
        BY DEF Range
      <4> QED BY <2>3, <4>1, <4>2
    <3> QED BY <3>1, <3>2
  <2>5. Adds(cl'[c]) /\ \A s \in Texts(cl'[c].key) : Range(s) \cap Range(cl'[c].turns) = {}
    BY <2>1, <2>4 DEF Adds, Asking
  <2> QED BY <1>1, <2>1, <2>5, PassOnce DEF Asking, Remembers
<1>4. CASE Pick(c) \/ RetryFresh(c) \/ Answer(c)
  <2>1. /\ Asking(cl[c], cl'[c]) /\ Entered(cl[c])
        /\ cl'[c].key = cl[c].key /\ cl'[c].turns = cl[c].turns
        /\ \/ cl'[c].meta = Meta(rows, cl[c].key) \/ cl'[c].meta = <<>>
           \/ cl[c].pc = "turn" /\ cl'[c].meta = cl[c].meta
    BY <1>4, PickDoes, RetryFreshDoes, AnswerDoes DEF Entered
  <2>2. cl'[c].meta = <<>> \/ cl'[c].meta \in Texts(cl'[c].key)
    BY <2>1 DEF Texts, Running
  <2>3. Adds(cl'[c]) /\ \A s \in Texts(cl'[c].key) : Range(s) \cap Range(cl'[c].turns) = {}
    BY <2>1 DEF Once, Adds, Asking
  <2> QED BY <1>1, <2>1, <2>2, <2>3, PassOnce DEF Asking, Remembers
<1> QED BY <1>2, <1>3, <1>4 DEF Passes

\* What a turn leaves in its row was heard once and is in nobody's request.
LEMMA TurnedOnce ==
  ASSUME Types, AllTold, Once, Undisturbed, NEW c \in Clients, cl[c].pc = "answered"
  PROVE  LET x == cl[c]
             t == Turned(c, x)
         IN  /\ t \in Seq(Items) /\ t # <<>> /\ IsInjective(t)
             /\ \A item \in Range(t) : Heard(item) \/ item \in Range(Extended(c, x))
             /\ \A item \in Range(t) : item \in Range(x.meta) \/ item.of = c
<1> DEFINE x == cl[c]
           t == Turned(c, x)
           u == NextUser(c, x.transcript)
           r == Reply(c, u.n)
           m == x.meta \o x.turns
<1>1. /\ Entered(x) /\ Client(x) /\ x.pc # "idle"
      /\ x.meta \in Seq(Items) /\ x.turns \in Seq(Items) /\ x.msgs \in Seq(Items)
  BY DEF Entered, Types, Client
<1>2. x.meta \in Texts(x.key)
  BY DEF Texts, Running
<1>3. Held(x.meta) /\ Adds(x) /\ Range(x.meta) \cap Range(x.turns) = {}
  BY <1>1, <1>2 DEF Once
<1>4. Last(x.msgs) = u /\ x.msgs = Append(x.transcript, u) /\ (\A item \in Range(x.msgs) : item.of = c)
      /\ Range(x.msgs) = Range(x.transcript) \cup {u}
  BY <1>1, ToldNext DEF AllTold
<1>5. r \in Items /\ r.of = c /\ r \notin Range(x.msgs)
  <2>1. x.transcript \in Seq(Items) /\ Rounds(c, x.transcript)
    BY DEF Types, Client, AllTold, Told
  <2> QED BY <1>4, <2>1, NextRound
<1>6. Extended(c, x) = Append(x.msgs, r) /\ t = Append(m, r) /\ t \in Seq(Items) /\ t # <<>>
  BY <1>1, <1>4, TurnedIs DEF Extended
<1> HIDE DEF r
<1>7. r \notin Range(x.meta)
  BY <1>3, <1>4, <1>5 DEF Held, Heard
<1>8. m \in Seq(Items) /\ Range(m) = Range(x.meta) \cup Range(x.turns) /\ IsInjective(m)
  BY <1>1, <1>3, Joined DEF Held, Adds
<1> HIDE DEF m
<1>9. r \notin Range(m)
  BY <1>3, <1>5, <1>7, <1>8 DEF Adds
<1>10. IsInjective(Append(m, r)) /\ Range(Append(m, r)) = Range(m) \cup {r}
  BY <1>5, <1>8, <1>9, AppendOne
<1>11. Range(Append(x.msgs, r)) = Range(x.msgs) \cup {r}
  BY <1>1, <1>5, AppendOne
<1> QED BY <1>3, <1>4, <1>5, <1>6, <1>8, <1>10, <1>11 DEF Held, Adds

LEMMA SaveOnce ==
  ASSUME HistoriesAlone, Plain, Types, AllTold, Sorted, Remembered, Once, Undisturbed, "lost" \notin past',
         NEW c \in Clients, Save(c)
  PROVE  Once'
<1> DEFINE x == cl[c]
<1>10. PICK t : t = Turned(c, x)
  OBVIOUS
<1>1. /\ Others(c) /\ x.pc = "answered" /\ cl'[c].pc = "idle" /\ Reads(c, x, cl'[c])
      /\ Stored(c, responses') /\ UNCHANGED style
  <2>1. \/ Reads(c, x, cl'[c]) /\ past' = past
        \/ Remembers(x, cl'[c]) /\ past' = past \cup {"lost"}
    BY SaveDoes
  <2>2. Reads(c, x, cl'[c])
    BY <2>1
  <2> QED BY <2>2, SaveDoes
<1>2. PICK w : Committed(c, w, 2) /\ Shrunk(w, rows', Peeked(c))
  BY SaveDoes
<1>3. /\ Meta(rows', x.key) = t
      /\ Norm(rows', x.key) = IF x.api = "chat" THEN Norm(rows, x.key) ELSE x.items
      /\ \A k : k # x.key => Meta(rows', k) = Meta(rows, k) /\ Norm(rows', k) = Norm(rows, k)
  BY <1>2, <1>10 DEF Committed, Shrunk, SameRows
<1>4. /\ t \in Seq(Items) /\ t # <<>> /\ IsInjective(t)
      /\ \A item \in Range(t) : Heard(item) \/ item \in Range(Extended(c, x))
      /\ \A item \in Range(t) : item \in Range(x.meta) \/ item.of = c
  BY <1>1, <1>10, TurnedOnce
<1>5. Held(t)'
  <2>1. ASSUME NEW item \in Range(t) PROVE Heard(item)'
    <3>1. item \in Items
      BY <1>4 DEF Range
    <3>2. CASE Heard(item)
      BY <3>1, <3>2, StillHeard
    <3>3. CASE item \in Range(Extended(c, x))
      <4>1. cl'[c].transcript = Extended(c, x)
        BY <1>1 DEF Reads
      <4>2. item.of = c
        <5>1. /\ x.transcript \in Seq(Items) /\ Rounds(c, x.transcript)
              /\ x.msgs = Append(x.transcript, NextUser(c, x.transcript)) /\ Last(x.msgs) = NextUser(c, x.transcript)
          BY <1>1, ToldNext DEF Types, Client, AllTold, Told
        <5>2. Rounds(c, Extended(c, x))
          BY <5>1, NextRound DEF Extended
        <5> QED BY <3>3, <5>2 DEF Rounds
      <4> QED BY <3>3, <4>1, <4>2 DEF Heard
    <3> QED BY <1>4, <3>2, <3>3
  <2> QED BY <1>4, <2>1 DEF Held
<1>6. \A k : \A s \in Texts(k)' : s \in Texts(k) \/ (k = x.key /\ s = t)
  <2> SUFFICES ASSUME NEW k, NEW s \in Texts(k)' PROVE s \in Texts(k) \/ (k = x.key /\ s = t)
    OBVIOUS
  <2>1. s = Meta(rows', k) \/ \E d \in Clients : Running(d)' /\ cl'[d].key = k /\ s = cl'[d].meta
    BY DEF Texts
  <2>2. s = Meta(rows', k) => s \in Texts(k) \/ (k = x.key /\ s = t)
    <3>1. CASE k = x.key
      BY <1>3, <3>1
    <3>2. CASE k # x.key
      <4>1. Meta(rows', k) = Meta(rows, k)
        BY <1>3, <3>2
      <4> QED BY <4>1 DEF Texts
    <3> QED BY <3>1, <3>2
  <2>3. ASSUME NEW d \in Clients, Running(d)', cl'[d].key = k, s = cl'[d].meta PROVE s \in Texts(k)
    <3>1. d # c
      BY <1>1, <2>3 DEF Running
    <3> QED BY <1>1, <2>3, <3>1 DEF Others, Texts, Running
  <2> QED BY <2>1, <2>2, <2>3
<1>7. ASSUME NEW k, NEW s \in Texts(k)' PROVE Held(s)' /\ (s # <<>> => Meta(rows', k) # <<>>)
  <2>1. CASE s \in Texts(k)
    <3>1. s \in Seq(Items) /\ Held(s) /\ (s # <<>> => Meta(rows, k) # <<>>)
      BY <2>1, TextsTyped DEF Once
    <3>2. s # <<>> => Meta(rows', k) # <<>>
      <4>1. CASE k = x.key
        BY <1>3, <1>4, <4>1
      <4>2. CASE k # x.key
        BY <1>3, <3>1, <4>2
      <4> QED BY <4>1, <4>2
    <3> QED BY <3>1, <3>2, StillHeld
  <2>2. CASE k = x.key /\ s = t
    BY <1>3, <1>4, <1>5, <2>2
  <2> QED BY <1>6, <1>7, <2>1, <2>2
<1>8. ASSUME NEW d \in Clients, Entered(cl'[d])
      PROVE  Adds(cl'[d]) /\ \A k : k = cl'[d].key => \A s \in Texts(k)' : Range(s) \cap Range(cl'[d].turns) = {}
  <2>1. d # c /\ cl'[d] = cl[d]
    BY <1>1, <1>8 DEF Others, Entered
  <2>2. Adds(cl[d]) /\ \A s \in Texts(cl[d].key) : Range(s) \cap Range(cl[d].turns) = {}
    BY <1>8, <2>1 DEF Once
  <2>3. ASSUME x.key = cl[d].key PROVE Range(t) \cap Range(cl[d].turns) = {}
    <3>1. x.meta \in Texts(cl[d].key)
      BY <1>1, <2>3 DEF Texts, Running
    <3>2. \A item \in Range(cl[d].turns) : item.of = d
      <4>1. cl[d].pc # "idle"
        BY <1>8, <2>1 DEF Entered
      <4> QED BY <2>2, <4>1, ToldNext DEF AllTold, Adds
    <3> QED BY <1>4, <2>1, <2>2, <3>1, <3>2
  <2> QED BY <1>6, <2>1, <2>2, <2>3
<1>9. ASSUME NEW d \in Clients PROVE Follows(style'[d], cl'[d], rows', responses')
  <2> SUFFICES ASSUME style[d].input = "full", style[d].api = "responses"
               PROVE  Follows(style[d], cl'[d], rows', responses')
    BY <1>1 DEF Follows
  <2>1. Belongs(c, style[c], x.sent, x.key) /\ Standing(c, style[c], x)
    BY <1>1, PlaceOf DEF Goes, Entered
  <2>2. CASE d = c
    <3>1. x.items = x.msgs /\ x.api = "responses"
      <4>1. x.transcript = <<>> => x.last = NoRid \/ x.last # NoRid
        OBVIOUS
      <4> QED BY <2>1, <2>2, StyleIs DEF Standing
    <3>2. cl'[c].transcript = Extended(c, x) /\ cl'[c].last = Request(c)
      BY <1>1 DEF Reads
    <3>3. Fronted(x.items, Extended(c, x))
      <4>1. Reply(c, Last(x.msgs).n) \in Items
        BY <1>1, TurnedIs DEF Types
      <4>2. ~IsUserItem(Reply(c, Last(x.msgs).n))
        BY DEF Reply, IsUserItem
      <4> QED BY <3>1, <4>1, <4>2 DEF Fronted, Extended
    <3>4. style[c].by = "own" => x.key = ConvKey(<<style[c].conv>>)
      BY <2>1 DEF Belongs
    <3>5. Request(c) \in DOMAIN responses' /\ responses'[Request(c)].norm = x.items
      BY <1>1, <3>1 DEF Stored
    <3> QED BY <1>3, <2>2, <3>1, <3>2, <3>3, <3>4, <3>5 DEF Follows
  <2>3. CASE d # c
    <3> DEFINE k == ConvKey(<<style[d].conv>>)
    <3>1. cl'[d] = cl[d] /\ Follows(style[d], cl[d], rows, responses)
      BY <1>1, <2>3 DEF Others, Once
    <3>2. style[d].by = "own" => Meta(rows', k) = Meta(rows, k) /\ Norm(rows', k) = Norm(rows, k)
      <4>1. SUFFICES ASSUME style[d].by = "own" PROVE k # x.key
        BY <1>3
      <4>2. style[c].by = "own" => style[c].conv # style[d].conv
        BY <2>3, <4>1 DEF HistoriesAlone, Types
      <4>3. ~Belongs(d, style[d], 0, x.key)
        BY <2>1, <2>3, <4>2, Apart
      <4> QED BY <4>1, <4>3 DEF Belongs
    <3>3. cl[d].last \in DOMAIN responses =>
            cl[d].last \in DOMAIN responses' /\ responses'[cl[d].last] = responses[cl[d].last]
      <4>1. cl[d].last # Request(c) \/ cl[d].last = NoRid
        <5>1. cl[d].last = NoRid \/ \E m \in 0..cl[d].sent : cl[d].last = <<d, m>>
          BY PlaceOf
        <5>2. \A m : <<d, m>> # Request(c)
          BY <2>3 DEF Request
        <5> QED BY <5>1, <5>2
      <4>2. NoRid # Request(c)
        BY DEF NoRid, Request
      <4> QED BY <1>1, <4>1, <4>2 DEF Stored
    <3> HIDE DEF k
    <3> QED BY <3>1, <3>2, <3>3 DEF Follows, k
  <2> QED BY <2>2, <2>3
<1> QED BY <1>7, <1>8, <1>9 DEF Once

LEMMA RestartOnce ==
  ASSUME Types, AllTold, Remembered, Once, Undisturbed, Restarts(rows, {"restart"})
  PROVE  Once'
<1>1. /\ \A k \in DOMAIN rows' : k \in DOMAIN rows /\ rows'[k] = rows[k]
      /\ UNCHANGED <<responses, style>>
      /\ \A c \in Clients : cl'[c].pc = "idle" /\ Remembers(cl[c], cl'[c])
  BY DEF Restarts
<1>2. \A k : Texts(k)' = {Meta(rows', k)}
  BY <1>1 DEF Texts, Running
<1>3. \A k : Meta(rows', k) # <<>> => Meta(rows', k) = Meta(rows, k) /\ Norm(rows', k) = Norm(rows, k)
  BY <1>1 DEF Meta, Norm
<1>4. ASSUME NEW k, NEW s \in Texts(k)' PROVE Held(s)' /\ (s # <<>> => Meta(rows', k) # <<>>)
  <2>1. s = Meta(rows', k)
    BY <1>2, <1>4
  <2>2. CASE s = <<>>
    <3>1. Held(<<>>)'
      BY DEF Held, IsInjective, Range
    <3> QED BY <2>2, <3>1
  <2>3. CASE s # <<>>
    <3>1. s \in Texts(k)
      BY <1>3, <2>1, <2>3 DEF Texts
    <3>2. s \in Seq(Items) /\ Held(s)
      BY <3>1, TextsTyped DEF Once
    <3> QED BY <2>1, <2>3, <3>2, StillHeld
  <2> QED BY <2>2, <2>3
<1>5. ASSUME NEW c \in Clients PROVE Follows(style'[c], cl'[c], rows', responses')
  <2>1. Follows(style[c], cl[c], rows, responses)
    BY DEF Once
  <2>2. cl'[c].transcript = cl[c].transcript /\ cl'[c].last = cl[c].last
    BY <1>1 DEF Remembers
  <2> QED BY <1>1, <1>3, <2>1, <2>2 DEF Follows
<1>6. \A c \in Clients : ~Entered(cl'[c])
  BY <1>1 DEF Entered
<1> QED BY <1>4, <1>5, <1>6 DEF Once

LEMMA NextOnce ==
  ASSUME Straight, Plain, HistoriesAlone, Types, AllTold, NormsHeard, Sorted, Once, [Next]_vars
  PROVE  Once'
<1> SUFFICES ASSUME Undisturbed' PROVE Once'
  BY DEF Once
<1>1. Remembered /\ past \subseteq past'
  BY NextRemembered
<1>2. Undisturbed /\ "lost" \notin past' /\ "kill" \notin past'
  BY <1>1 DEF Undisturbed
<1>3. ASSUME NEW c \in Clients, Passes(c) PROVE Once'
  BY <1>1, <1>2, <1>3, PassesOnce
<1>4. ASSUME NEW c \in Clients, Save(c) PROVE Once'
  BY <1>1, <1>2, <1>4, SaveOnce
<1>5. ASSUME NEW c \in Clients, Kill(c) PROVE Once'
  <2>1. "kill" \in past'
    BY <1>5, KillDoes DEF Restarts
  <2> QED BY <1>2, <2>1
<1>6. CASE Restart
  BY <1>1, <1>2, <1>6, RestartDoes, RestartOnce
<1>7. CASE UNCHANGED vars
  <2>1. /\ \A k : Texts(k)' = Texts(k)
        /\ UNCHANGED <<cl, rows, responses, style>>
    BY <1>7 DEF vars, Texts, Running
  <2>2. \A s : Held(s) => Held(s)'
    BY <2>1 DEF Held, Heard
  <2> QED BY <1>2, <2>1, <2>2 DEF Once
<1> QED BY <1>3, <1>4, <1>5, <1>6, <1>7 DEF Next, Passes

LEMMA InitOnce == Init => Once
<1> SUFFICES ASSUME Init PROVE Once
  OBVIOUS
<1>1. DOMAIN rows = {} /\ \A c \in Clients : cl[c].pc = "idle" /\ cl[c].last = NoRid
  BY DEF Init
<1>2. \A k : Texts(k) = {<<>>} /\ Meta(rows, k) = <<>>
  BY <1>1 DEF Texts, Running, Meta
<1>3. Held(<<>>)
  BY DEF Held, IsInjective, Range
<1>4. \A c \in Clients : Follows(style[c], cl[c], rows, responses) /\ ~Entered(cl[c])
  BY <1>1, <1>2 DEF Follows, Entered
<1> QED BY <1>2, <1>3, <1>4 DEF Once

\* No message is twice in a conversation, whoever shares it and however turns
\* fail, resume or are disconnected, as long as those who send whole histories do
\* not share theirs.
THEOREM MessagesOnce ==
  ASSUME Straight, Plain, HistoriesAlone
  PROVE  Spec => []NothingTwice
<1> DEFINE I == Types /\ AllTold /\ NormsHeard /\ Sorted /\ Once
<1>1. Init => I
  BY InitTypes, InitTold, InitSorted, InitOnce
<1>2. I /\ [Next]_vars => I'
  BY NextTypes, NextRemembered, NextHeard, NextSorted, NextOnce
<1>3. I => NothingTwice
  <2> SUFFICES ASSUME I, Undisturbed, NEW k \in DOMAIN rows PROVE IsInjective(rows[k].meta)
    BY DEF NothingTwice, Undisturbed
  <2>1. rows[k].meta \in Texts(k)
    BY DEF Texts, Meta
  <2> QED BY <2>1 DEF Once, Held
<1> QED BY <1>1, <1>2, <1>3, PTL DEF Spec
================================================================================
