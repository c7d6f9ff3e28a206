---------------------------- MODULE ChatFlowProofs ----------------------------
(***************************************************************************)
(* Chat Completions for any number of clients, accounts, requests and      *)
(* restarts: rows are not pinned apart from the Gemini chat they continue, *)
(* those who share a row take turns and lose none, and clients that chain  *)
(* by prefix with openings of their own stay in chats of their own, hear   *)
(* their own history there and are found again.                            *)
(***************************************************************************)
EXTENDS ChatFlow, SubsequencesProofs, TLAPS

\* Requests have no uploads, which may move a row to another account
\* (PickAvailable).
NoUploads == Uploading \subseteq {FALSE}

\* A slot that two versions of accounts.txt have is the same account in both.
SlotsStay ==
  \A p, q \in Pools : \A i \in DOMAIN p \cap DOMAIN q : p[i] = q[i]

-----------------------------------------------------------------------------
(* RowsMatchTheirAccount is silent about a row whose slot is gone, though   *)
(* the slot may come back.  The inductive form is not: the purge leaves no  *)
(* continuation on such a slot, and a request that saves one has a slot.    *)

RowFields == {"account", "meta", "lock"}

Matches(account, meta) ==
  meta # NoMeta => account \in slots /\ meta.acct = pool[account]

RowsMatch ==
  \A k \in DOMAIN rows :
    DOMAIN rows[k] = RowFields /\ Matches(rows[k].account, rows[k].meta)

RequestFields ==
  {"pc", "conv", "transcript", "sent", "msgs", "stream", "upload", "key",
   "cut", "turns", "resume", "account", "meta", "answer"}

Legal(c) ==
  /\ DOMAIN cl[c] = RequestFields
  /\ cl[c].upload = FALSE
  /\ Running(c) => cl[c].account \in slots

PinInv ==
  /\ pool \in Pools
  /\ RowsMatch
  /\ DOMAIN cl = Clients /\ \A c \in Clients : Legal(c)

-----------------------------------------------------------------------------
(* What the calls of the store do to the rows *)

\* The row a key leads to is a row of the table.
LEMMA FoundRow ==
  ASSUME RowsMatch, NEW key, Known(key)
  PROVE  Matches(RowOf(key).account, RowOf(key).meta)
BY DEF RowsMatch, Known, RowOf

\* get_or_new keeps the rows, and a row it makes has nothing to continue.
LEMMA CreatedRows ==
  ASSUME RowsMatch, NEW key, rows' = WithRow(key), UNCHANGED pool
  PROVE  RowsMatch'
<1> DEFINE row == [account |-> NoSlot, meta |-> NoMeta, lock |-> nextLock]
<1>1. DOMAIN row = RowFields /\ row.meta = NoMeta
  BY DEF RowFields
<1> HIDE DEF row
<1>2. CASE Known(key)
  BY <1>2 DEF WithRow, RowsMatch, Matches, slots
<1>3. CASE ~Known(key)
  <2>1. rows' = Put(rows, Resolve(key), row)
    BY <1>3 DEF WithRow, row
  <2>2. /\ DOMAIN rows' = DOMAIN rows \cup {Resolve(key)}
        /\ \A k \in DOMAIN rows' : rows'[k] = IF k = Resolve(key) THEN row ELSE rows[k]
    BY <2>1 DEF Put
  <2> QED BY <2>2, <1>1 DEF RowsMatch, Matches, slots
<1> QED BY <1>2, <1>3

\* persist of a pin and a continuation that belong together.
LEMMA SavedRows ==
  ASSUME RowsMatch, NEW key, NEW account, NEW meta, SaveRow(key, account, meta),
         Matches(account, meta), UNCHANGED pool
  PROVE  RowsMatch'
<1> DEFINE table == WithRow(key)
           at == Resolve(key)
           row == [account |-> NoSlot, meta |-> NoMeta, lock |-> nextLock]
<1>1. DOMAIN row = RowFields /\ row.meta = NoMeta
  BY DEF RowFields
<1>2. /\ at \in DOMAIN table
      /\ \A k \in DOMAIN table : /\ DOMAIN table[k] = RowFields
                                 /\ Matches(table[k].account, table[k].meta)
  <2>1. CASE Known(key)
    BY <2>1 DEF WithRow, Known, RowsMatch
  <2>2. CASE ~Known(key)
    <3>1. table = Put(rows, at, row)
      BY <2>2 DEF WithRow
    <3> HIDE DEF table, at, row
    <3>2. /\ DOMAIN table = DOMAIN rows \cup {at}
          /\ \A k \in DOMAIN table : table[k] = IF k = at THEN row ELSE rows[k]
      BY <3>1 DEF Put
    <3> QED BY <3>2, <1>1 DEF RowsMatch, Matches
  <2> QED BY <2>1, <2>2
<1>3. rows' = [table EXCEPT ![at].account = account, ![at].meta = meta]
  BY DEF SaveRow
<1> HIDE DEF table, at, row
<1>4. /\ DOMAIN rows' = DOMAIN table
      /\ \A k \in DOMAIN table \ {at} : rows'[k] = table[k]
      /\ DOMAIN rows'[at] = RowFields
      /\ rows'[at].account = account /\ rows'[at].meta = meta
  BY <1>2, <1>3 DEF RowFields
<1> QED BY <1>2, <1>4 DEF RowsMatch, Matches, slots

\* drop_if_fresh only removes rows.
LEMMA DroppedRows ==
  ASSUME RowsMatch, NEW key, DropIfFresh(key), UNCHANGED pool
  PROVE  RowsMatch'
<1>1. /\ DOMAIN rows' \subseteq DOMAIN rows
      /\ \A k \in DOMAIN rows' : rows'[k] = rows[k]
  BY DEF DropIfFresh, Without
<1> QED BY <1>1 DEF RowsMatch, Matches, slots

\* A row that stays as it is.
LEMMA SameRows ==
  ASSUME RowsMatch, UNCHANGED <<rows, pool>>
  PROVE  RowsMatch'
BY DEF RowsMatch, Matches, slots

-----------------------------------------------------------------------------
(* What the steps do to the requests *)

\* A step of one client that leaves the accounts alone.
LEMMA OneRequest ==
  ASSUME PinInv, NEW c \in Clients, NEW req,
         cl' = [cl EXCEPT ![c] = req], UNCHANGED pool,
         DOMAIN req = RequestFields, req.upload = FALSE,
         req.pc \in {"turn", "answered"} => req.account \in slots
  PROVE  DOMAIN cl' = Clients /\ \A d \in Clients : Legal(d)'
<1>1. /\ DOMAIN cl' = Clients
      /\ \A d \in Clients : cl'[d] = IF d = c THEN req ELSE cl[d]
  BY DEF PinInv
<1> QED BY <1>1 DEF PinInv, Legal, Running, slots

\* A request that is over, or that is new, is legal.
LEMMA IdleLegal ==
  ASSUME NEW conv, NEW transcript, NEW sent
  PROVE  /\ DOMAIN Idle(conv, transcript, sent) = RequestFields
         /\ Idle(conv, transcript, sent).upload = FALSE
         /\ Idle(conv, transcript, sent).pc = "idle"
BY DEF Idle, RequestFields

LEMMA NewRequests ==
  ASSUME NoUploads, NEW c, NEW req \in Requests(c)
  PROVE  DOMAIN req = RequestFields /\ req.upload = FALSE /\ req.pc = "arrived"
<1>1. PICK text \in NextTexts(c), stream \in Streaming, upload \in Uploading :
        req = NewRequest(c, text, stream, upload)
  BY DEF Requests
<1>2. upload = FALSE
  BY DEF NoUploads
<1> QED BY <1>1, <1>2 DEF NewRequest, Idle, RequestFields

\* A request arrives; a chained one takes the pin and the continuation of its
\* prefix, or those of a row of its own, together.
LEMMA ArrivePins ==
  ASSUME PinInv, NoUploads, NEW c \in Clients, Arrive(c)
  PROVE  RowsMatch' /\ DOMAIN cl' = Clients /\ \A d \in Clients : Legal(d)'
<1>1. CASE ArriveConv(c)
  <2> PICK req \in Requests(c) : cl' = [cl EXCEPT ![c] = [req EXCEPT !.key = ConvKey(c)]]
    BY <1>1 DEF ArriveConv
  <2> DEFINE r == [req EXCEPT !.key = ConvKey(c)]
  <2>1. DOMAIN r = RequestFields /\ r.upload = FALSE /\ r.pc = "arrived"
    BY NewRequests DEF RequestFields
  <2>2. cl' = [cl EXCEPT ![c] = r] /\ UNCHANGED <<rows, pool>>
    BY <1>1 DEF ArriveConv
  <2> HIDE DEF r
  <2> QED BY <2>1, <2>2, OneRequest, SameRows DEF PinInv
<1>2. CASE ArriveChained(c)
  <2> PICK req \in Requests(c) :
        LET cut == ChainCut(req.msgs)
            prev == RowOf(Fingerprint(DropLast(req.msgs, cut)))
            key == Fingerprint(req.msgs)
            own == Known(key) /\ RowOf(key).meta # NoMeta
            account == IF own THEN RowOf(key).account ELSE prev.account
            meta == IF own THEN RowOf(key).meta ELSE prev.meta
        IN  /\ cut > 0
            /\ SaveRow(key, account, meta)
            /\ cl' = [cl EXCEPT ![c] =
                 [req EXCEPT !.key = key, !.cut = cut, !.resume = meta,
                             !.turns = <<req.msgs[Len(req.msgs)]>>]]
    BY <1>2 DEF ArriveChained
  <2> DEFINE cut == ChainCut(req.msgs)
             before == Fingerprint(DropLast(req.msgs, cut))
             key == Fingerprint(req.msgs)
             own == Known(key) /\ RowOf(key).meta # NoMeta
             account == IF own THEN RowOf(key).account ELSE RowOf(before).account
             meta == IF own THEN RowOf(key).meta ELSE RowOf(before).meta
             r == [req EXCEPT !.key = key, !.cut = cut, !.resume = meta,
                              !.turns = <<req.msgs[Len(req.msgs)]>>]
  <2>1. SaveRow(key, account, meta) /\ cl' = [cl EXCEPT ![c] = r] /\ cut > 0
    OBVIOUS
  <2>2. Known(before)
    <3> DEFINE good == {n \in {1, 2} : Len(req.msgs) > n /\
                                       Resumable(Fingerprint(DropLast(req.msgs, n)))}
    <3>1. cut = IF good = {} THEN 0 ELSE CHOOSE n \in good : \A m \in good : n <= m
      BY DEF ChainCut
    <3>2. good # {}
      BY <2>1, <3>1
    <3>3. \E n \in good : \A m \in good : n <= m
      BY <3>2
    <3>4. cut \in good
      BY <3>1, <3>2, <3>3
    <3> QED BY <3>4 DEF Resumable
  <2>3. DOMAIN r = RequestFields /\ r.upload = FALSE /\ r.pc = "arrived"
    BY NewRequests DEF RequestFields
  <2>4. Matches(account, meta)
    BY <2>2, FoundRow DEF PinInv
  <2>5. UNCHANGED pool
    BY <1>2 DEF ArriveChained
  <2> HIDE DEF cut, before, key, own, account, meta, r
  <2>6. RowsMatch'
    BY <2>1, <2>4, <2>5, SavedRows DEF PinInv
  <2> QED BY <2>1, <2>3, <2>5, <2>6, OneRequest
<1>3. CASE ArriveUnchained(c)
  <2> PICK req \in Requests(c) :
        /\ ResetRow(Fingerprint(req.msgs))
        /\ cl' = [cl EXCEPT ![c] =
             [req EXCEPT !.key = Fingerprint(req.msgs), !.turns = req.msgs]]
    BY <1>3 DEF ArriveUnchained
  <2> DEFINE r == [req EXCEPT !.key = Fingerprint(req.msgs), !.turns = req.msgs]
  <2>1. DOMAIN r = RequestFields /\ r.upload = FALSE /\ r.pc = "arrived"
    BY NewRequests DEF RequestFields
  <2>2. cl' = [cl EXCEPT ![c] = r] /\ UNCHANGED pool
    BY <1>3 DEF ArriveUnchained
  <2> HIDE DEF r
  <2>3. RowsMatch'
    BY <2>2, SavedRows DEF PinInv, ResetRow, Matches
  <2> QED BY <2>1, <2>2, <2>3, OneRequest
<1> QED BY <1>1, <1>2, <1>3 DEF Arrive

\* The wait for the conversation lock, and what it resolves to: rows may be made.
LEMMA LockPins ==
  ASSUME PinInv, NEW c \in Clients, JoinLock(c) \/ Enter(c)
  PROVE  RowsMatch' /\ DOMAIN cl' = Clients /\ \A d \in Clients : Legal(d)'
<1>1. CASE JoinLock(c)
  <2> DEFINE r == [cl[c] EXCEPT !.pc = "waiting"]
  <2>1. rows' = WithRow(cl[c].key) /\ cl' = [cl EXCEPT ![c] = r] /\ UNCHANGED pool
    BY <1>1 DEF JoinLock
  <2>2. DOMAIN r = RequestFields /\ r.upload = FALSE /\ r.pc = "waiting"
    BY DEF PinInv, Legal, RequestFields
  <2> HIDE DEF r
  <2>3. RowsMatch'
    BY <2>1, CreatedRows DEF PinInv
  <2> QED BY <2>1, <2>2, <2>3, OneRequest
<1>2. CASE Enter(c)
  <2> DEFINE meta == IF Known(cl[c].key) THEN RowOf(cl[c].key).meta ELSE NoMeta
             texts == UserTexts(cl[c].msgs)
             turns == IF meta = NoMeta THEN texts ELSE <<texts[Len(texts)]>>
             r == IF cl[c].conv = NoConv THEN [cl[c] EXCEPT !.pc = "entered"]
                  ELSE [cl[c] EXCEPT !.pc = "entered", !.resume = meta, !.turns = turns]
  <2>1. DOMAIN cl[c] = RequestFields /\ cl[c].upload = FALSE /\ DOMAIN cl = Clients
    BY DEF PinInv, Legal
  <2>2. cl' = [cl EXCEPT ![c] = r]
    BY <1>2, <2>1 DEF Enter, RequestFields
  <2>3. DOMAIN r = RequestFields /\ r.upload = FALSE /\ r.pc = "entered"
    BY <2>1 DEF RequestFields
  <2>4. UNCHANGED pool /\ (UNCHANGED rows \/ rows' = WithRow(cl[c].key))
    BY <1>2 DEF Enter
  <2> HIDE DEF r
  <2>5. RowsMatch'
    BY <2>4, CreatedRows, SameRows DEF PinInv
  <2> QED BY <2>2, <2>3, <2>4, <2>5, OneRequest
<1> QED BY <1>1, <1>2

\* The account of a turn is a slot, and a row is pinned to another one only
\* without its continuation.
LEMMA PickPins ==
  ASSUME PinInv, NEW c \in Clients, Pick(c)
  PROVE  RowsMatch' /\ DOMAIN cl' = Clients /\ \A d \in Clients : Legal(d)'
<1> DEFINE key == cl[c].key
<1>1. DOMAIN cl[c] = RequestFields /\ cl[c].upload = FALSE /\ RowsMatch
  BY DEF PinInv, Legal
<1>2. ASSUME NEW account \in slots, NEW meta, Run(c, account, meta)
      PROVE  UNCHANGED pool /\ DOMAIN cl' = Clients /\ \A d \in Clients : Legal(d)'
  <2> DEFINE r == [cl[c] EXCEPT !.pc = "turn", !.account = account, !.meta = meta]
  <2>1. cl' = [cl EXCEPT ![c] = r] /\ UNCHANGED pool
    BY <1>2 DEF Run
  <2>2. DOMAIN r = RequestFields /\ r.upload = FALSE /\ r.account \in slots
    BY <1>1 DEF RequestFields
  <2> HIDE DEF r
  <2> QED BY <2>1, <2>2, OneRequest
<1>3. CASE PickSticky(c)
  BY <1>1, <1>2, <1>3, SameRows DEF PickSticky, Pinned
<1>4. CASE PickRepin(c)
  <2> PICK a \in slots : SaveRow(key, a, NoMeta) /\ Run(c, a, NoMeta)
    BY <1>4 DEF PickRepin
  <2> QED BY <1>1, <1>2, SavedRows DEF Matches
<1>5. CASE PickAvailable(c)
  BY <1>1, <1>5 DEF PickAvailable
<1>6. CASE PickFresh(c)
  <2> DEFINE meta == IF Known(key) THEN RowOf(key).meta ELSE NoMeta
  <2>1. CASE Pinned(key)
    BY <1>1, <1>2, <1>6, <2>1, SameRows DEF PickFresh, Pinned
  <2>2. CASE ~Pinned(key)
    <3>1. PICK a \in slots : SaveRow(key, a, meta) /\ Run(c, a, meta)
      BY <1>6, <2>2 DEF PickFresh
    <3>2. meta = NoMeta
      BY <1>1, <2>2, FoundRow DEF Pinned, Matches
    <3> QED BY <1>1, <1>2, <3>1, <3>2, SavedRows DEF Matches
  <2> QED BY <2>1, <2>2
<1> QED BY <1>3, <1>4, <1>5, <1>6 DEF Pick

\* The turn and its ends: what is saved is what the account of the turn minted.
LEMMA TurnPins ==
  ASSUME PinInv, NEW c \in Clients,
         Answer(c) \/ Fail(c) \/ RetryFresh(c) \/ Save(c) \/ Disconnect(c)
  PROVE  RowsMatch' /\ DOMAIN cl' = Clients /\ \A d \in Clients : Legal(d)'
<1>1. DOMAIN cl[c] = RequestFields /\ cl[c].upload = FALSE /\ RowsMatch
  BY DEF PinInv, Legal
<1>2. ASSUME cl[c].pc \in {"turn", "answered"} PROVE cl[c].account \in slots
  BY <1>2 DEF PinInv, Legal, Running
<1>3. CASE Answer(c)
  <2> PICK a \in Answers : cl' = [cl EXCEPT ![c].pc = "answered", ![c].answer = <<a>>]
    BY <1>3 DEF Answer
  <2> DEFINE r == [cl[c] EXCEPT !.pc = "answered", !.answer = <<a>>]
  <2>1. cl' = [cl EXCEPT ![c] = r] /\ UNCHANGED <<rows, pool>>
    BY <1>3 DEF Answer
  <2>2. DOMAIN r = RequestFields /\ r.upload = FALSE /\ r.account = cl[c].account
    BY <1>1 DEF RequestFields
  <2>3. cl[c].account \in slots
    BY <1>2, <1>3 DEF Answer
  <2> HIDE DEF r
  <2> QED BY <1>1, <2>1, <2>2, <2>3, OneRequest, SameRows
<1>4. CASE Fail(c)
  <2> DEFINE r == Idle(cl[c].conv, cl[c].transcript, cl[c].sent)
  <2>1. DropIfFresh(cl[c].key) /\ cl' = [cl EXCEPT ![c] = r] /\ UNCHANGED pool
    BY <1>4 DEF Fail
  <2>2. RowsMatch'
    BY <1>1, <2>1, DroppedRows
  <2> HIDE DEF r
  <2> QED BY <2>1, <2>2, IdleLegal, OneRequest DEF r
<1>5. CASE RetryFresh(c)
  <2> DEFINE r == [cl[c] EXCEPT !.meta = NoMeta]
  <2>1. cl' = [cl EXCEPT ![c] = r] /\ UNCHANGED <<rows, pool>> /\ cl[c].account \in slots
    BY <1>2, <1>5 DEF RetryFresh
  <2>2. DOMAIN r = RequestFields /\ r.upload = FALSE /\ r.account = cl[c].account
    BY <1>1 DEF RequestFields
  <2> HIDE DEF r
  <2> QED BY <1>1, <2>1, <2>2, OneRequest, SameRows
<1>6. CASE Save(c)
  <2> DEFINE req == cl[c]
             meta == [acct |-> pool[req.account],
                      hist |-> req.meta.hist \o req.turns \o req.answer]
  <2>1. SaveRow(req.key, req.account, meta) /\ UNCHANGED pool /\ req.account \in slots
    BY <1>2, <1>6 DEF Save
  <2>2. meta.acct = pool[req.account]
    OBVIOUS
  <2>3. PICK transcript : cl' = [cl EXCEPT ![c] = Idle(req.conv, transcript, req.sent)]
    BY <1>6 DEF Save
  <2> HIDE DEF meta
  <2>4. RowsMatch'
    BY <1>1, <2>1, <2>2, SavedRows DEF Matches
  <2> DEFINE r == Idle(req.conv, transcript, req.sent)
  <2>5. DOMAIN r = RequestFields /\ r.upload = FALSE /\ r.pc = "idle"
    BY DEF Idle, RequestFields
  <2> HIDE DEF r
  <2> QED BY <2>1, <2>3, <2>4, <2>5, OneRequest DEF r
<1>7. CASE Disconnect(c)
  <2>1. PICK seen : cl' = [cl EXCEPT ![c] = Idle(cl[c].conv, seen, cl[c].sent)]
    BY <1>7 DEF Disconnect
  <2> DEFINE r == Idle(cl[c].conv, seen, cl[c].sent)
  <2>2. DOMAIN r = RequestFields /\ r.upload = FALSE /\ r.pc = "idle"
    BY DEF Idle, RequestFields
  <2>3. UNCHANGED <<rows, pool>>
    BY <1>7 DEF Disconnect
  <2> HIDE DEF r
  <2> QED BY <1>1, <2>1, <2>2, <2>3, OneRequest, SameRows DEF r
<1> QED BY <1>3, <1>4, <1>5, <1>6, <1>7

\* After a restart the rows that are left are pinned to slots that are there,
\* and these are the accounts they were.
LEMMA RestartPins ==
  ASSUME PinInv, SlotsStay, Restart
  PROVE  PinInv'
<1> PICK jars \in Pools :
      \E up \in (IF "degrade" \in Events THEN SUBSET DOMAIN jars ELSE {DOMAIN jars}) :
        pool' = jars /\ rows' = Without(rows, DeadRows(jars, up))
  BY DEF Restart
<1> PICK up : pool' = jars /\ rows' = Without(rows, DeadRows(jars, up))
  OBVIOUS
<1>1. /\ DOMAIN rows' \subseteq DOMAIN rows
      /\ \A k \in DOMAIN rows' :
           /\ rows'[k] = rows[k]
           /\ rows[k].meta # NoMeta => rows[k].account \in DOMAIN jars
  BY DEF Without, DeadRows
<1>2. \A i \in DOMAIN pool \cap DOMAIN jars : pool[i] = jars[i]
  BY DEF SlotsStay, PinInv
<1>3. RowsMatch'
  BY <1>1, <1>2 DEF PinInv, RowsMatch, Matches, slots
<1>4. cl' = [c \in Clients |-> Idle(cl[c].conv, cl[c].transcript, cl[c].sent)]
  BY DEF Restart
<1>5. DOMAIN cl' = Clients /\ \A c \in Clients : Legal(c)'
  <2>1. DOMAIN cl' = Clients
    BY <1>4
  <2>2. ASSUME NEW c \in Clients PROVE Legal(c)'
    <3>1. cl'[c] = Idle(cl[c].conv, cl[c].transcript, cl[c].sent)
      BY <1>4
    <3> QED BY <3>1 DEF Legal, Running, Idle, RequestFields
  <2> QED BY <2>1, <2>2
<1> QED BY <1>3, <1>5 DEF PinInv

-----------------------------------------------------------------------------
\* PinInv is inductive and holds in every reachable state.
LEMMA PinsKept == NoUploads /\ SlotsStay => (Spec => []PinInv)
<1> SUFFICES ASSUME NoUploads, SlotsStay PROVE Spec => []PinInv
  OBVIOUS
<1>1. Init => PinInv
  <2> SUFFICES ASSUME Init PROVE PinInv
    OBVIOUS
  <2>1. PICK conv : cl = [c \in Clients |-> Idle(conv[c], <<>>, 0)]
    BY DEF Init
  <2>2. DOMAIN cl = Clients /\ \A c \in Clients : Legal(c)
    BY <2>1, IdleLegal DEF Legal, Running
  <2> QED BY <2>2 DEF Init, PinInv, RowsMatch
<1>2. PinInv /\ [Next]_vars => PinInv'
  <2> SUFFICES ASSUME PinInv, [Next]_vars PROVE PinInv'
    OBVIOUS
  <2>1. ASSUME NEW c \in Clients,
               \/ Arrive(c) \/ JoinLock(c) \/ Enter(c) \/ Pick(c)
               \/ Answer(c) \/ Fail(c) \/ RetryFresh(c) \/ Save(c) \/ Disconnect(c)
        PROVE  PinInv'
    <3>1. RowsMatch' /\ DOMAIN cl' = Clients /\ \A d \in Clients : Legal(d)'
      BY <2>1, ArrivePins, LockPins, PickPins, TurnPins
    <3>2. UNCHANGED pool
      BY <2>1 DEF Arrive, ArriveConv, ArriveChained, ArriveUnchained, JoinLock, Enter,
             Pick, PickSticky, PickRepin, PickAvailable, PickFresh, Run,
             Answer, Fail, RetryFresh, Save, Disconnect
    <3> QED BY <3>1, <3>2 DEF PinInv
  <2>2. ASSUME UNCHANGED <<rows, cl, pool>> PROVE PinInv'
    BY <2>2 DEF PinInv, RowsMatch, Matches, Legal, Running, slots
  <2>3. UNCHANGED vars \/ (\E a \in slots : Degrade(a) \/ Heal(a))
          => UNCHANGED <<rows, cl, pool>>
    BY DEF vars, Degrade, Heal
  <2> QED BY <2>1, <2>2, <2>3, RestartPins DEF Next
<1> QED BY <1>1, <1>2, PTL DEF Spec

\* For any number of clients, accounts and restarts: while requests carry no
\* uploads and slots keep their accounts, no row pairs one account's slot with
\* the Gemini chat of another, whatever fails, races or is sent again
\* (_pick_account_for_turns, _save_state, _purge_dead_continuations).
THEOREM RowsStayMatched ==
  NoUploads /\ SlotsStay => (Spec => []RowsMatchTheirAccount)
<1> SUFFICES ASSUME NoUploads, SlotsStay PROVE Spec => []RowsMatchTheirAccount
  OBVIOUS
<1>1. PinInv => RowsMatchTheirAccount
  BY DEF PinInv, RowsMatch, Matches, RowsMatchTheirAccount
<1> QED BY <1>1, PinsKept, PTL

-----------------------------------------------------------------------------
(* Rows and aliases have different keys: a row is named after a transcript   *)
(* that ends with the user, an alias after one that ends with an answer.  So *)
(* an alias leads to a row in one hop.                                       *)

Texts == {Opening[c] : c \in Clients} \cup FollowUps \cup Answers

Even(n) == \E i \in Nat : n = 2 * i

AliasKey(k) == \E m \in Seq(Texts) : Even(Len(m)) /\ k = <<"fp", m>>

\* A transcript that client c has read
Tale(c, t) == t \in Seq(Texts) /\ Even(Len(t)) /\ (t # <<>> => t[1] = Opening[c])

\* A request of client c, when the slots are those of S
Request(c, x, S) ==
  /\ DOMAIN x = RequestFields
  /\ x.pc \in {"idle", "arrived", "waiting", "entered", "turn", "answered"}
  /\ Tale(c, x.transcript)
  /\ x.turns \in Seq(Texts) /\ x.resume.hist \in Seq(Texts) /\ x.meta.hist \in Seq(Texts)
  /\ x.pc # "idle" =>
       /\ \E text \in Texts : x.msgs = Append(x.transcript, text)
       /\ x.msgs[1] = Opening[c]
       /\ x.key = IF x.conv = NoConv THEN Fingerprint(x.msgs) ELSE <<"conv", <<x.conv>>>>
       /\ x.stream \in Streaming /\ x.upload \in Uploading
  /\ x.pc = "answered" => \E a \in Answers : x.answer = <<a>>
  /\ x.pc # "answered" => x.answer = <<>>
  /\ x.pc \in {"turn", "answered"} => x.account \in S

RowOk(row, S) ==
  /\ DOMAIN row = RowFields /\ row.meta.hist \in Seq(Texts)
  /\ row.meta # NoMeta => row.account \in S

Flat(al) == \A a \in DOMAIN al : AliasKey(a) /\ ~AliasKey(al[a])

Keyed ==
  /\ avail \subseteq slots
  /\ DOMAIN cl = Clients /\ \A c \in Clients : Request(c, cl[c], slots)
  /\ \A k \in DOMAIN rows : ~AliasKey(k) /\ RowOk(rows[k], slots)
  /\ Flat(aliases)

LEMMA EvenNext ==
  ASSUME NEW n \in Nat, Even(n)
  PROVE  ~Even(n + 1) /\ Even(n + 2)
<1> PICK i \in Nat : n = 2 * i
  BY DEF Even
<1>1. n + 2 = 2 * (i + 1) /\ i + 1 \in Nat
  OBVIOUS
<1>2. ASSUME NEW j \in Nat, n + 1 = 2 * j PROVE FALSE
  BY <1>2
<1> QED BY <1>1, <1>2 DEF Even

\* What a client has told and one text more: a key of a row.
LEMMA AskedKey ==
  ASSUME NEW c, NEW t, Tale(c, t), NEW text \in Texts
  PROVE  /\ Append(t, text) \in Seq(Texts) /\ Len(Append(t, text)) = Len(t) + 1
         /\ ~Even(Len(Append(t, text))) /\ ~AliasKey(Fingerprint(Append(t, text)))
<1> DEFINE m == Append(t, text)
<1>1. m \in Seq(Texts) /\ Len(m) = Len(t) + 1 /\ Len(t) \in Nat
  BY DEF Tale
<1>2. ~Even(Len(m))
  BY <1>1, EvenNext DEF Tale
<1> HIDE DEF m
<1>3. ASSUME NEW f \in Seq(Texts), Even(Len(f)), Fingerprint(m) = <<"fp", f>> PROVE FALSE
  BY <1>2, <1>3 DEF Fingerprint
<1> QED BY <1>1, <1>2, <1>3 DEF AliasKey, m

LEMMA ConvKeys ==
  ASSUME NEW v
  PROVE  ~AliasKey(<<"conv", v>>)
<1> SUFFICES ASSUME NEW f, <<"conv", v>> = <<"fp", f>> PROVE FALSE
  BY DEF AliasKey
<1>1. "conv" = "fp"
  OBVIOUS
<1> QED BY <1>1

\* The key of a request is that of a row.
LEMMA RequestKey ==
  ASSUME NEW c, NEW x, NEW S, Request(c, x, S), x.pc # "idle"
  PROVE  /\ ~AliasKey(x.key) /\ x.msgs \in Seq(Texts) /\ Len(x.msgs) = Len(x.transcript) + 1
         /\ ~Even(Len(x.msgs)) /\ Len(x.transcript) \in Nat
<1>1. PICK text \in Texts : x.msgs = Append(x.transcript, text)
  BY DEF Request
<1>2. Tale(c, x.transcript) /\ x.key = IF x.conv = NoConv THEN Fingerprint(x.msgs) ELSE <<"conv", <<x.conv>>>>
  BY DEF Request
<1>3. Len(x.transcript) \in Nat
  BY <1>2 DEF Tale
<1>4. /\ x.msgs \in Seq(Texts) /\ Len(x.msgs) = Len(x.transcript) + 1
      /\ ~Even(Len(x.msgs)) /\ ~AliasKey(Fingerprint(x.msgs))
  BY <1>1, <1>2, AskedKey
<1> QED BY <1>2, <1>3, <1>4, ConvKeys

-----------------------------------------------------------------------------
(* The calls of the store, with the keys resolved                            *)

\* Resolve, for a table of aliases
Follow(al, key) ==
  LET keys == {key} \cup DOMAIN al \cup {al[a] : a \in DOMAIN al}
      hop == [k \in keys |-> IF k \in DOMAIN al THEN al[k] ELSE k]
      after[n \in 0..MaxHops] == IF n = 0 THEN key ELSE hop[after[n - 1]]
  IN  after[MaxHops]

LEMMA OneHop ==
  ASSUME NEW al, Flat(al), NEW key
  PROVE  Follow(al, key) = IF key \in DOMAIN al THEN al[key] ELSE key
<1> DEFINE keys == {key} \cup DOMAIN al \cup {al[a] : a \in DOMAIN al}
           hop == [k \in keys |-> IF k \in DOMAIN al THEN al[k] ELSE k]
           Steps(f) == f = [n \in 0..10 |-> IF n = 0 THEN key ELSE hop[f[n - 1]]]
           after == CHOOSE f : Steps(f)
           end == IF key \in DOMAIN al THEN al[key] ELSE key
           g == [n \in 0..10 |-> IF n = 0 THEN key ELSE end]
<1>1. hop[key] = end /\ hop[end] = end
  <2>1. key \in keys /\ end \in keys
    OBVIOUS
  <2>2. end \notin DOMAIN al
    BY DEF Flat
  <2> QED BY <2>1, <2>2
<1>2. Follow(al, key) = after[10]
  BY DEF Follow, MaxHops
<1> HIDE DEF hop, end
<1>3. Steps(g)
  <2>1. \A n \in 0..10 : g[n] = IF n = 0 THEN key ELSE hop[g[n - 1]]
    <3> SUFFICES ASSUME NEW n \in 0..10, n # 0 PROVE end = hop[g[n - 1]]
      OBVIOUS
    <3>1. n - 1 \in 0..10
      OBVIOUS
    <3>2. g[n - 1] = key \/ g[n - 1] = end
      BY <3>1
    <3> QED BY <3>2, <1>1
  <2> QED BY <2>1
<1>4. Steps(after)
  BY <1>3
<1> HIDE DEF after, g
<1>5. \A n \in 1..10 : after[n] = hop[after[n - 1]]
  BY <1>4
<1>6. after[0] = key
  BY <1>4
<1>7. after[1] = end
  BY <1>1, <1>5, <1>6
<1>8. after[2] = end /\ after[3] = end /\ after[4] = end /\ after[5] = end
  <2>1. \A n \in 2..10 : after[n - 1] = end => after[n] = end
    BY <1>1, <1>5
  <2> QED BY <1>7, <2>1
<1>9. after[6] = end /\ after[7] = end /\ after[8] = end /\ after[9] = end /\ after[10] = end
  <2>1. \A n \in 2..10 : after[n - 1] = end => after[n] = end
    BY <1>1, <1>5
  <2> QED BY <1>8, <2>1
<1> QED BY <1>2, <1>9 DEF end

LEMMA Resolves ==
  ASSUME Keyed, NEW key
  PROVE  Resolve(key) = IF key \in DOMAIN aliases THEN aliases[key] ELSE key
<1>1. Resolve(key) = Follow(aliases, key)
  BY DEF Resolve, Follow
<1> QED BY <1>1, OneHop DEF Keyed

\* A key that is no alias is that of its row.
LEMMA OwnRow ==
  ASSUME Keyed, NEW key, ~AliasKey(key)
  PROVE  /\ Resolve(key) = key /\ (Known(key) <=> key \in DOMAIN rows)
         /\ RowOf(key) = rows[key]
BY Resolves DEF Keyed, Flat, Known, RowOf

EmptyRow == [account |-> NoSlot, meta |-> NoMeta, lock |-> nextLock]

\* get_or_new
LEMMA Creates ==
  ASSUME Keyed, NEW key, ~AliasKey(key)
  PROVE  /\ DOMAIN WithRow(key) = DOMAIN rows \cup {key}
         /\ \A k \in DOMAIN rows : WithRow(key)[k] = rows[k]
         /\ key \notin DOMAIN rows => WithRow(key)[key] = EmptyRow
         /\ RowOk(WithRow(key)[key], slots)
<1>1. CASE key \in DOMAIN rows
  BY <1>1, OwnRow DEF WithRow, Keyed
<1>2. CASE key \notin DOMAIN rows
  <2>1. WithRow(key) = Put(rows, key, EmptyRow)
    BY <1>2, OwnRow DEF WithRow, EmptyRow
  <2>2. RowOk(EmptyRow, slots)
    <3>1. /\ DOMAIN EmptyRow = RowFields /\ EmptyRow.meta = NoMeta
      BY DEF EmptyRow, RowFields
    <3>2. NoMeta.hist = <<>>
      BY DEF NoMeta
    <3> QED BY <3>1, <3>2 DEF RowOk
  <2> HIDE DEF EmptyRow
  <2>3. /\ DOMAIN WithRow(key) = DOMAIN rows \cup {key}
        /\ \A k \in DOMAIN rows \cup {key} : WithRow(key)[k] = IF k = key THEN EmptyRow ELSE rows[k]
    BY <2>1 DEF Put
  <2> QED BY <1>2, <2>2, <2>3
<1> QED BY <1>1, <1>2

\* get_or_new, new values, persist
LEMMA Saves ==
  ASSUME Keyed, NEW key, ~AliasKey(key), NEW account, NEW meta, SaveRow(key, account, meta)
  PROVE  /\ DOMAIN rows' = DOMAIN rows \cup {key}
         /\ \A k \in DOMAIN rows \ {key} : rows'[k] = rows[k]
         /\ DOMAIN rows'[key] = RowFields
         /\ rows'[key].account = account /\ rows'[key].meta = meta
         /\ key \in DOMAIN rows => rows'[key].lock = rows[key].lock
<1> DEFINE table == WithRow(key)
<1>1. /\ DOMAIN table = DOMAIN rows \cup {key} /\ DOMAIN table[key] = RowFields
      /\ \A k \in DOMAIN rows : table[k] = rows[k]
  BY Creates DEF RowOk
<1>2. rows' = [table EXCEPT ![key].account = account, ![key].meta = meta]
  BY OwnRow DEF SaveRow
<1> HIDE DEF table
<1>3. /\ DOMAIN rows' = DOMAIN table
      /\ \A k \in DOMAIN table \ {key} : rows'[k] = table[k]
      /\ DOMAIN rows'[key] = RowFields
      /\ rows'[key].account = account /\ rows'[key].meta = meta /\ rows'[key].lock = table[key].lock
  BY <1>1, <1>2 DEF RowFields
<1> QED BY <1>1, <1>3

\* drop_if_fresh
LEMMA Drops ==
  ASSUME Keyed, NEW key, ~AliasKey(key), DropIfFresh(key)
  PROVE  \/ UNCHANGED <<rows, aliases>>
         \/ /\ key \in DOMAIN rows /\ rows[key].meta = NoMeta
            /\ rows' = Without(rows, {key})
            /\ aliases' = Without(aliases, {a \in DOMAIN aliases : aliases[a] = key})
<1>1. ASSUME key \in DOMAIN rows, rows[key].meta = NoMeta
      PROVE  /\ rows' = Without(rows, {key})
             /\ aliases' = Without(aliases, {a \in DOMAIN aliases : aliases[a] = key})
  <2>1. /\ rows' = Without(rows, {key})
        /\ aliases' = Without(aliases, {a \in DOMAIN aliases : a = key \/ aliases[a] = key})
    BY <1>1, OwnRow DEF DropIfFresh, AliasesWithout
  <2>2. \A a \in DOMAIN aliases : a # key
    BY DEF Keyed, Flat
  <2>3. {a \in DOMAIN aliases : a = key \/ aliases[a] = key} = {a \in DOMAIN aliases : aliases[a] = key}
    BY <2>2
  <2> QED BY <2>1, <2>3
<1>2. ASSUME ~(key \in DOMAIN rows /\ rows[key].meta = NoMeta) PROVE UNCHANGED <<rows, aliases>>
  BY <1>2, OwnRow DEF DropIfFresh
<1> QED BY <1>1, <1>2

-----------------------------------------------------------------------------
(* What each step does to the request it is about                            *)

Moves(c, x) ==
  /\ cl' = [cl EXCEPT ![c] = x] /\ DOMAIN x = RequestFields
  /\ UNCHANGED <<pool, avail, restarts>>

\* y is the request x, further on
SameRequest(x, y) ==
  /\ y.conv = x.conv /\ y.transcript = x.transcript /\ y.msgs = x.msgs /\ y.key = x.key
  /\ y.stream = x.stream /\ y.upload = x.upload /\ y.cut = x.cut

SamePrompt(x, y) == y.resume = x.resume /\ y.turns = x.turns

SameTurn(x, y) == y.account = x.account /\ y.meta = x.meta /\ y.answer = x.answer

\* A new request
NewOf(c, x) ==
  /\ cl[c].pc = "idle" /\ x.pc = "arrived" /\ x.conv = cl[c].conv /\ x.transcript = cl[c].transcript
  /\ x.answer = <<>> /\ x.account = NoSlot /\ x.meta = NoMeta
  /\ UNCHANGED <<aliases, line>>

\* The row a chained request resumes: its own, when that has a continuation
SourceOf(x) ==
  IF x.key \in DOMAIN rows /\ rows[x.key].meta # NoMeta THEN x.key
  ELSE Resolve(Fingerprint(DropLast(x.msgs, x.cut)))

Chains(x) ==
  /\ x.cut \in {1, 2} /\ Len(x.msgs) > x.cut /\ x.turns = <<x.msgs[Len(x.msgs)]>>
  /\ Resumable(Fingerprint(DropLast(x.msgs, x.cut)))
  /\ (x.cut = 2 => ~Resumable(Fingerprint(DropLast(x.msgs, 1))))
  /\ SourceOf(x) \in DOMAIN rows
  /\ rows[SourceOf(x)].meta # NoMeta
  /\ SaveRow(x.key, rows[SourceOf(x)].account, rows[SourceOf(x)].meta)
  /\ x.resume = rows[SourceOf(x)].meta

Unchained(x) ==
  x.cut = 0 /\ x.turns = x.msgs /\ x.resume = NoMeta /\ SaveRow(x.key, NoSlot, NoMeta)

Named(x) == x.cut = 0 /\ x.turns = <<>> /\ x.resume = NoMeta /\ UNCHANGED <<rows, nextLock>>

LEMMA NewIs ==
  ASSUME Keyed, NEW c \in Clients, cl[c].pc = "idle", NEW req \in Requests(c)
  PROVE  /\ Request(c, [req EXCEPT !.key = IF req.conv = NoConv THEN Fingerprint(req.msgs)
                                           ELSE <<"conv", <<req.conv>>>>], slots)
         /\ DOMAIN req = RequestFields /\ req.pc = "arrived" /\ req.conv = cl[c].conv
         /\ req.transcript = cl[c].transcript /\ req.msgs # <<>>
         /\ req.turns = <<>> /\ req.resume = NoMeta /\ req.account = NoSlot /\ req.meta = NoMeta
         /\ req.answer = <<>> /\ req.cut = 0
<1>1. PICK text \in NextTexts(c), stream \in Streaming, upload \in Uploading :
        req = NewRequest(c, text, stream, upload)
  BY DEF Requests
<1> DEFINE t == cl[c].transcript
           key == IF req.conv = NoConv THEN Fingerprint(req.msgs) ELSE <<"conv", <<req.conv>>>>
           x == [req EXCEPT !.key = key]
<1>2. Tale(c, t) /\ Len(t) \in Nat
  <2>1. Tale(c, t)
    BY DEF Keyed, Request
  <2> QED BY <2>1 DEF Tale
<1>3. text \in Texts /\ (t = <<>> => text = Opening[c])
  BY DEF NextTexts, Texts
<1>4. /\ DOMAIN req = RequestFields /\ req.pc = "arrived" /\ req.conv = cl[c].conv
      /\ req.transcript = t /\ req.msgs = Append(t, text) /\ req.stream = stream /\ req.upload = upload
      /\ req.turns = <<>> /\ req.resume = NoMeta /\ req.account = NoSlot /\ req.meta = NoMeta
      /\ req.answer = <<>> /\ req.cut = 0
  BY <1>1 DEF NewRequest, Idle, RequestFields
<1>5. req.msgs # <<>> /\ req.msgs[1] = Opening[c]
  BY <1>2, <1>3, <1>4 DEF Tale
<1>6. NoMeta.hist = <<>>
  BY DEF NoMeta
<1>7. /\ DOMAIN x = RequestFields /\ x.pc = "arrived" /\ x.conv = req.conv
      /\ x.transcript = t /\ x.msgs = req.msgs /\ x.stream = stream /\ x.upload = upload
      /\ x.turns = <<>> /\ x.resume = NoMeta /\ x.meta = NoMeta /\ x.answer = <<>> /\ x.key = key
  BY <1>4 DEF RequestFields
<1> HIDE DEF x, key
<1>8. Request(c, x, slots)
  <2>1. \E txt \in Texts : x.msgs = Append(x.transcript, txt)
    BY <1>3, <1>4, <1>7
  <2>2. x.key = IF x.conv = NoConv THEN Fingerprint(x.msgs) ELSE <<"conv", <<x.conv>>>>
    BY <1>7 DEF key
  <2>3. x.turns \in Seq(Texts) /\ x.resume.hist \in Seq(Texts) /\ x.meta.hist \in Seq(Texts)
    <3>1. <<>> \in Seq(Texts)
      OBVIOUS
    <3>2. x.turns = <<>> /\ x.resume.hist = <<>> /\ x.meta.hist = <<>>
      BY <1>6, <1>7
    <3> QED BY <3>1, <3>2
  <2>4. x.msgs[1] = Opening[c] /\ x.stream \in Streaming /\ x.upload \in Uploading
    BY <1>5, <1>7
  <2> QED BY <1>2, <1>7, <2>1, <2>2, <2>3, <2>4 DEF Request
<1> QED BY <1>4, <1>5, <1>8 DEF x, key

LEMMA CutIs ==
  ASSUME NEW msgs, ChainCut(msgs) # 0
  PROVE  /\ ChainCut(msgs) \in {1, 2} /\ Len(msgs) > ChainCut(msgs)
         /\ Resumable(Fingerprint(DropLast(msgs, ChainCut(msgs))))
         /\ ChainCut(msgs) = 2 /\ Len(msgs) > 1 => ~Resumable(Fingerprint(DropLast(msgs, 1)))
<1> DEFINE good == {n \in {1, 2} : Len(msgs) > n /\ Resumable(Fingerprint(DropLast(msgs, n)))}
<1>1. ChainCut(msgs) = IF good = {} THEN 0 ELSE CHOOSE n \in good : \A m \in good : n <= m
  BY DEF ChainCut
<1>2. good # {}
  BY <1>1
<1>3. \E n \in good : \A m \in good : n <= m
  BY <1>2
<1>4. ChainCut(msgs) \in good /\ \A m \in good : ChainCut(msgs) <= m
  BY <1>1, <1>2, <1>3
<1>5. ChainCut(msgs) = 2 => 1 \notin good
  BY <1>4
<1> QED BY <1>4, <1>5

LEMMA ArriveDoes ==
  ASSUME Keyed, NEW c \in Clients, Arrive(c)
  PROVE  \E x : /\ Moves(c, x) /\ Request(c, x, slots) /\ NewOf(c, x)
                /\ \/ x.conv # NoConv /\ Named(x)
                   \/ x.conv = NoConv /\ Unchained(x)
                   \/ x.conv = NoConv /\ Chains(x)
<1>0. cl[c].pc = "idle"
  BY DEF Arrive, ArriveConv, ArriveChained, ArriveUnchained, MayArrive
<1>1. CASE ArriveConv(c)
  <2>1. PICK req \in Requests(c) : cl' = [cl EXCEPT ![c] = [req EXCEPT !.key = ConvKey(c)]]
    BY <1>1 DEF ArriveConv
  <2> DEFINE x == [req EXCEPT !.key = ConvKey(c)]
  <2>2. req.conv = cl[c].conv /\ cl[c].conv # NoConv
    BY <1>0, <1>1, NewIs DEF ArriveConv
  <2>3. x = [req EXCEPT !.key = IF req.conv = NoConv THEN Fingerprint(req.msgs) ELSE <<"conv", <<req.conv>>>>]
    BY <2>2 DEF ConvKey
  <2>4. Request(c, x, slots)
    BY <1>0, <2>3, NewIs
  <2>5. /\ DOMAIN x = RequestFields /\ x.pc = "arrived" /\ x.conv = cl[c].conv
        /\ x.transcript = cl[c].transcript /\ x.answer = <<>> /\ x.account = NoSlot /\ x.meta = NoMeta
        /\ x.cut = 0 /\ x.turns = <<>> /\ x.resume = NoMeta
    <3>1. /\ DOMAIN req = RequestFields /\ req.pc = "arrived" /\ req.conv = cl[c].conv
          /\ req.transcript = cl[c].transcript /\ req.answer = <<>> /\ req.account = NoSlot
          /\ req.meta = NoMeta /\ req.cut = 0 /\ req.turns = <<>> /\ req.resume = NoMeta
      BY <1>0, NewIs
    <3> HIDE DEF Keyed, Requests
    <3> QED BY <3>1 DEF RequestFields
  <2>6. cl' = [cl EXCEPT ![c] = x] /\ UNCHANGED <<rows, nextLock, aliases, line, pool, avail, restarts>>
    BY <1>1, <2>1 DEF ArriveConv
  <2> HIDE DEF x
  <2>7. Moves(c, x) /\ NewOf(c, x) /\ Named(x)
    BY <1>0, <2>5, <2>6 DEF Moves, NewOf, Named
  <2> QED BY <2>2, <2>4, <2>5, <2>7
<1>2. CASE ArriveChained(c)
  <2>1. PICK req \in Requests(c) :
        LET cut == ChainCut(req.msgs)
            prev == RowOf(Fingerprint(DropLast(req.msgs, cut)))
            key == Fingerprint(req.msgs)
            own == Known(key) /\ RowOf(key).meta # NoMeta
            account == IF own THEN RowOf(key).account ELSE prev.account
            meta == IF own THEN RowOf(key).meta ELSE prev.meta
        IN  /\ cut > 0
            /\ SaveRow(key, account, meta)
            /\ cl' = [cl EXCEPT ![c] =
                 [req EXCEPT !.key = key, !.cut = cut, !.resume = meta,
                             !.turns = <<req.msgs[Len(req.msgs)]>>]]
    BY <1>2, Zenon DEF ArriveChained
  <2> DEFINE cut == ChainCut(req.msgs)
             before == Fingerprint(DropLast(req.msgs, cut))
             key == Fingerprint(req.msgs)
             own == Known(key) /\ RowOf(key).meta # NoMeta
             account == IF own THEN RowOf(key).account ELSE RowOf(before).account
             meta == IF own THEN RowOf(key).meta ELSE RowOf(before).meta
             turns == <<req.msgs[Len(req.msgs)]>>
             x == [req EXCEPT !.key = key, !.cut = cut, !.resume = meta, !.turns = turns]
             y == [req EXCEPT !.key = IF req.conv = NoConv THEN Fingerprint(req.msgs)
                                      ELSE <<"conv", <<req.conv>>>>]
  <2>2. cut > 0 /\ SaveRow(key, account, meta) /\ cl' = [cl EXCEPT ![c] = x]
    BY <2>1
  <2>3. UNCHANGED <<aliases, line, pool, avail, restarts>> /\ cl[c].conv = NoConv
    BY <1>2 DEF ArriveChained
  <2>4. /\ Request(c, y, slots) /\ DOMAIN req = RequestFields /\ req.pc = "arrived" /\ req.conv = NoConv
        /\ req.conv = cl[c].conv /\ req.transcript = cl[c].transcript /\ req.answer = <<>>
        /\ req.account = NoSlot /\ req.meta = NoMeta
    BY <1>0, <2>3, NewIs
  <2>5. /\ cut \in {1, 2} /\ Len(req.msgs) > cut /\ Resumable(before)
        /\ cut = 2 => ~Resumable(Fingerprint(DropLast(req.msgs, 1)))
    <3>1. ChainCut(req.msgs) # 0
      BY <2>2
    <3>2. /\ cut \in {1, 2} /\ Len(req.msgs) > cut /\ Resumable(before)
          /\ cut = 2 /\ Len(req.msgs) > 1 => ~Resumable(Fingerprint(DropLast(req.msgs, 1)))
      BY <3>1, CutIs
    <3>3. cut = 2 => Len(req.msgs) > 1
      <4>1. Len(req.msgs) \in Nat
        <5>1. /\ DOMAIN y = RequestFields /\ y.pc = "arrived" /\ y.msgs = req.msgs
          BY <2>4 DEF RequestFields
        <5> HIDE DEF y
        <5>2. y.msgs \in Seq(Texts)
          BY <2>4, <5>1, RequestKey
        <5> QED BY <5>1, <5>2
      <4> QED BY <3>2, <4>1
    <3> QED BY <3>2, <3>3
  <2>6. /\ DOMAIN y = RequestFields /\ y.pc = "arrived" /\ y.conv = req.conv /\ y.msgs = req.msgs
        /\ y.transcript = req.transcript /\ y.answer = <<>> /\ y.account = NoSlot /\ y.meta = NoMeta
        /\ y.key = key /\ y.stream = req.stream /\ y.upload = req.upload
    BY <2>4 DEF RequestFields
  <2>7. /\ DOMAIN x = RequestFields /\ x.pc = "arrived" /\ x.conv = req.conv /\ x.msgs = req.msgs
        /\ x.transcript = req.transcript /\ x.answer = <<>> /\ x.account = NoSlot /\ x.meta = NoMeta
        /\ x.key = key /\ x.stream = req.stream /\ x.upload = req.upload
        /\ x.cut = cut /\ x.resume = meta /\ x.turns = turns
    BY <2>4 DEF RequestFields
  <2> HIDE DEF x, y
  <2>8. ~AliasKey(key) /\ req.msgs \in Seq(Texts)
    BY <2>4, <2>6, RequestKey
  <2>9. own <=> key \in DOMAIN rows /\ rows[key].meta # NoMeta
    BY <2>8, OwnRow
  <2>10. own => account = rows[key].account /\ meta = rows[key].meta
    BY <2>8, OwnRow
  <2>11. ~own => account = rows[Resolve(before)].account /\ meta = rows[Resolve(before)].meta
    BY DEF RowOf
  <2>12. Resolve(before) \in DOMAIN rows /\ rows[Resolve(before)].meta # NoMeta
    BY <2>5 DEF Resumable, Known, RowOf
  <2>13. SourceOf(x) = IF own THEN key ELSE Resolve(before)
    BY <2>7, <2>9 DEF SourceOf
  <2> HIDE DEF own, account, meta, before, key, cut
  <2>14. /\ SourceOf(x) \in DOMAIN rows /\ rows[SourceOf(x)].meta # NoMeta
         /\ account = rows[SourceOf(x)].account /\ meta = rows[SourceOf(x)].meta
    BY <2>9, <2>10, <2>11, <2>12, <2>13
  <2>15. rows[SourceOf(x)].meta.hist \in Seq(Texts)
    BY <2>14 DEF Keyed, RowOk
  <2>16. turns \in Seq(Texts)
    <3>1. Len(req.msgs) \in 1..Len(req.msgs)
      BY <2>5, <2>8
    <3> QED BY <2>8, <3>1
  <2> HIDE DEF turns
  <2>17. Request(c, x, slots)
    BY <2>4, <2>6, <2>7, <2>14, <2>15, <2>16 DEF Request
  <2>18. Moves(c, x) /\ NewOf(c, x)
    BY <1>0, <2>2, <2>3, <2>4, <2>7 DEF Moves, NewOf
  <2>19. Chains(x)
    BY <2>2, <2>5, <2>7, <2>14 DEF Chains, cut, before, turns
  <2> QED BY <2>4, <2>7, <2>17, <2>18, <2>19
<1>3. CASE ArriveUnchained(c)
  <2>1. PICK req \in Requests(c) :
        /\ ResetRow(Fingerprint(req.msgs))
        /\ cl' = [cl EXCEPT ![c] =
             [req EXCEPT !.key = Fingerprint(req.msgs), !.turns = req.msgs]]
    BY <1>3 DEF ArriveUnchained
  <2> DEFINE x == [req EXCEPT !.key = Fingerprint(req.msgs), !.turns = req.msgs]
             y == [req EXCEPT !.key = IF req.conv = NoConv THEN Fingerprint(req.msgs)
                                      ELSE <<"conv", <<req.conv>>>>]
  <2>2. UNCHANGED <<aliases, line, pool, avail, restarts>> /\ cl[c].conv = NoConv
    BY <1>3 DEF ArriveUnchained
  <2>3. /\ Request(c, y, slots) /\ DOMAIN req = RequestFields /\ req.pc = "arrived" /\ req.conv = NoConv
        /\ req.conv = cl[c].conv /\ req.transcript = cl[c].transcript /\ req.answer = <<>>
        /\ req.account = NoSlot /\ req.meta = NoMeta /\ req.cut = 0 /\ req.resume = NoMeta
    BY <1>0, <2>2, NewIs
  <2>4. /\ DOMAIN y = RequestFields /\ y.pc = "arrived" /\ y.conv = req.conv /\ y.msgs = req.msgs
        /\ y.transcript = req.transcript /\ y.answer = <<>> /\ y.account = NoSlot /\ y.meta = NoMeta
        /\ y.key = Fingerprint(req.msgs) /\ y.stream = req.stream /\ y.upload = req.upload
        /\ y.resume = NoMeta
    BY <2>3 DEF RequestFields
  <2>5. /\ DOMAIN x = RequestFields /\ x.pc = "arrived" /\ x.conv = req.conv /\ x.msgs = req.msgs
        /\ x.transcript = req.transcript /\ x.answer = <<>> /\ x.account = NoSlot /\ x.meta = NoMeta
        /\ x.key = Fingerprint(req.msgs) /\ x.stream = req.stream /\ x.upload = req.upload
        /\ x.resume = NoMeta /\ x.cut = 0 /\ x.turns = req.msgs
    BY <2>3 DEF RequestFields
  <2>6. cl' = [cl EXCEPT ![c] = x]
    BY <2>1
  <2> HIDE DEF x, y
  <2>7. y.msgs \in Seq(Texts)
    BY <2>3, <2>4, RequestKey
  <2>8. Request(c, x, slots)
    BY <2>3, <2>4, <2>5, <2>7 DEF Request
  <2>9. Moves(c, x) /\ NewOf(c, x) /\ Unchained(x)
    BY <1>0, <2>1, <2>2, <2>3, <2>5, <2>6 DEF Moves, NewOf, Unchained, ResetRow
  <2> QED BY <2>3, <2>5, <2>8, <2>9
<1> QED BY <1>1, <1>2, <1>3 DEF Arrive


LEMMA JoinDoes ==
  ASSUME Keyed, NEW c \in Clients, JoinLock(c)
  PROVE  \E x : /\ Moves(c, x) /\ Request(c, x, slots)
                /\ SameRequest(cl[c], x) /\ SamePrompt(cl[c], x) /\ SameTurn(cl[c], x)
                /\ cl[c].pc = "arrived" /\ x.pc = "waiting" /\ UNCHANGED aliases
                /\ rows' = WithRow(x.key) /\ line' = Append(line, <<c, rows'[x.key].lock>>)
<1> DEFINE x == [cl[c] EXCEPT !.pc = "waiting"]
<1>1. Request(c, cl[c], slots) /\ cl[c].pc = "arrived"
  BY DEF Keyed, JoinLock
<1>2. /\ cl' = [cl EXCEPT ![c] = x] /\ UNCHANGED <<aliases, pool, avail, restarts>>
      /\ rows' = WithRow(cl[c].key) /\ line' = Append(line, <<c, rows'[Resolve(cl[c].key)].lock>>)
  BY DEF JoinLock
<1>3. DOMAIN cl[c] = RequestFields
  BY <1>1 DEF Request
<1>4. /\ SameRequest(cl[c], x) /\ SamePrompt(cl[c], x) /\ SameTurn(cl[c], x)
      /\ x.pc = "waiting" /\ DOMAIN x = RequestFields
  BY <1>3 DEF RequestFields, SameRequest, SamePrompt, SameTurn
<1> HIDE DEF x
<1>5. Request(c, x, slots)
  BY <1>1, <1>4 DEF Request, SameRequest, SamePrompt, SameTurn
<1>6. Resolve(cl[c].key) = x.key /\ cl[c].key = x.key
  <2>1. ~AliasKey(cl[c].key)
    BY <1>1, RequestKey
  <2>2. Resolve(cl[c].key) = cl[c].key
    BY <2>1, OwnRow
  <2> QED BY <1>4, <2>2 DEF SameRequest
<1>7. Moves(c, x)
  BY <1>2, <1>4 DEF Moves
<1> QED BY <1>1, <1>2, <1>4, <1>5, <1>6, <1>7

LEMMA TextsOf ==
  ASSUME NEW m \in Seq(Texts), m # <<>>
  PROVE  UserTexts(m) \in Seq(Texts) /\ <<UserTexts(m)[Len(UserTexts(m))]>> \in Seq(Texts)
<1> DEFINE n == (Len(m) + 1) \div 2
           u == UserTexts(m)
<1>1. Len(m) \in Nat /\ Len(m) >= 1
  OBVIOUS
<1>2. n \in Nat /\ n >= 1 /\ \A i \in 1..n : 2 * i - 1 \in 1..Len(m)
  BY <1>1
<1>3. u = [i \in 1..n |-> m[2 * i - 1]]
  BY DEF UserTexts
<1> HIDE DEF n, u
<1>4. \A i \in 1..n : u[i] \in Texts
  BY <1>2, <1>3
<1>5. u \in Seq(Texts) /\ Len(u) = n
  BY <1>2, <1>3, <1>4
<1> QED BY <1>2, <1>4, <1>5 DEF u

LEMMA EnterDoes ==
  ASSUME Keyed, NEW c \in Clients, Enter(c)
  PROVE  \E x : /\ Moves(c, x) /\ Request(c, x, slots)
                /\ SameRequest(cl[c], x) /\ SameTurn(cl[c], x)
                /\ cl[c].pc = "waiting" /\ x.pc = "entered" /\ HoldsLock(c) /\ UNCHANGED <<aliases, line>>
                /\ \/ x.conv = NoConv /\ SamePrompt(cl[c], x) /\ UNCHANGED rows
                   \/ x.conv # NoConv /\ rows' = WithRow(x.key) /\ x.resume = rows'[x.key].meta
<1> DEFINE old == cl[c]
           key == cl[c].key
           meta == IF Known(key) THEN RowOf(key).meta ELSE NoMeta
           texts == UserTexts(cl[c].msgs)
           turns == IF meta = NoMeta THEN texts ELSE <<texts[Len(texts)]>>
           x == [old EXCEPT !.pc = "entered", !.resume = meta, !.turns = turns]
           y == [old EXCEPT !.pc = "entered"]
<1>1. Request(c, old, slots) /\ old.pc = "waiting" /\ DOMAIN cl = Clients
  BY DEF Keyed, Enter
<1>2. DOMAIN old = RequestFields
  BY <1>1 DEF Request
<1>3. HoldsLock(c) /\ UNCHANGED <<aliases, line, pool, avail, restarts>>
  BY DEF Enter
<1>4. CASE old.conv = NoConv
  <2>1. cl' = [cl EXCEPT ![c] = y] /\ UNCHANGED rows
    BY <1>1, <1>4 DEF Enter
  <2>2. /\ SameRequest(old, y) /\ SamePrompt(old, y) /\ SameTurn(old, y)
        /\ y.pc = "entered" /\ DOMAIN y = RequestFields
    BY <1>2 DEF RequestFields, SameRequest, SamePrompt, SameTurn
  <2>3. y.conv = NoConv
    BY <1>4, <2>2 DEF SameRequest
  <2> HIDE DEF old, y
  <2>4. Request(c, y, slots)
    BY <1>1, <2>2 DEF Request, SameRequest, SamePrompt, SameTurn
  <2>5. Moves(c, y)
    BY <1>3, <2>1, <2>2 DEF Moves
  <2> QED BY <1>1, <1>3, <2>1, <2>2, <2>3, <2>4, <2>5 DEF old
<1>5. CASE old.conv # NoConv
  <2>1. cl' = [cl EXCEPT ![c] = x] /\ rows' = WithRow(key)
    BY <1>1, <1>2, <1>5 DEF Enter, RequestFields
  <2>2. /\ SameRequest(old, x) /\ SameTurn(old, x) /\ x.resume = meta /\ x.turns = turns
        /\ x.pc = "entered" /\ DOMAIN x = RequestFields
    BY <1>2 DEF RequestFields, SameRequest, SamePrompt, SameTurn
  <2>3. ~AliasKey(key) /\ old.msgs \in Seq(Texts) /\ old.msgs # <<>>
    <3>1. old.pc # "idle"
      BY <1>1
    <3>2. ~AliasKey(key) /\ old.msgs \in Seq(Texts) /\ Len(old.msgs) = Len(old.transcript) + 1 /\ Len(old.transcript) \in Nat
      BY <1>1, <3>1, RequestKey
    <3> QED BY <3>2
  <2>4. turns \in Seq(Texts)
    BY <2>3, TextsOf
  <2>5. meta = WithRow(key)[key].meta /\ meta.hist \in Seq(Texts)
    <3>1. RowOk(WithRow(key)[key], slots)
      BY <2>3, Creates
    <3>2. meta = WithRow(key)[key].meta
      <4>1. EmptyRow.meta = NoMeta
        BY DEF EmptyRow
      <4>2. (Known(key) <=> key \in DOMAIN rows) /\ RowOf(key) = rows[key]
        BY <2>3, OwnRow
      <4>3. /\ key \in DOMAIN rows => WithRow(key)[key] = rows[key]
            /\ key \notin DOMAIN rows => WithRow(key)[key] = EmptyRow
        BY <2>3, Creates
      <4> QED BY <4>1, <4>2, <4>3
    <3> QED BY <3>1, <3>2 DEF RowOk
  <2>6. x.conv # NoConv /\ x.key = key
    BY <1>5, <2>2 DEF SameRequest
  <2> HIDE DEF old, x, meta, turns, key
  <2>7. Request(c, x, slots)
    BY <1>1, <2>2, <2>4, <2>5 DEF Request, SameRequest, SameTurn
  <2>8. Moves(c, x)
    BY <1>3, <2>1, <2>2 DEF Moves
  <2>9. x.resume = rows'[x.key].meta /\ rows' = WithRow(x.key)
    BY <2>1, <2>2, <2>5, <2>6
  <2> QED BY <1>1, <1>3, <2>2, <2>6, <2>7, <2>8, <2>9 DEF old
<1> QED BY <1>4, <1>5

\* Where a turn runs, and what it resumes
Sticky(c, x) ==
  /\ x.resume # NoMeta /\ x.key \in DOMAIN rows /\ rows[x.key].account \in slots
  /\ x.account = rows[x.key].account
  /\ x.meta = IF rows[x.key].meta # NoMeta THEN rows[x.key].meta ELSE x.resume
  /\ UNCHANGED <<rows, nextLock>>

Repinned(c, x) ==
  /\ x.resume # NoMeta /\ ~(x.key \in DOMAIN rows /\ rows[x.key].account \in slots)
  /\ x.meta = NoMeta /\ SaveRow(x.key, x.account, NoMeta)

Opened(c, x) ==
  /\ x.resume = NoMeta
  /\ x.meta = IF x.key \in DOMAIN rows THEN rows[x.key].meta ELSE NoMeta
  /\ \/ x.key \in DOMAIN rows /\ x.account = rows[x.key].account /\ UNCHANGED <<rows, nextLock>>
     \/ SaveRow(x.key, x.account, x.meta)

LEMMA PickDoes ==
  ASSUME Keyed, NEW c \in Clients, Pick(c)
  PROVE  \E x : /\ Moves(c, x) /\ Request(c, x, slots)
                /\ SameRequest(cl[c], x) /\ SamePrompt(cl[c], x) /\ x.answer = cl[c].answer
                /\ cl[c].pc = "entered" /\ x.pc = "turn" /\ x.account \in slots
                /\ UNCHANGED aliases /\ line' = IF x.stream THEN Released(c) ELSE line
                /\ Sticky(c, x) \/ Repinned(c, x) \/ Opened(c, x)
<1> DEFINE old == cl[c]
           key == cl[c].key
           meta == IF Known(key) THEN RowOf(key).meta ELSE NoMeta
           Chosen(x) == Sticky(c, x) \/ Repinned(c, x) \/ Opened(c, x)
           Goal == \E x : /\ Moves(c, x) /\ Request(c, x, slots)
                          /\ SameRequest(old, x) /\ SamePrompt(old, x) /\ x.answer = old.answer
                          /\ old.pc = "entered" /\ x.pc = "turn" /\ x.account \in slots
                          /\ UNCHANGED aliases /\ line' = IF x.stream THEN Released(c) ELSE line
                          /\ Chosen(x)
<1>1. Request(c, old, slots) /\ old.pc = "entered" /\ old.meta.hist \in Seq(Texts)
  <2>1. Request(c, old, slots)
    BY DEF Keyed
  <2>2. old.pc = "entered"
    BY DEF Pick, PickSticky, PickRepin, PickAvailable, PickFresh
  <2> QED BY <2>1, <2>2 DEF Request
<1>2. DOMAIN old = RequestFields /\ old.resume.hist \in Seq(Texts)
  BY <1>1 DEF Request
<1>3. ~AliasKey(key)
  <2>1. old.pc # "idle"
    BY <1>1
  <2> QED BY <1>1, <2>1, RequestKey
<1>4. /\ Resolve(key) = key /\ (Known(key) <=> key \in DOMAIN rows) /\ RowOf(key) = rows[key]
  BY <1>3, OwnRow
<1>5. key \in DOMAIN rows => rows[key].meta.hist \in Seq(Texts)
  BY DEF Keyed, RowOk
<1>6. NoMeta.hist \in Seq(Texts)
  <2>1. NoMeta.hist = <<>>
    BY DEF NoMeta
  <2> QED BY <2>1
<1> HIDE DEF Chosen, Goal
<1>7. ASSUME NEW a \in slots, NEW m, m.hist \in Seq(Texts), Run(c, a, m),
             \A x : SameRequest(old, x) /\ SamePrompt(old, x) /\ x.account = a /\ x.meta = m => Chosen(x)
      PROVE  Goal
  <2> DEFINE x == [old EXCEPT !.pc = "turn", !.account = a, !.meta = m]
  <2>1. /\ cl' = [cl EXCEPT ![c] = x] /\ UNCHANGED <<aliases, pool, avail>>
        /\ line' = IF old.stream THEN Released(c) ELSE line
    BY <1>7 DEF Run
  <2>2. UNCHANGED restarts
    BY <1>7 DEF Run
  <2>3. /\ SameRequest(old, x) /\ SamePrompt(old, x) /\ x.answer = old.answer
        /\ x.account = a /\ x.meta = m /\ x.pc = "turn" /\ DOMAIN x = RequestFields
    BY <1>2 DEF RequestFields, SameRequest, SamePrompt
  <2> HIDE DEF x, old
  <2>4. Chosen(x)
    BY <1>7, <2>3
  <2>5. Request(c, x, slots)
    BY <1>1, <1>7, <2>3 DEF Request, SameRequest, SamePrompt
  <2>6. Moves(c, x)
    BY <2>1, <2>2, <2>3 DEF Moves
  <2>7. x.stream = old.stream
    BY <2>3 DEF SameRequest
  <2> QED BY <1>1, <1>7, <2>1, <2>3, <2>4, <2>5, <2>6, <2>7 DEF Goal
<1>8. ASSUME PickSticky(c) PROVE Goal
  <2> DEFINE a == rows[key].account
             m == IF rows[key].meta # NoMeta THEN rows[key].meta ELSE old.resume
  <2>1. /\ key \in DOMAIN rows /\ a \in slots /\ Run(c, a, m) /\ UNCHANGED <<rows, nextLock>>
        /\ old.resume # NoMeta
    BY <1>4, <1>8 DEF PickSticky, Pinned
  <2>2. m.hist \in Seq(Texts)
    BY <1>2, <1>5, <2>1
  <2>3. \A x : SameRequest(old, x) /\ SamePrompt(old, x) /\ x.account = a /\ x.meta = m => Chosen(x)
    BY <2>1 DEF SameRequest, SamePrompt, Sticky, Chosen
  <2> HIDE DEF a, m, old
  <2> QED BY <1>7, <2>1, <2>2, <2>3
<1>9. ASSUME PickRepin(c) PROVE Goal
  <2>1. PICK a \in slots : SaveRow(key, a, NoMeta) /\ Run(c, a, NoMeta)
    BY <1>9 DEF PickRepin
  <2>2. old.resume # NoMeta /\ ~(key \in DOMAIN rows /\ rows[key].account \in slots)
    BY <1>4, <1>9 DEF PickRepin, Pinned
  <2>3. \A x : SameRequest(old, x) /\ SamePrompt(old, x) /\ x.account = a /\ x.meta = NoMeta => Chosen(x)
    BY <2>1, <2>2 DEF SameRequest, SamePrompt, Repinned, Chosen
  <2> HIDE DEF old
  <2> QED BY <1>6, <1>7, <2>1, <2>3
<1>10. meta = (IF key \in DOMAIN rows THEN rows[key].meta ELSE NoMeta) /\ meta.hist \in Seq(Texts)
  BY <1>4, <1>5, <1>6
<1>11. ASSUME NEW a \in slots, old.resume = NoMeta, Run(c, a, meta),
              \/ SaveRow(key, a, meta)
              \/ key \in DOMAIN rows /\ a = rows[key].account /\ UNCHANGED <<rows, nextLock>>
       PROVE  Goal
  <2> HIDE DEF meta
  <2>1. \A x : SameRequest(old, x) /\ SamePrompt(old, x) /\ x.account = a /\ x.meta = meta => Opened(c, x)
    BY <1>10, <1>11 DEF SameRequest, SamePrompt, Opened
  <2>2. \A x : SameRequest(old, x) /\ SamePrompt(old, x) /\ x.account = a /\ x.meta = meta => Chosen(x)
    BY <2>1 DEF Chosen
  <2> HIDE DEF old
  <2> QED BY <1>7, <1>10, <1>11, <2>2
<1>12. ASSUME PickAvailable(c) PROVE Goal
  <2>1. old.resume = NoMeta /\ \E a \in avail : SaveRow(key, a, meta) /\ Run(c, a, meta)
    BY <1>12 DEF PickAvailable
  <2>2. avail \subseteq slots
    BY DEF Keyed
  <2> HIDE DEF meta, old
  <2> QED BY <1>11, <2>1, <2>2
<1>13. ASSUME PickFresh(c) PROVE Goal
  <2>1. /\ old.resume = NoMeta
        /\ \/ /\ key \in DOMAIN rows /\ rows[key].account \in slots
              /\ Run(c, rows[key].account, meta) /\ UNCHANGED <<rows, nextLock>>
           \/ \E a \in slots : SaveRow(key, a, meta) /\ Run(c, a, meta)
    BY <1>4, <1>13 DEF PickFresh, Pinned
  <2> HIDE DEF meta, old
  <2> QED BY <1>11, <2>1
<1>14. Goal
  BY <1>8, <1>9, <1>12, <1>13 DEF Pick
<1> QED BY <1>14 DEF Goal, Chosen


LEMMA AnswerDoes ==
  ASSUME Keyed, NEW c \in Clients, Answer(c)
  PROVE  \E x : /\ Moves(c, x) /\ Request(c, x, slots)
                /\ SameRequest(cl[c], x) /\ SamePrompt(cl[c], x)
                /\ x.account = cl[c].account /\ x.meta = cl[c].meta
                /\ cl[c].pc = "turn" /\ x.pc = "answered" /\ UNCHANGED <<rows, aliases, line>>
<1> DEFINE old == cl[c]
<1>1. Request(c, old, slots) /\ old.pc = "turn"
  BY DEF Keyed, Answer
<1>2. PICK a \in Answers : cl' = [cl EXCEPT ![c].pc = "answered", ![c].answer = <<a>>]
  BY DEF Answer
<1> DEFINE x == [old EXCEPT !.pc = "answered", !.answer = <<a>>]
<1>3. cl' = [cl EXCEPT ![c] = x] /\ UNCHANGED <<rows, aliases, line, pool, avail, restarts>>
  BY <1>2 DEF Answer
<1>4. DOMAIN old = RequestFields
  BY <1>1 DEF Request
<1>5. /\ SameRequest(old, x) /\ SamePrompt(old, x) /\ x.account = old.account /\ x.meta = old.meta
      /\ x.pc = "answered" /\ x.answer = <<a>> /\ DOMAIN x = RequestFields
  BY <1>4 DEF RequestFields, SameRequest, SamePrompt
<1> HIDE DEF old, x
<1>6. Request(c, x, slots)
  BY <1>1, <1>5 DEF Request, SameRequest, SamePrompt
<1>7. Moves(c, x)
  BY <1>3, <1>5 DEF Moves
<1> QED BY <1>1, <1>3, <1>5, <1>6, <1>7 DEF old

LEMMA RetryDoes ==
  ASSUME Keyed, NEW c \in Clients, RetryFresh(c)
  PROVE  \E x : /\ Moves(c, x) /\ Request(c, x, slots)
                /\ SameRequest(cl[c], x) /\ SamePrompt(cl[c], x)
                /\ x.account = cl[c].account /\ x.answer = cl[c].answer /\ x.meta = NoMeta
                /\ cl[c].pc = "turn" /\ x.pc = "turn" /\ "resume" \in Events
                /\ UNCHANGED <<rows, aliases, line>>
<1> DEFINE old == cl[c]
           x == [old EXCEPT !.meta = NoMeta]
<1>1. Request(c, old, slots) /\ old.pc = "turn"
  BY DEF Keyed, RetryFresh
<1>2. /\ cl' = [cl EXCEPT ![c] = x] /\ "resume" \in Events
      /\ UNCHANGED <<rows, aliases, line, pool, avail, restarts>>
  BY DEF RetryFresh
<1>3. DOMAIN old = RequestFields
  BY <1>1 DEF Request
<1>4. /\ SameRequest(old, x) /\ SamePrompt(old, x) /\ x.account = old.account /\ x.answer = old.answer
      /\ x.pc = old.pc /\ x.meta = NoMeta /\ DOMAIN x = RequestFields
  BY <1>3 DEF RequestFields, SameRequest, SamePrompt
<1> HIDE DEF old, x
<1>5. NoMeta.hist \in Seq(Texts)
  <2>1. NoMeta.hist = <<>>
    BY DEF NoMeta
  <2> QED BY <2>1
<1>6. Request(c, x, slots)
  BY <1>1, <1>4, <1>5 DEF Request, SameRequest, SamePrompt
<1>7. Moves(c, x)
  BY <1>2, <1>4 DEF Moves
<1> QED BY <1>1, <1>2, <1>4, <1>6, <1>7 DEF old

\* A request that is over
Over(c, x) ==
  /\ x.pc = "idle" /\ x.conv = cl[c].conv /\ x.sent = cl[c].sent
  /\ x.key = NoKey /\ x.cut = 0 /\ x.answer = <<>> /\ x.meta = NoMeta /\ x.resume = NoMeta

\* What has been asked and answered is a tale.
LEMMA ToldNext ==
  ASSUME NEW c, NEW x, NEW S, Request(c, x, S), x.pc = "answered"
  PROVE  /\ Tale(c, x.msgs \o x.answer) /\ AliasKey(Fingerprint(x.msgs \o x.answer))
         /\ Len(x.msgs \o x.answer) = Len(x.msgs) + 1
         /\ DropLast(x.msgs \o x.answer, 1) = x.msgs
<1> DEFINE f == x.msgs \o x.answer
<1>1. PICK a \in Answers : x.answer = <<a>>
  BY DEF Request
<1>2. /\ x.msgs \in Seq(Texts) /\ Len(x.msgs) = Len(x.transcript) + 1 /\ Len(x.transcript) \in Nat
  BY RequestKey
<1>3. Even(Len(x.transcript)) /\ x.msgs[1] = Opening[c]
  BY DEF Request, Tale
<1>4. a \in Texts
  BY DEF Texts
<1>5. /\ f \in Seq(Texts) /\ Len(f) = Len(x.msgs) + 1
      /\ \A i \in 1..Len(x.msgs) : f[i] = x.msgs[i]
  BY <1>1, <1>2, <1>4
<1> HIDE DEF f
<1>6. Even(Len(f))
  <2>1. Len(f) = Len(x.transcript) + 2
    BY <1>2, <1>5
  <2> QED BY <1>2, <1>3, <2>1, EvenNext
<1>7. f[1] = Opening[c]
  BY <1>2, <1>3, <1>5
<1>8. DropLast(f, 1) = x.msgs
  <2>1. DropLast(f, 1) = SubSeq(f, 1, Len(x.msgs)) /\ Len(x.msgs) \in Nat
    BY <1>2, <1>5 DEF DropLast
  <2>2. SubSeq(f, 1, Len(x.msgs)) = [i \in 1..Len(x.msgs) |-> x.msgs[i]]
    BY <1>2, <1>5
  <2>3. x.msgs = [i \in 1..Len(x.msgs) |-> x.msgs[i]]
    BY <1>2
  <2> QED BY <2>1, <2>2, <2>3
<1>9. Tale(c, f) /\ AliasKey(Fingerprint(f))
  BY <1>5, <1>6, <1>7 DEF Tale, AliasKey, Fingerprint
<1> QED BY <1>5, <1>8, <1>9 DEF f

LEMMA IdleRequest ==
  ASSUME NEW c, NEW t, Tale(c, t), NEW conv, NEW sent, NEW S
  PROVE  LET x == Idle(conv, t, sent)
         IN  /\ Request(c, x, S) /\ DOMAIN x = RequestFields /\ x.pc = "idle"
             /\ x.conv = conv /\ x.sent = sent /\ x.transcript = t /\ x.key = NoKey /\ x.cut = 0
             /\ x.answer = <<>> /\ x.meta = NoMeta /\ x.resume = NoMeta
<1> DEFINE x == Idle(conv, t, sent)
<1>1. /\ DOMAIN x = RequestFields /\ x.pc = "idle" /\ x.conv = conv /\ x.sent = sent /\ x.transcript = t
      /\ x.key = NoKey /\ x.cut = 0 /\ x.answer = <<>> /\ x.meta = NoMeta /\ x.resume = NoMeta
      /\ x.turns = <<>>
  BY DEF Idle, RequestFields
<1> HIDE DEF x
<1>2. <<>> \in Seq(Texts) /\ NoMeta.hist = <<>>
  <2>1. <<>> \in Seq(Texts)
    OBVIOUS
  <2>2. NoMeta.hist = <<>>
    BY DEF NoMeta
  <2> QED BY <2>1, <2>2
<1>3. x.turns \in Seq(Texts) /\ x.resume.hist \in Seq(Texts) /\ x.meta.hist \in Seq(Texts)
  BY <1>1, <1>2
<1>4. Request(c, x, S)
  BY <1>1, <1>3 DEF Request
<1> QED BY <1>1, <1>4 DEF x

LEMMA FailDoes ==
  ASSUME Keyed, NEW c \in Clients, Fail(c)
  PROVE  \E x : /\ Moves(c, x) /\ Request(c, x, slots) /\ Over(c, x)
                /\ x.transcript = cl[c].transcript
                /\ cl[c].pc = "turn" /\ ("fail" \in Events \/ ~Uploadable(c))
                /\ DropIfFresh(cl[c].key) /\ line' = Released(c)
<1> DEFINE x == Idle(cl[c].conv, cl[c].transcript, cl[c].sent)
<1>1. Tale(c, cl[c].transcript)
  BY DEF Keyed, Request
<1>2. /\ cl' = [cl EXCEPT ![c] = x] /\ UNCHANGED <<pool, avail>> /\ UNCHANGED restarts
      /\ cl[c].pc = "turn" /\ ("fail" \in Events \/ ~Uploadable(c))
      /\ DropIfFresh(cl[c].key) /\ line' = Released(c)
  BY DEF Fail
<1>3. Request(c, x, slots) /\ DOMAIN x = RequestFields /\ Over(c, x) /\ x.transcript = cl[c].transcript
  BY <1>1, IdleRequest DEF Over
<1> HIDE DEF x
<1>4. Moves(c, x)
  BY <1>2, <1>3 DEF Moves
<1> QED BY <1>2, <1>3, <1>4

LEMMA DisconnectDoes ==
  ASSUME Keyed, NEW c \in Clients, Disconnect(c)
  PROVE  \E x : /\ Moves(c, x) /\ Request(c, x, slots) /\ Over(c, x)
                /\ Running(c) /\ cl[c].stream /\ "disconnect" \in Events
                /\ \/ x.transcript = cl[c].transcript
                   \/ cl[c].pc = "answered" /\ x.transcript = cl[c].msgs \o cl[c].answer
                /\ UNCHANGED <<rows, aliases, line>>
<1> DEFINE old == cl[c]
<1>1. Request(c, old, slots) /\ Running(c) /\ old.stream /\ "disconnect" \in Events
  BY DEF Keyed, Disconnect, Running
<1>2. PICK seen \in {old.transcript, old.msgs \o old.answer} :
        seen # old.msgs /\ cl' = [cl EXCEPT ![c] = Idle(old.conv, seen, old.sent)]
  BY DEF Disconnect
<1>3. seen = old.transcript \/ (old.pc = "answered" /\ seen = old.msgs \o old.answer)
  <2>1. ASSUME old.pc # "answered", seen = old.msgs \o old.answer PROVE FALSE
    <3>1. old.answer = <<>> /\ old.pc # "idle"
      BY <1>1, <2>1 DEF Request, Running
    <3>2. old.msgs \in Seq(Texts)
      BY <1>1, <3>1, RequestKey
    <3>3. old.msgs \o <<>> = old.msgs
      BY <3>2
    <3> QED BY <1>2, <2>1, <3>1, <3>3
  <2> QED BY <1>2, <2>1
<1>4. Tale(c, seen)
  <2>1. Tale(c, old.transcript)
    BY <1>1 DEF Request
  <2>2. old.pc = "answered" => Tale(c, old.msgs \o old.answer)
    BY <1>1, ToldNext
  <2> QED BY <1>3, <2>1, <2>2
<1> DEFINE x == Idle(old.conv, seen, old.sent)
<1>5. cl' = [cl EXCEPT ![c] = x] /\ UNCHANGED <<rows, aliases, line, pool, avail, restarts>>
  BY <1>2 DEF Disconnect
<1>6. Request(c, x, slots) /\ DOMAIN x = RequestFields /\ Over(c, x) /\ x.transcript = seen
  BY <1>4, IdleRequest DEF Over
<1> HIDE DEF x
<1>7. Moves(c, x)
  BY <1>5, <1>6 DEF Moves
<1> QED BY <1>1, <1>3, <1>5, <1>6, <1>7

\* What a turn adds to its chat at Gemini
Minted(x, p) == [acct |-> p[x.account], hist |-> x.meta.hist \o x.turns \o x.answer]

LEMMA SaveDoes ==
  ASSUME Keyed, NEW c \in Clients, Save(c)
  PROVE  \E x : /\ Moves(c, x) /\ Request(c, x, slots) /\ Over(c, x)
                /\ cl[c].pc = "answered" /\ cl[c].account \in slots
                /\ \/ x.transcript = cl[c].msgs \o cl[c].answer
                   \/ "resend" \in Events /\ x.transcript = cl[c].transcript
                /\ SaveRow(cl[c].key, cl[c].account, Minted(cl[c], pool))
                /\ Minted(cl[c], pool).hist \in Seq(Texts)
                /\ aliases' = Put(aliases, Fingerprint(cl[c].msgs \o cl[c].answer), cl[c].key)
                /\ line' = Released(c)
<1> DEFINE old == cl[c]
           full == old.msgs \o old.answer
<1>1. Request(c, old, slots) /\ old.pc = "answered"
  BY DEF Keyed, Save
<1>2. Tale(c, full) /\ Tale(c, old.transcript)
  BY <1>1, ToldNext DEF Request
<1>3. PICK read \in {TRUE} \cup (IF "resend" \in Events THEN {FALSE} ELSE {}) :
        cl' = [cl EXCEPT ![c] = Idle(old.conv, IF read THEN full ELSE old.transcript, old.sent)]
  BY DEF Save
<1> DEFINE seen == IF read THEN full ELSE old.transcript
           x == Idle(old.conv, seen, old.sent)
<1>4. Request(c, x, slots) /\ DOMAIN x = RequestFields /\ Over(c, x) /\ x.transcript = seen
  BY <1>2, IdleRequest DEF Over
<1>5. /\ cl' = [cl EXCEPT ![c] = x] /\ UNCHANGED <<pool, avail>> /\ UNCHANGED restarts
      /\ SaveRow(old.key, old.account, Minted(old, pool)) /\ line' = Released(c)
      /\ aliases' = Put(aliases, Fingerprint(full), Resolve(old.key))
  BY <1>3 DEF Save, Minted
<1>6. Resolve(old.key) = old.key
  <2>1. ~AliasKey(old.key)
    BY <1>1, RequestKey
  <2> QED BY <2>1, OwnRow
<1>7. old.account \in slots
  BY <1>1 DEF Request
<1>8. Minted(old, pool).hist \in Seq(Texts)
  <2>1. PICK a \in Answers : old.answer = <<a>>
    BY <1>1 DEF Request
  <2>2. a \in Texts
    BY DEF Texts
  <2>3. old.answer \in Seq(Texts)
    BY <2>1, <2>2
  <2>4. old.meta.hist \in Seq(Texts) /\ old.turns \in Seq(Texts)
    BY <1>1 DEF Request
  <2>5. old.meta.hist \o old.turns \o old.answer \in Seq(Texts)
    BY <2>3, <2>4
  <2> QED BY <2>5 DEF Minted
<1>9. seen = full \/ ("resend" \in Events /\ seen = old.transcript)
  BY <1>3
<1> HIDE DEF x, seen
<1>10. Moves(c, x)
  BY <1>4, <1>5 DEF Moves
<1> QED BY <1>1, <1>4, <1>5, <1>6, <1>7, <1>8, <1>9, <1>10


-----------------------------------------------------------------------------
(* Keyed is inductive                                                        *)

RowsOk == \A k \in DOMAIN rows : ~AliasKey(k) /\ RowOk(rows[k], slots)

LEMMA Moved ==
  ASSUME Keyed, NEW c \in Clients, NEW x, Moves(c, x), Request(c, x, slots)
  PROVE  /\ DOMAIN cl' = Clients /\ \A d \in Clients : cl'[d] = IF d = c THEN x ELSE cl[d]
         /\ \A d \in Clients : Request(d, cl'[d], slots')
         /\ slots' = slots /\ avail' \subseteq slots'
<1>1. DOMAIN cl = Clients /\ \A d \in Clients : Request(d, cl[d], slots)
  BY DEF Keyed
<1>2. cl' = [cl EXCEPT ![c] = x] /\ UNCHANGED <<pool, avail>>
  BY DEF Moves
<1>3. DOMAIN cl' = Clients /\ \A d \in Clients : cl'[d] = IF d = c THEN x ELSE cl[d]
  BY <1>1, <1>2
<1>4. slots' = slots /\ avail' = avail /\ avail \subseteq slots
  BY <1>2 DEF slots, Keyed
<1> QED BY <1>1, <1>3, <1>4

\* A key that is no alias, when a row is made for it or written.
LEMMA RowsStayOk ==
  ASSUME Keyed, slots' = slots, NEW key, ~AliasKey(key),
         \/ UNCHANGED rows
         \/ rows' = WithRow(key)
         \/ \E account, meta : /\ SaveRow(key, account, meta) /\ meta.hist \in Seq(Texts)
                               /\ meta # NoMeta => account \in slots
  PROVE  RowsOk'
<1>1. \A k \in DOMAIN rows : ~AliasKey(k) /\ RowOk(rows[k], slots)
  BY DEF Keyed
<1>2. CASE UNCHANGED rows
  BY <1>1, <1>2 DEF RowsOk
<1>3. CASE rows' = WithRow(key)
  <2>1. /\ DOMAIN rows' = DOMAIN rows \cup {key} /\ RowOk(rows'[key], slots)
        /\ \A k \in DOMAIN rows : rows'[k] = rows[k]
    BY <1>3, Creates
  <2> QED BY <1>1, <2>1 DEF RowsOk
<1>4. ASSUME NEW account, NEW meta, SaveRow(key, account, meta), meta.hist \in Seq(Texts),
             meta # NoMeta => account \in slots
      PROVE  RowsOk'
  <2>1. /\ DOMAIN rows' = DOMAIN rows \cup {key}
        /\ \A k \in DOMAIN rows \ {key} : rows'[k] = rows[k]
        /\ DOMAIN rows'[key] = RowFields
        /\ rows'[key].account = account /\ rows'[key].meta = meta
    BY <1>4, Saves
  <2>2. RowOk(rows'[key], slots)
    BY <1>4, <2>1 DEF RowOk
  <2> QED BY <1>1, <2>1, <2>2 DEF RowsOk
<1> QED BY <1>2, <1>3, <1>4

\* The table after some keys have gone
LEMMA Gone ==
  ASSUME NEW f, NEW ks
  PROVE  /\ DOMAIN Without(f, ks) = DOMAIN f \ ks
         /\ \A k \in DOMAIN f \ ks : Without(f, ks)[k] = f[k]
BY DEF Without

LEMMA FlatStays ==
  ASSUME Flat(aliases),
         \/ UNCHANGED aliases
         \/ \E ks : aliases' = Without(aliases, ks)
         \/ \E k, key : AliasKey(k) /\ ~AliasKey(key) /\ aliases' = Put(aliases, k, key)
  PROVE  Flat(aliases')
<1>1. ASSUME NEW ks, aliases' = Without(aliases, ks) PROVE Flat(aliases')
  <2>1. /\ DOMAIN aliases' = DOMAIN aliases \ ks
        /\ \A a \in DOMAIN aliases \ ks : aliases'[a] = aliases[a]
    BY <1>1, Gone
  <2> QED BY <2>1 DEF Flat
<1>2. ASSUME NEW k, NEW key, AliasKey(k), ~AliasKey(key), aliases' = Put(aliases, k, key) PROVE Flat(aliases')
  <2>1. /\ DOMAIN aliases' = DOMAIN aliases \cup {k}
        /\ \A a \in DOMAIN aliases' : aliases'[a] = IF a = k THEN key ELSE aliases[a]
    BY <1>2 DEF Put
  <2> QED BY <1>2, <2>1 DEF Flat
<1> QED BY <1>1, <1>2

Steps(c) ==
  \/ Arrive(c) \/ JoinLock(c) \/ Enter(c) \/ Pick(c)
  \/ Answer(c) \/ Fail(c) \/ RetryFresh(c) \/ Save(c) \/ Disconnect(c)

LEMMA KeyedStep ==
  ASSUME Keyed, NEW c \in Clients, Steps(c)
  PROVE  Keyed'
<1> DEFINE Goal == Keyed'
<1>1. Flat(aliases) /\ Request(c, cl[c], slots)
  BY DEF Keyed
<1>2. ASSUME NEW x, Moves(c, x), Request(c, x, slots), RowsOk', Flat(aliases') PROVE Goal
  <2>1. /\ DOMAIN cl' = Clients /\ \A d \in Clients : Request(d, cl'[d], slots') /\ avail' \subseteq slots'
    BY <1>2, Moved
  <2> QED BY <1>2, <2>1 DEF Keyed, RowsOk, Goal
<1>3. ASSUME NEW x, Moves(c, x) PROVE slots' = slots
  BY <1>3 DEF Moves, slots
<1> HIDE DEF Goal
<1>4. ASSUME Arrive(c) PROVE Goal
  <2>1. PICK x : /\ Moves(c, x) /\ Request(c, x, slots) /\ NewOf(c, x)
                 /\ \/ x.conv # NoConv /\ Named(x)
                    \/ x.conv = NoConv /\ Unchained(x)
                    \/ x.conv = NoConv /\ Chains(x)
    BY <1>4, ArriveDoes
  <2>2. ~AliasKey(x.key)
    <3>1. x.pc # "idle"
      BY <2>1 DEF NewOf
    <3> QED BY <2>1, <3>1, RequestKey
  <2>3. slots' = slots /\ Flat(aliases')
    BY <1>1, <1>3, <2>1, FlatStays DEF NewOf
  <2>4. NoMeta.hist \in Seq(Texts)
    <3>1. NoMeta.hist = <<>>
      BY DEF NoMeta
    <3> QED BY <3>1
  <2>5. Named(x) => RowsOk'
    BY <2>2, <2>3, RowsStayOk DEF Named
  <2>6. Unchained(x) => RowsOk'
    BY <2>2, <2>3, <2>4, RowsStayOk DEF Unchained
  <2>7. ASSUME Chains(x) PROVE RowsOk'
    <3> DEFINE row == rows[SourceOf(x)]
    <3>1. SaveRow(x.key, row.account, row.meta) /\ RowOk(row, slots)
      BY <2>7 DEF Chains, Keyed
    <3> HIDE DEF row
    <3> QED BY <2>2, <2>3, <3>1, RowsStayOk DEF RowOk
  <2> QED BY <1>2, <2>1, <2>3, <2>5, <2>6, <2>7
<1>5. ASSUME JoinLock(c) PROVE Goal
  <2>1. PICK x : /\ Moves(c, x) /\ Request(c, x, slots) /\ x.pc = "waiting" /\ UNCHANGED aliases
                 /\ rows' = WithRow(x.key)
    BY <1>5, JoinDoes
  <2>2. ~AliasKey(x.key)
    BY <2>1, RequestKey
  <2> QED BY <1>1, <1>2, <1>3, <2>1, <2>2, RowsStayOk, FlatStays
<1>6. ASSUME Enter(c) PROVE Goal
  <2>1. PICK x : /\ Moves(c, x) /\ Request(c, x, slots) /\ x.pc = "entered" /\ UNCHANGED aliases
                 /\ (UNCHANGED rows \/ rows' = WithRow(x.key))
    BY <1>6, EnterDoes
  <2>2. ~AliasKey(x.key)
    BY <2>1, RequestKey
  <2> QED BY <1>1, <1>2, <1>3, <2>1, <2>2, RowsStayOk, FlatStays
<1>7. ASSUME Pick(c) PROVE Goal
  <2>1. PICK x : /\ Moves(c, x) /\ Request(c, x, slots) /\ x.pc = "turn" /\ UNCHANGED aliases
                 /\ x.account \in slots
                 /\ Sticky(c, x) \/ Repinned(c, x) \/ Opened(c, x)
    BY <1>7, PickDoes
  <2>2. ~AliasKey(x.key)
    BY <2>1, RequestKey
  <2>3. NoMeta.hist \in Seq(Texts) /\ x.meta.hist \in Seq(Texts)
    <3>1. NoMeta.hist = <<>>
      BY DEF NoMeta
    <3>2. x.meta.hist \in Seq(Texts)
      BY <2>1 DEF Request
    <3> QED BY <3>1, <3>2
  <2>4. RowsOk'
    <3>1. \/ UNCHANGED rows
          \/ SaveRow(x.key, x.account, NoMeta)
          \/ SaveRow(x.key, x.account, x.meta)
      BY <2>1 DEF Sticky, Repinned, Opened
    <3>2. slots' = slots
      BY <1>3, <2>1
    <3>3. ASSUME NEW m, SaveRow(x.key, x.account, m), m.hist \in Seq(Texts) PROVE RowsOk'
      <4>1. \E account, meta : /\ SaveRow(x.key, account, meta) /\ meta.hist \in Seq(Texts)
                               /\ meta # NoMeta => account \in slots
        BY <2>1, <3>3
      <4> QED BY <2>2, <3>2, <4>1, RowsStayOk
    <3>4. UNCHANGED rows => RowsOk'
      BY <2>2, <3>2, RowsStayOk
    <3> QED BY <2>3, <3>1, <3>3, <3>4
  <2> QED BY <1>1, <1>2, <2>1, <2>4, FlatStays
<1>8. ASSUME Answer(c) \/ RetryFresh(c) \/ Disconnect(c) PROVE Goal
  <2>1. PICK x : Moves(c, x) /\ Request(c, x, slots) /\ UNCHANGED <<rows, aliases>>
    BY <1>8, AnswerDoes, RetryDoes, DisconnectDoes
  <2>2. RowsOk'
    BY <1>3, <2>1 DEF Keyed, RowsOk
  <2> QED BY <1>1, <1>2, <2>1, <2>2, FlatStays
<1>9. ASSUME Fail(c) PROVE Goal
  <2>1. PICK x : /\ Moves(c, x) /\ Request(c, x, slots) /\ cl[c].pc = "turn" /\ DropIfFresh(cl[c].key)
    BY <1>9, FailDoes
  <2>2. ~AliasKey(cl[c].key)
    BY <1>1, <2>1, RequestKey
  <2>3. \/ UNCHANGED <<rows, aliases>>
        \/ \E ks : rows' = Without(rows, {cl[c].key}) /\ aliases' = Without(aliases, ks)
    BY <2>1, <2>2, Drops
  <2>4. Flat(aliases')
    BY <1>1, <2>3, FlatStays
  <2>5. RowsOk'
    <3>1. DOMAIN rows' \subseteq DOMAIN rows /\ \A k \in DOMAIN rows' : rows'[k] = rows[k]
      <4> DEFINE ks == {cl[c].key}
      <4>1. DOMAIN Without(rows, ks) \subseteq DOMAIN rows /\ \A k \in DOMAIN Without(rows, ks) : Without(rows, ks)[k] = rows[k]
        BY DEF Without
      <4>2. UNCHANGED rows \/ rows' = Without(rows, ks)
        BY <2>3
      <4> HIDE DEF ks
      <4> QED BY <4>1, <4>2
    <3>2. slots' = slots
      BY <1>3, <2>1
    <3> QED BY <3>1, <3>2 DEF Keyed, RowsOk
  <2> QED BY <1>2, <2>1, <2>4, <2>5
<1>10. ASSUME Save(c) PROVE Goal
  <2>1. PICK x : /\ Moves(c, x) /\ Request(c, x, slots)
                 /\ cl[c].pc = "answered" /\ cl[c].account \in slots
                 /\ SaveRow(cl[c].key, cl[c].account, Minted(cl[c], pool))
                 /\ Minted(cl[c], pool).hist \in Seq(Texts)
                 /\ aliases' = Put(aliases, Fingerprint(cl[c].msgs \o cl[c].answer), cl[c].key)
    BY <1>10, SaveDoes
  <2>2. ~AliasKey(cl[c].key) /\ AliasKey(Fingerprint(cl[c].msgs \o cl[c].answer))
    BY <1>1, <2>1, RequestKey, ToldNext
  <2>3. RowsOk'
    BY <1>3, <2>1, <2>2, RowsStayOk
  <2>4. Flat(aliases')
    BY <1>1, <2>1, <2>2, FlatStays
  <2> QED BY <1>2, <2>1, <2>3, <2>4
<1>11. Goal
  BY <1>4, <1>5, <1>6, <1>7, <1>8, <1>9, <1>10 DEF Steps
<1> QED BY <1>11 DEF Goal

LEMMA RestartDoes ==
  ASSUME Keyed, Restart
  PROVE  /\ pool' \in Pools /\ avail' \subseteq slots' /\ line' = <<>>
         /\ DOMAIN cl' = Clients
         /\ \A c \in Clients : /\ Request(c, cl'[c], slots') /\ Over(c, cl'[c])
                               /\ cl'[c].transcript = cl[c].transcript
         /\ \E dead \in SUBSET DOMAIN rows :
              /\ \A k \in dead : rows[k].meta # NoMeta
              /\ \A k \in DOMAIN rows \ dead : rows[k].meta # NoMeta => rows[k].account \in slots'
              /\ "degrade" \notin Events =>
                   \A k \in dead : rows[k].account \notin slots'
              /\ rows' = Without(rows, dead)
              /\ aliases' = Without(aliases, {a \in DOMAIN aliases : aliases[a] \in dead})
<1>1. PICK jars \in Pools :
      \E up \in (IF "degrade" \in Events THEN SUBSET DOMAIN jars ELSE {DOMAIN jars}) :
         /\ pool' = jars
         /\ avail' = up
         /\ rows' = Without(rows, DeadRows(jars, up))
         /\ aliases' = Without(aliases, {a \in DOMAIN aliases :
                                           \/ a \in DeadRows(jars, up)
                                           \/ aliases[a] \in DeadRows(jars, up)})
  BY DEF Restart
<1>2. PICK up \in (IF "degrade" \in Events THEN SUBSET DOMAIN jars ELSE {DOMAIN jars}) :
         /\ pool' = jars
         /\ avail' = up
         /\ rows' = Without(rows, DeadRows(jars, up))
         /\ aliases' = Without(aliases, {a \in DOMAIN aliases :
                                           \/ a \in DeadRows(jars, up)
                                           \/ aliases[a] \in DeadRows(jars, up)})
  BY <1>1
<1> DEFINE dead == DeadRows(jars, up)
<1>3. up \subseteq DOMAIN jars /\ ("degrade" \notin Events => up = DOMAIN jars) /\ slots' = DOMAIN jars
  BY <1>2 DEF slots
<1>4. /\ dead \in SUBSET DOMAIN rows /\ \A k \in dead : rows[k].meta # NoMeta
      /\ \A k \in DOMAIN rows \ dead : rows[k].meta # NoMeta => rows[k].account \in slots'
      /\ "degrade" \notin Events => \A k \in dead : rows[k].account \notin slots'
  BY <1>3 DEF DeadRows
<1>5. \A a \in DOMAIN aliases : a \notin dead
  BY <1>4 DEF Keyed, Flat
<1> HIDE DEF dead
<1>6. {a \in DOMAIN aliases : a \in dead \/ aliases[a] \in dead} = {a \in DOMAIN aliases : aliases[a] \in dead}
  BY <1>5
<1>7. rows' = Without(rows, dead) /\ aliases' = Without(aliases, {a \in DOMAIN aliases : aliases[a] \in dead})
  BY <1>2, <1>6 DEF dead
<1>8. cl' = [c \in Clients |-> Idle(cl[c].conv, cl[c].transcript, cl[c].sent)] /\ line' = <<>>
  BY DEF Restart
<1>9. ASSUME NEW c \in Clients
      PROVE  Request(c, cl'[c], slots') /\ Over(c, cl'[c]) /\ cl'[c].transcript = cl[c].transcript
  <2>1. cl'[c] = Idle(cl[c].conv, cl[c].transcript, cl[c].sent)
    BY <1>8
  <2>2. Tale(c, cl[c].transcript)
    BY DEF Keyed, Request
  <2> DEFINE x == Idle(cl[c].conv, cl[c].transcript, cl[c].sent)
             S == slots'
  <2>3. Request(c, x, S) /\ Over(c, x) /\ x.transcript = cl[c].transcript
    BY <2>2, IdleRequest DEF Over
  <2> HIDE DEF x
  <2> QED BY <2>1, <2>3 DEF x
<1>10. pool' \in Pools /\ avail' \subseteq slots' /\ DOMAIN cl' = Clients
  BY <1>2, <1>3, <1>8
<1> QED BY <1>4, <1>7, <1>8, <1>9, <1>10

LEMMA KeyedRestart ==
  ASSUME Keyed, Restart
  PROVE  Keyed'
<1>1. PICK dead \in SUBSET DOMAIN rows :
              /\ \A k \in DOMAIN rows \ dead : rows[k].meta # NoMeta => rows[k].account \in slots'
              /\ rows' = Without(rows, dead)
              /\ aliases' = Without(aliases, {a \in DOMAIN aliases : aliases[a] \in dead})
  BY RestartDoes
<1>2. Flat(aliases')
  BY <1>1, FlatStays DEF Keyed
<1>3. \A k \in DOMAIN rows' : ~AliasKey(k) /\ RowOk(rows'[k], slots')
  <2>1. /\ DOMAIN rows' = DOMAIN rows \ dead
        /\ \A k \in DOMAIN rows \ dead : rows'[k] = rows[k]
    BY <1>1, Gone
  <2> QED BY <1>1, <2>1 DEF Keyed, RowOk
<1>4. DOMAIN cl' = Clients /\ (\A c \in Clients : Request(c, cl'[c], slots')) /\ avail' \subseteq slots'
  BY RestartDoes
<1> QED BY <1>2, <1>3, <1>4 DEF Keyed

LEMMA KeyedInit ==
  ASSUME Init PROVE Keyed
<1>1. PICK conv \in ConvOf : cl = [c \in Clients |-> Idle(conv[c], <<>>, 0)]
  BY DEF Init
<1>2. ASSUME NEW c \in Clients PROVE Request(c, cl[c], slots)
  <2>1. Tale(c, <<>>)
    <3>1. 0 = 2 * 0
      OBVIOUS
    <3>2. Even(0) /\ Len(<<>>) = 0 /\ <<>> \in Seq(Texts)
      BY <3>1 DEF Even
    <3> QED BY <3>2 DEF Tale
  <2>2. cl[c] = Idle(conv[c], <<>>, 0)
    BY <1>1
  <2> DEFINE t == <<>>
             v == conv[c]
             S == slots
  <2> HIDE DEF t, v, S
  <2>3. Request(c, Idle(v, t, 0), S)
    BY <2>1, IdleRequest DEF t
  <2> QED BY <2>2, <2>3 DEF t, v, S
<1>3. avail = slots /\ DOMAIN cl = Clients /\ DOMAIN rows = {} /\ DOMAIN aliases = {}
  BY <1>1 DEF Init, slots
<1> QED BY <1>2, <1>3 DEF Keyed, Flat

\* Every step: of a client, of an account, or a restart.
LEMMA KeyedNext ==
  ASSUME Keyed, [Next]_vars PROVE Keyed'
<1>1. ASSUME NEW c \in Clients, Steps(c) PROVE Keyed'
  BY <1>1, KeyedStep
<1>2. ASSUME UNCHANGED <<rows, aliases, cl, pool>>, avail' \subseteq slots PROVE Keyed'
  <2>1. slots' = slots
    BY <1>2 DEF slots
  <2> QED BY <1>2, <2>1 DEF Keyed
<1>3. ASSUME NEW a \in slots, Degrade(a) \/ Heal(a) PROVE Keyed'
  BY <1>2, <1>3 DEF Degrade, Heal, Keyed
<1>4. ASSUME UNCHANGED vars PROVE Keyed'
  BY <1>2, <1>4 DEF vars, Keyed
<1> QED BY <1>1, <1>3, <1>4, KeyedRestart DEF Next, Steps

LEMMA AllKeyed == Spec => []Keyed
<1>1. Init => Keyed
  BY KeyedInit
<1>2. Keyed /\ [Next]_vars => Keyed'
  BY KeyedNext
<1> QED BY <1>1, <1>2, PTL DEF Spec


-----------------------------------------------------------------------------
(* Locks.  A row that stays keeps its lock, so those who wait for one row    *)
(* stand in one line.  Only a turn that fails takes a row away under them.   *)

NothingFails == "fail" \notin Events /\ NoUploads

\* Who stands in the line
Queued(x) ==
  x.pc \in {"waiting", "entered"} \/ (x.pc \in {"turn", "answered"} /\ ~x.stream)

InLine ==
  /\ Line(line)
  /\ \A e \in Range(line) : e[1] \in Clients /\ Queued(cl[e[1]])
  /\ \A c \in Clients :
       Queued(cl[c]) => /\ cl[c].key \in DOMAIN rows
                        /\ <<c, rows[cl[c].key].lock>> \in Range(line)
                        /\ cl[c].pc # "waiting" => FirstOf(line, c)

LocksStay == \A k \in DOMAIN rows : k \in DOMAIN rows' /\ rows'[k].lock = rows[k].lock

LEMMA LocksKept ==
  ASSUME Keyed, NEW key, ~AliasKey(key),
         \/ UNCHANGED rows
         \/ rows' = WithRow(key)
         \/ \E account, meta : SaveRow(key, account, meta)
  PROVE  LocksStay
<1>1. UNCHANGED rows => LocksStay
  BY DEF LocksStay
<1>2. ASSUME rows' = WithRow(key) PROVE LocksStay
  <2>1. DOMAIN WithRow(key) = DOMAIN rows \cup {key} /\ \A k \in DOMAIN rows : WithRow(key)[k] = rows[k]
    BY Creates
  <2> QED BY <1>2, <2>1 DEF LocksStay
<1>3. ASSUME NEW account, NEW meta, SaveRow(key, account, meta) PROVE LocksStay
  <2>1. /\ DOMAIN rows' = DOMAIN rows \cup {key}
        /\ \A k \in DOMAIN rows \ {key} : rows'[k] = rows[k]
        /\ key \in DOMAIN rows => rows'[key].lock = rows[key].lock
    BY <1>3, Saves
  <2> QED BY <2>1 DEF LocksStay
<1> QED BY <1>1, <1>2, <1>3

\* A step of a request that stays where it is in the line, or out of it.
LEMMA StaysInLine ==
  ASSUME InLine, NEW c \in Clients, NEW x, DOMAIN cl = Clients, Moves(c, x), LocksStay, UNCHANGED line,
         Queued(x) <=> Queued(cl[c]),
         Queued(x) => x.key = cl[c].key /\ (x.pc # "waiting" => FirstOf(line, c))
  PROVE  InLine'
<1>1. DOMAIN cl' = Clients /\ \A d \in Clients : cl'[d] = IF d = c THEN x ELSE cl[d]
  BY DEF Moves
<1>2. \A e \in Range(line) : e[1] \in Clients /\ Queued(cl'[e[1]])
  BY <1>1 DEF InLine
<1>3. ASSUME NEW d \in Clients, Queued(cl'[d])
      PROVE  /\ cl'[d].key \in DOMAIN rows' /\ <<d, rows'[cl'[d].key].lock>> \in Range(line)
             /\ cl'[d].pc # "waiting" => FirstOf(line, d)
  <2>1. Queued(cl[d]) /\ cl'[d].key = cl[d].key
    BY <1>1, <1>3
  <2>2. /\ cl[d].key \in DOMAIN rows /\ <<d, rows[cl[d].key].lock>> \in Range(line)
        /\ cl[d].pc # "waiting" => FirstOf(line, d)
    BY <2>1 DEF InLine
  <2>3. cl[d].key \in DOMAIN rows' /\ rows'[cl[d].key].lock = rows[cl[d].key].lock
    BY <2>2 DEF LocksStay
  <2>4. cl'[d].pc # "waiting" => FirstOf(line, d)
    BY <1>1, <1>3, <2>2
  <2> QED BY <2>1, <2>2, <2>3, <2>4
<1> QED BY <1>2, <1>3 DEF InLine

LEMMA JoinsLine ==
  ASSUME InLine, NEW c \in Clients, NEW x, DOMAIN cl = Clients, Moves(c, x), LocksStay,
         ~Queued(cl[c]), x.pc = "waiting", x.key \in DOMAIN rows',
         line' = Append(line, <<c, rows'[x.key].lock>>)
  PROVE  InLine'
<1>1. DOMAIN cl' = Clients /\ \A d \in Clients : cl'[d] = IF d = c THEN x ELSE cl[d]
  BY DEF Moves
<1> DEFINE l == rows'[x.key].lock
<1>2. \A e \in Range(line) : e[1] # c
  BY DEF InLine
<1>3. Line(line)
  BY DEF InLine
<1> HIDE DEF l
<1>4. /\ Line(line') /\ Range(line') = Range(line) \cup {<<c, l>>}
      /\ \A d : FirstOf(line, d) => FirstOf(line', d)
  BY <1>2, <1>3, LineJoined DEF l
<1>5. \A e \in Range(line') : e[1] \in Clients /\ Queued(cl'[e[1]])
  <2>1. Queued(x)
    BY DEF Queued
  <2>2. \A e \in Range(line) : e[1] \in Clients /\ Queued(cl'[e[1]])
    BY <1>1, <1>2 DEF InLine
  <2>3. <<c, l>>[1] = c /\ cl'[c] = x
    BY <1>1
  <2> QED BY <1>4, <2>1, <2>2, <2>3
<1>6. ASSUME NEW d \in Clients, d # c, Queued(cl'[d])
      PROVE  /\ cl'[d].key \in DOMAIN rows' /\ <<d, rows'[cl'[d].key].lock>> \in Range(line')
             /\ cl'[d].pc # "waiting" => FirstOf(line', d)
  <2>1. cl'[d] = cl[d]
    BY <1>1, <1>6
  <2>2. /\ cl[d].key \in DOMAIN rows /\ <<d, rows[cl[d].key].lock>> \in Range(line)
        /\ cl[d].pc # "waiting" => FirstOf(line, d)
    BY <1>6, <2>1 DEF InLine
  <2>3. cl[d].key \in DOMAIN rows' /\ rows'[cl[d].key].lock = rows[cl[d].key].lock
    BY <2>2 DEF LocksStay
  <2> QED BY <1>4, <2>1, <2>2, <2>3
<1>7. /\ cl'[c].key \in DOMAIN rows' /\ <<c, rows'[cl'[c].key].lock>> \in Range(line')
      /\ cl'[c].pc = "waiting"
  BY <1>1, <1>4 DEF l
<1> QED BY <1>4, <1>5, <1>6, <1>7 DEF InLine

LEMMA LeavesLine ==
  ASSUME InLine, NEW c \in Clients, NEW x, DOMAIN cl = Clients, Moves(c, x), LocksStay,
         ~Queued(x), line' = Released(c)
  PROVE  InLine'
<1>1. DOMAIN cl' = Clients /\ \A d \in Clients : cl'[d] = IF d = c THEN x ELSE cl[d]
  BY DEF Moves
<1>2. Line(line)
  BY DEF InLine
<1>3. /\ Line(line') /\ Range(line') = {e \in Range(line) : e[1] # c}
      /\ \A d : d # c /\ FirstOf(line, d) => FirstOf(line', d)
  BY <1>2, LineLeft DEF Released
<1>4. \A e \in Range(line') : e[1] \in Clients /\ Queued(cl'[e[1]])
  BY <1>1, <1>3 DEF InLine
<1>5. ASSUME NEW d \in Clients, Queued(cl'[d])
      PROVE  /\ cl'[d].key \in DOMAIN rows' /\ <<d, rows'[cl'[d].key].lock>> \in Range(line')
             /\ cl'[d].pc # "waiting" => FirstOf(line', d)
  <2>1. d # c /\ cl'[d] = cl[d]
    BY <1>1, <1>5
  <2>2. /\ cl[d].key \in DOMAIN rows /\ <<d, rows[cl[d].key].lock>> \in Range(line)
        /\ cl[d].pc # "waiting" => FirstOf(line, d)
    BY <1>5, <2>1 DEF InLine
  <2>3. cl[d].key \in DOMAIN rows' /\ rows'[cl[d].key].lock = rows[cl[d].key].lock
    BY <2>2 DEF LocksStay
  <2>4. <<d, rows[cl[d].key].lock>>[1] = d
    OBVIOUS
  <2>5. <<d, rows[cl[d].key].lock>> \in Range(line')
    BY <1>3, <2>1, <2>2, <2>4
  <2> QED BY <1>3, <2>1, <2>2, <2>3, <2>5
<1> QED BY <1>3, <1>4, <1>5 DEF InLine


LEMMA InLineStep ==
  ASSUME Keyed, InLine, NothingFails, NEW c \in Clients, Steps(c)
  PROVE  InLine'
<1> DEFINE old == cl[c]
<1>0. DOMAIN cl = Clients /\ Request(c, old, slots)
  BY DEF Keyed
<1>1. Queued(old) => FirstOf(line, c) \/ old.pc = "waiting"
  BY DEF InLine
<1>2. old.pc # "idle" => ~AliasKey(old.key)
  BY <1>0, RequestKey
<1>3. CASE Arrive(c)
  <2>1. PICK x : /\ Moves(c, x) /\ Request(c, x, slots) /\ NewOf(c, x)
                 /\ (Named(x) \/ Unchained(x) \/ Chains(x))
    BY <1>3, ArriveDoes
  <2>2. old.pc = "idle" /\ x.pc = "arrived" /\ UNCHANGED line
    BY <2>1 DEF NewOf
  <2>3. ~AliasKey(x.key)
    BY <2>1, <2>2, RequestKey
  <2>4. LocksStay
    <3>1. UNCHANGED rows \/ \E account, meta : SaveRow(x.key, account, meta)
      BY <2>1 DEF Named, Unchained, Chains
    <3> QED BY <2>3, <3>1, LocksKept
  <2>5. ~Queued(old) /\ ~Queued(x)
    BY <2>2 DEF Queued
  <2> QED BY <1>0, <2>1, <2>2, <2>4, <2>5, StaysInLine
<1>4. CASE JoinLock(c)
  <2>1. PICK x : /\ Moves(c, x) /\ Request(c, x, slots) /\ old.pc = "arrived" /\ x.pc = "waiting"
                 /\ rows' = WithRow(x.key) /\ line' = Append(line, <<c, rows'[x.key].lock>>)
    BY <1>4, JoinDoes
  <2>2. ~AliasKey(x.key)
    BY <2>1, RequestKey
  <2>3. LocksStay /\ x.key \in DOMAIN rows'
    BY <2>1, <2>2, LocksKept, Creates
  <2>4. ~Queued(old)
    BY <2>1 DEF Queued
  <2> QED BY <1>0, <2>1, <2>3, <2>4, JoinsLine
<1>5. CASE Enter(c)
  <2>1. PICK x : /\ Moves(c, x) /\ SameRequest(old, x)
                 /\ old.pc = "waiting" /\ x.pc = "entered" /\ HoldsLock(c) /\ UNCHANGED line
                 /\ (UNCHANGED rows \/ rows' = WithRow(x.key))
    BY <1>5, EnterDoes
  <2>2. x.key = old.key /\ ~AliasKey(x.key)
    BY <1>2, <2>1 DEF SameRequest
  <2>3. LocksStay
    BY <2>1, <2>2, LocksKept
  <2>4. FirstOf(line, c) /\ Queued(old) /\ Queued(x)
    BY <2>1 DEF HoldsLock, FirstOf, Queued
  <2> QED BY <1>0, <2>1, <2>2, <2>3, <2>4, StaysInLine
<1>6. CASE Pick(c)
  <2>1. PICK x : /\ Moves(c, x) /\ SameRequest(old, x)
                 /\ old.pc = "entered" /\ x.pc = "turn"
                 /\ line' = IF x.stream THEN Released(c) ELSE line
                 /\ Sticky(c, x) \/ Repinned(c, x) \/ Opened(c, x)
    BY <1>6, PickDoes
  <2>2. x.key = old.key /\ ~AliasKey(x.key)
    BY <1>2, <2>1 DEF SameRequest
  <2>3. LocksStay
    <3>1. UNCHANGED rows \/ \E account, meta : SaveRow(x.key, account, meta)
      BY <2>1 DEF Sticky, Repinned, Opened
    <3> QED BY <2>2, <3>1, LocksKept
  <2>4. Queued(old) /\ (Queued(x) <=> ~x.stream)
    BY <2>1 DEF Queued
  <2>5. CASE x.stream
    BY <1>0, <2>1, <2>3, <2>4, <2>5, LeavesLine
  <2>6. CASE ~x.stream
    BY <1>0, <1>1, <2>1, <2>2, <2>3, <2>4, <2>6, StaysInLine
  <2> QED BY <2>5, <2>6
<1>7. CASE Answer(c) \/ RetryFresh(c)
  <2>1. PICK x : /\ Moves(c, x) /\ SameRequest(old, x)
                 /\ old.pc = "turn" /\ x.pc \in {"turn", "answered"} /\ UNCHANGED <<rows, line>>
    BY <1>7, AnswerDoes, RetryDoes
  <2>2. x.key = old.key /\ (Queued(x) <=> Queued(old))
    BY <2>1 DEF SameRequest, Queued
  <2>3. LocksStay
    BY <2>1 DEF LocksStay
  <2> QED BY <1>0, <1>1, <2>1, <2>2, <2>3, StaysInLine
<1>8. ~Fail(c)
  <2>1. Fail(c) => old.pc = "turn" /\ ("fail" \in Events \/ ~Uploadable(c))
    BY DEF Fail
  <2>2. old.pc = "turn" => old.upload = FALSE
    BY <1>0 DEF NothingFails, NoUploads, Request
  <2> QED BY <2>1, <2>2 DEF Uploadable, NothingFails
<1>9. CASE Save(c)
  <2>1. PICK x : /\ Moves(c, x) /\ Over(c, x) /\ old.pc = "answered" /\ line' = Released(c)
                 /\ \E account, meta : SaveRow(old.key, account, meta)
    <3>1. PICK x : /\ Moves(c, x) /\ Over(c, x) /\ old.pc = "answered" /\ line' = Released(c)
                   /\ SaveRow(old.key, old.account, Minted(old, pool))
      BY <1>9, SaveDoes
    <3> QED BY <3>1
  <2>2. LocksStay /\ ~Queued(x)
    BY <1>2, <2>1, LocksKept DEF Queued, Over
  <2> QED BY <1>0, <2>1, <2>2, LeavesLine
<1>10. CASE Disconnect(c)
  <2>1. PICK x : /\ Moves(c, x) /\ Over(c, x) /\ Running(c) /\ old.stream /\ UNCHANGED <<rows, line>>
    BY <1>10, DisconnectDoes
  <2>2. LocksStay /\ ~Queued(x) /\ ~Queued(old)
    BY <2>1 DEF LocksStay, Queued, Over, Running
  <2> QED BY <1>0, <2>1, <2>2, StaysInLine
<1> QED BY <1>3, <1>4, <1>5, <1>6, <1>7, <1>8, <1>9, <1>10 DEF Steps

LEMMA EmptyLine == Line(<<>>) /\ Range(<<>>) = {}
<1> DEFINE q == <<>>
<1>1. DOMAIN q = {} /\ Range(q) = {}
  BY DEF Range
<1>2. q \in Seq({})
  OBVIOUS
<1> HIDE DEF q
<1>3. Line(q)
  BY <1>1, <1>2 DEF Line
<1> QED BY <1>1, <1>3 DEF q

LEMMA AllInLine == NothingFails => (Spec => [](Keyed /\ InLine))
<1> SUFFICES ASSUME NothingFails PROVE Spec => [](Keyed /\ InLine)
  OBVIOUS
<1>1. Init => Keyed /\ InLine
  <2> SUFFICES ASSUME Init PROVE InLine
    BY KeyedInit
  <2>1. PICK conv \in ConvOf : cl = [c \in Clients |-> Idle(conv[c], <<>>, 0)]
    BY DEF Init
  <2>2. \A c \in Clients : ~Queued(cl[c])
    BY <2>1 DEF Idle, Queued
  <2>3. Line(line) /\ Range(line) = {}
    BY EmptyLine DEF Init
  <2> QED BY <2>2, <2>3 DEF InLine
<1>2. Keyed /\ InLine /\ [Next]_vars => Keyed' /\ InLine'
  <2> SUFFICES ASSUME Keyed, InLine, [Next]_vars PROVE InLine'
    BY KeyedNext
  <2>1. ASSUME NEW c \in Clients, Steps(c) PROVE InLine'
    BY <2>1, InLineStep
  <2>2. ASSUME UNCHANGED <<rows, cl, line>> PROVE InLine'
    BY <2>2 DEF InLine
  <2>3. ASSUME Restart PROVE InLine'
    <3>1. line' = <<>> /\ \A c \in Clients : cl'[c].pc = "idle"
      BY <2>3, RestartDoes DEF Over
    <3>2. \A c \in Clients : ~Queued(cl'[c])
      BY <3>1 DEF Queued
    <3>3. Line(line') /\ Range(line') = {}
      BY <3>1, EmptyLine
    <3> QED BY <3>2, <3>3 DEF InLine
  <2>4. UNCHANGED vars \/ (\E a \in slots : Degrade(a) \/ Heal(a)) => UNCHANGED <<rows, cl, line>>
    BY DEF vars, Degrade, Heal
  <2> QED BY <2>1, <2>2, <2>3, <2>4 DEF Next, Steps
<1> QED BY <1>1, <1>2, PTL DEF Spec

\* Two requests that hold the lock of one row are one request.
LEMMA OneAtATime ==
  ASSUME Keyed, InLine, NEW c \in Clients, NEW d \in Clients,
         Queued(cl[c]), cl[c].pc # "waiting", Queued(cl[d]), cl[d].pc # "waiting",
         cl[c].key = cl[d].key
  PROVE  c = d
<1> DEFINE l == rows[cl[c].key].lock
<1>1. <<c, l>> \in Range(line) /\ <<d, l>> \in Range(line) /\ FirstOf(line, c) /\ FirstOf(line, d)
  BY DEF InLine
<1>2. Line(line)
  BY DEF InLine
<1> HIDE DEF l
<1> QED BY <1>1, <1>2, LineFirst

\* For any number of clients, accounts and requests, buffered or streamed:
\* while no turn fails, no two buffered requests of a conversation are past its
\* lock together, whatever streams, disconnects, is sent again or restarts
\* (SessionStore.lock_for, server.py's async with convo_lock).
THEOREM RunnersTakeTurns ==
  NothingFails => (Spec => []RunnersSerialized)
<1> SUFFICES ASSUME NothingFails PROVE Spec => []RunnersSerialized
  OBVIOUS
<1>1. Keyed /\ InLine => RunnersSerialized
  <2> SUFFICES ASSUME Keyed, InLine, NEW c \in Clients, NEW d \in Clients,
                      cl[c].pc \in {"entered", "turn", "answered"}, ~cl[c].stream,
                      cl[d].pc \in {"entered", "turn", "answered"}, ~cl[d].stream,
                      Resolve(cl[c].key) = Resolve(cl[d].key)
               PROVE  c = d
    BY DEF RunnersSerialized
  <2>1. Request(c, cl[c], slots) /\ Request(d, cl[d], slots) /\ cl[c].pc # "idle" /\ cl[d].pc # "idle"
    BY DEF Keyed
  <2>2. ~AliasKey(cl[c].key) /\ ~AliasKey(cl[d].key)
    BY <2>1, RequestKey
  <2>3. cl[c].key = cl[d].key
    BY <2>2, OwnRow
  <2>4. Queued(cl[c]) /\ Queued(cl[d]) /\ cl[c].pc # "waiting" /\ cl[d].pc # "waiting"
    BY DEF Queued
  <2> QED BY <2>3, <2>4, OneAtATime
<1> QED BY <1>1, AllInLine, PTL


-----------------------------------------------------------------------------
(* A conversation grows.  Past the lock a buffered request knows what its    *)
(* row continues, and nobody else writes it.                                 *)

Buffered == Streaming \subseteq {FALSE}

Past(x) == x.pc \in {"entered", "turn", "answered"}

\* What a request past the lock will continue
Believes(x) == IF x.pc = "entered" THEN x.resume ELSE x.meta

InTurn ==
  \A c \in Clients :
    Past(cl[c]) /\ cl[c].conv # NoConv => rows[cl[c].key].meta = Believes(cl[c])

IsConv(k) == k[1] = "conv"

LEMMA ChainedKey ==
  ASSUME NEW c, NEW x, NEW S, Request(c, x, S), x.pc # "idle", IsConv(x.key)
  PROVE  x.conv # NoConv
<1>1. ASSUME x.conv = NoConv PROVE FALSE
  <2>1. x.key = <<"fp", x.msgs>>
    BY <1>1 DEF Request, Fingerprint
  <2>2. x.key[1] = "fp" /\ x.key[1] = "conv"
    BY <2>1 DEF IsConv
  <2> QED BY <2>2
<1> QED BY <1>1

\* What a step leaves of the rows of conversations
Leaves(c) ==
  \A k \in DOMAIN rows :
    IsConv(k) => /\ k \in DOMAIN rows'
                 /\ \/ rows'[k].meta = rows[k].meta
                    \/ /\ Save(c) /\ k = cl[c].key /\ cl[c].pc = "answered"
                       /\ rows'[k].meta = Minted(cl[c], pool)

LEMMA NeverFails ==
  ASSUME Keyed, NothingFails, NEW c \in Clients
  PROVE  ~Fail(c)
<1>1. Fail(c) => cl[c].pc = "turn" /\ ("fail" \in Events \/ ~Uploadable(c))
  BY DEF Fail
<1>2. cl[c].pc = "turn" => cl[c].upload = FALSE
  BY DEF NothingFails, NoUploads, Keyed, Request
<1> QED BY <1>1, <1>2 DEF Uploadable, NothingFails

\* A request that chains by prefix writes no row of a conversation.
LEMMA ChainedLeaves ==
  ASSUME Keyed, NEW c \in Clients, NEW x, Request(c, x, slots), x.pc # "idle", x.conv = NoConv,
         UNCHANGED rows \/ \E account, meta : SaveRow(x.key, account, meta)
  PROVE  Leaves(c)
<1>1. ~AliasKey(x.key) /\ ~IsConv(x.key)
  BY RequestKey, ChainedKey
<1>2. UNCHANGED rows => Leaves(c)
  BY DEF Leaves
<1>3. ASSUME NEW account, NEW meta, SaveRow(x.key, account, meta) PROVE Leaves(c)
  <2>1. DOMAIN rows' = DOMAIN rows \cup {x.key} /\ \A k \in DOMAIN rows \ {x.key} : rows'[k] = rows[k]
    BY <1>1, <1>3, Saves
  <2> QED BY <1>1, <2>1 DEF Leaves
<1> QED BY <1>2, <1>3

LEMMA MadeLeaves ==
  ASSUME Keyed, NEW c \in Clients, NEW key, ~AliasKey(key), rows' = WithRow(key)
  PROVE  Leaves(c)
<1>1. DOMAIN WithRow(key) = DOMAIN rows \cup {key} /\ \A k \in DOMAIN rows : WithRow(key)[k] = rows[k]
  BY Creates
<1> QED BY <1>1 DEF Leaves

LEMMA ConvSteps ==
  ASSUME Keyed, InLine, InTurn, NothingFails, Buffered, "resume" \notin Events,
         NEW c \in Clients, Steps(c)
  PROVE  \E x : /\ Moves(c, x) /\ Leaves(c)
                /\ Past(x) /\ x.conv # NoConv => rows'[x.key].meta = Believes(x)
<1> DEFINE old == cl[c]
           Fine(x) == Past(x) /\ x.conv # NoConv => rows'[x.key].meta = Believes(x)
<1>0. Request(c, old, slots) /\ \A k \in DOMAIN rows : RowOk(rows[k], slots)
  BY DEF Keyed
<1>1. old.pc # "idle" => ~AliasKey(old.key)
  BY <1>0, RequestKey
<1>2. CASE Arrive(c)
  <2>1. PICK x : /\ Moves(c, x) /\ Request(c, x, slots) /\ NewOf(c, x)
                 /\ \/ x.conv # NoConv /\ Named(x)
                    \/ x.conv = NoConv /\ Unchained(x)
                    \/ x.conv = NoConv /\ Chains(x)
    BY <1>2, ArriveDoes
  <2>2. x.pc = "arrived" /\ Fine(x)
    BY <2>1 DEF NewOf, Past
  <2>3. Leaves(c)
    <3>1. UNCHANGED rows => Leaves(c)
      BY DEF Leaves
    <3>2. x.conv = NoConv /\ (UNCHANGED rows \/ \E account, meta : SaveRow(x.key, account, meta)) => Leaves(c)
      BY <2>1, <2>2, ChainedLeaves
    <3> QED BY <2>1, <3>1, <3>2 DEF Named, Unchained, Chains
  <2> QED BY <2>1, <2>2, <2>3
<1>3. CASE JoinLock(c)
  <2>1. PICK x : /\ Moves(c, x) /\ Request(c, x, slots) /\ x.pc = "waiting" /\ rows' = WithRow(x.key)
    BY <1>3, JoinDoes
  <2>2. ~AliasKey(x.key) /\ Fine(x)
    BY <2>1, RequestKey DEF Past
  <2>3. Leaves(c)
    BY <2>1, <2>2, MadeLeaves
  <2> QED BY <2>1, <2>2, <2>3
<1>4. CASE Enter(c)
  <2>1. PICK x : /\ Moves(c, x) /\ Request(c, x, slots) /\ x.pc = "entered"
                 /\ \/ x.conv = NoConv /\ UNCHANGED rows
                    \/ x.conv # NoConv /\ rows' = WithRow(x.key) /\ x.resume = rows'[x.key].meta
    BY <1>4, EnterDoes
  <2>2. ~AliasKey(x.key) /\ Fine(x)
    BY <2>1, RequestKey DEF Believes
  <2>3. Leaves(c)
    <3>1. UNCHANGED rows => Leaves(c)
      BY DEF Leaves
    <3> QED BY <2>1, <2>2, <3>1, MadeLeaves
  <2> QED BY <2>1, <2>2, <2>3
<1>5. CASE Pick(c)
  <2>1. PICK x : /\ Moves(c, x) /\ Request(c, x, slots) /\ SameRequest(old, x) /\ SamePrompt(old, x)
                 /\ old.pc = "entered" /\ x.pc = "turn"
                 /\ Sticky(c, x) \/ Repinned(c, x) \/ Opened(c, x)
    BY <1>5, PickDoes
  <2>2. x.key = old.key /\ x.conv = old.conv /\ x.resume = old.resume /\ ~AliasKey(x.key)
    BY <1>1, <2>1 DEF SameRequest, SamePrompt
  <2>3. CASE x.conv = NoConv
    <3>1. UNCHANGED rows \/ \E account, meta : SaveRow(x.key, account, meta)
      BY <2>1 DEF Sticky, Repinned, Opened
    <3>2. Leaves(c)
      BY <2>1, <2>3, <3>1, ChainedLeaves
    <3> QED BY <2>1, <2>3, <3>2
  <2>4. CASE x.conv # NoConv
    <3>1. x.key \in DOMAIN rows /\ rows[x.key].meta = x.resume
      <4>1. Queued(old) /\ Past(old) /\ Believes(old) = old.resume
        BY <2>1 DEF Queued, Past, Believes
      <4> QED BY <2>2, <2>4, <4>1 DEF InLine, InTurn
    <3>2. ~Repinned(c, x)
      <4>1. rows[x.key].meta # NoMeta => rows[x.key].account \in slots
        BY <1>0, <3>1 DEF RowOk
      <4> QED BY <3>1, <4>1 DEF Repinned
    <3>3. /\ x.meta = rows[x.key].meta
          /\ UNCHANGED rows \/ SaveRow(x.key, x.account, x.meta)
      BY <2>1, <3>1, <3>2 DEF Sticky, Opened
    <3>4. SaveRow(x.key, x.account, x.meta) =>
             /\ DOMAIN rows' = DOMAIN rows \cup {x.key} /\ rows'[x.key].meta = x.meta
             /\ \A k \in DOMAIN rows \ {x.key} : rows'[k] = rows[k]
      <4> SUFFICES ASSUME SaveRow(x.key, x.account, x.meta)
                   PROVE  /\ DOMAIN rows' = DOMAIN rows \cup {x.key} /\ rows'[x.key].meta = x.meta
                          /\ \A k \in DOMAIN rows \ {x.key} : rows'[k] = rows[k]
        OBVIOUS
      <4>1. ~AliasKey(x.key)
        BY <2>2
      <4> QED BY <4>1, Saves
    <3>5. rows'[x.key].meta = x.meta /\ \A k \in DOMAIN rows : k \in DOMAIN rows' /\ rows'[k].meta = rows[k].meta
      BY <3>3, <3>4
    <3>6. Leaves(c) /\ Fine(x)
      BY <2>1, <3>5 DEF Leaves, Believes
    <3> QED BY <2>1, <3>6
  <2> QED BY <2>3, <2>4
<1>6. CASE Answer(c)
  <2>1. PICK x : /\ Moves(c, x) /\ SameRequest(old, x) /\ x.meta = old.meta
                 /\ old.pc = "turn" /\ x.pc = "answered" /\ UNCHANGED rows
    BY <1>6, AnswerDoes
  <2>2. x.conv # NoConv => rows[x.key].meta = x.meta
    BY <2>1 DEF SameRequest, InTurn, Past, Believes
  <2>3. Leaves(c) /\ Fine(x)
    BY <2>1, <2>2 DEF Leaves, Believes
  <2> QED BY <2>1, <2>3
<1>7. ~RetryFresh(c) /\ ~Fail(c)
  BY NeverFails DEF RetryFresh
<1>8. CASE Save(c)
  <2>1. PICK x : /\ Moves(c, x) /\ Over(c, x) /\ old.pc = "answered"
                 /\ SaveRow(old.key, old.account, Minted(old, pool))
    BY <1>8, SaveDoes
  <2>2. /\ DOMAIN rows' = DOMAIN rows \cup {old.key} /\ rows'[old.key].meta = Minted(old, pool)
        /\ \A k \in DOMAIN rows \ {old.key} : rows'[k] = rows[k]
    BY <1>1, <2>1, Saves
  <2>3. Leaves(c) /\ Fine(x)
    BY <1>8, <2>1, <2>2 DEF Leaves, Over, Past
  <2> QED BY <2>1, <2>3
<1>9. ~Disconnect(c)
  <2>1. Disconnect(c) => old.stream /\ old.pc # "idle"
    BY DEF Disconnect
  <2>2. old.pc # "idle" => old.stream = FALSE
    BY <1>0 DEF Request, Buffered
  <2> QED BY <2>1, <2>2
<1> QED BY <1>2, <1>3, <1>4, <1>5, <1>6, <1>7, <1>8, <1>9 DEF Steps

LEMMA InTurnStep ==
  ASSUME Keyed, InLine, InTurn, NothingFails, Buffered, "resume" \notin Events,
         NEW c \in Clients, Steps(c)
  PROVE  InTurn'
<1>1. PICK x : /\ Moves(c, x) /\ Leaves(c)
               /\ Past(x) /\ x.conv # NoConv => rows'[x.key].meta = Believes(x)
  BY ConvSteps
<1>2. \A d \in Clients : cl'[d] = IF d = c THEN x ELSE cl[d]
  BY <1>1 DEF Moves, Keyed
<1>3. ASSUME NEW d \in Clients, d # c, Past(cl[d]), cl[d].conv # NoConv
      PROVE  rows'[cl[d].key].meta = Believes(cl[d])
  <2>1. Request(d, cl[d], slots) /\ cl[d].pc # "idle"
    BY <1>3 DEF Keyed, Past
  <2>2. cl[d].stream = FALSE /\ cl[d].key = <<"conv", <<cl[d].conv>>>>
    BY <1>3, <2>1 DEF Request, Buffered
  <2>3. IsConv(cl[d].key) /\ Queued(cl[d]) /\ cl[d].pc # "waiting"
    BY <1>3, <2>2 DEF IsConv, Queued, Past
  <2>4. cl[d].key \in DOMAIN rows /\ rows[cl[d].key].meta = Believes(cl[d])
    BY <1>3, <2>3 DEF InLine, InTurn
  <2>5. ASSUME cl[c].key = cl[d].key, cl[c].pc = "answered" PROVE FALSE
    <3>1. Request(c, cl[c], slots)
      BY DEF Keyed
    <3>2. cl[c].stream = FALSE
      BY <2>5, <3>1 DEF Request, Buffered
    <3>3. Queued(cl[c]) /\ cl[c].pc # "waiting"
      BY <2>5, <3>2 DEF Queued
    <3> QED BY <1>3, <2>3, <2>5, <3>3, OneAtATime
  <2> QED BY <1>1, <2>3, <2>4, <2>5 DEF Leaves
<1> QED BY <1>1, <1>2, <1>3 DEF InTurn

\* For any number of clients, accounts, requests and restarts: while requests
\* are buffered and no turn fails, what a conversation has at Gemini is only
\* added to, so no completed turn is lost to a request that did not see it
\* (SessionStore.lock_for, _save_state, _purge_dead_continuations).
THEOREM TurnsAreKept ==
  NothingFails /\ Buffered /\ "resume" \notin Events => (Spec => NoLostTurn)
<1> SUFFICES ASSUME NothingFails, Buffered, "resume" \notin Events PROVE Spec => NoLostTurn
  OBVIOUS
<1> DEFINE I == Keyed /\ InLine /\ InTurn
           Grow == \A k \in DOMAIN rows \cap DOMAIN rows' :
                     k[1] = "conv" => IsPrefix(rows[k].meta.hist, rows'[k].meta.hist)
<1>1. Init => InTurn
  <2> SUFFICES ASSUME Init PROVE InTurn
    OBVIOUS
  <2>1. PICK conv \in ConvOf : cl = [c \in Clients |-> Idle(conv[c], <<>>, 0)]
    BY DEF Init
  <2> QED BY <2>1 DEF InTurn, Past, Idle
<1>2. ASSUME UNCHANGED <<rows, cl>>, InTurn PROVE InTurn'
  BY <1>2 DEF InTurn
<1>3. UNCHANGED vars \/ (\E a \in slots : Degrade(a) \/ Heal(a)) => UNCHANGED <<rows, cl>>
  BY DEF vars, Degrade, Heal
<1>4. I /\ [Next]_vars => InTurn'
  <2> SUFFICES ASSUME I, [Next]_vars PROVE InTurn'
    OBVIOUS
  <2>1. ASSUME NEW c \in Clients, Steps(c) PROVE InTurn'
    BY <2>1, InTurnStep
  <2>2. ASSUME Restart PROVE InTurn'
    <3>1. \A c \in Clients : cl'[c].pc = "idle"
      BY <2>2, RestartDoes DEF Over
    <3> QED BY <3>1 DEF InTurn, Past
  <2> QED BY <1>2, <1>3, <2>1, <2>2 DEF Next, Steps
<1>5. I /\ [Next]_vars => [Grow]_rows
  <2> SUFFICES ASSUME I, [Next]_vars, NEW k \in DOMAIN rows \cap DOMAIN rows', IsConv(k)
               PROVE  IsPrefix(rows[k].meta.hist, rows'[k].meta.hist)
    BY DEF IsConv
  <2>1. rows[k].meta.hist \in Seq(Texts) /\ <<>> \in Seq(Texts)
    <3>1. rows[k].meta.hist \in Seq(Texts)
      BY DEF Keyed, RowOk
    <3> QED BY <3>1
  <2>2. ASSUME rows'[k].meta = rows[k].meta PROVE IsPrefix(rows[k].meta.hist, rows'[k].meta.hist)
    BY <2>1, <2>2, PrefixIs
  <2>3. ASSUME NEW c \in Clients, Steps(c) PROVE IsPrefix(rows[k].meta.hist, rows'[k].meta.hist)
    <3>1. Leaves(c)
      BY <2>3, ConvSteps
    <3>2. ASSUME Save(c), k = cl[c].key, cl[c].pc = "answered", rows'[k].meta = Minted(cl[c], pool)
          PROVE  IsPrefix(rows[k].meta.hist, rows'[k].meta.hist)
      <4> DEFINE x == cl[c]
      <4>1. Request(c, x, slots)
        BY DEF Keyed
      <4>2. x.conv # NoConv
        BY <3>2, <4>1, ChainedKey
      <4>3. rows[k].meta = x.meta
        BY <3>2, <4>2 DEF InTurn, Past, Believes
      <4>4. x.turns \in Seq(Texts)
        BY <4>1 DEF Request
      <4>5. x.answer \in Seq(Texts)
        <5>1. PICK a \in Answers : x.answer = <<a>>
          BY <3>2, <4>1 DEF Request
        <5>2. a \in Texts
          BY DEF Texts
        <5> QED BY <5>1, <5>2
      <4>6. rows'[k].meta.hist = rows[k].meta.hist \o x.turns \o x.answer
        <5>1. rows'[k].meta = Minted(x, pool)
          BY <3>2
        <5> HIDE DEF x
        <5>2. Minted(x, pool).hist = x.meta.hist \o x.turns \o x.answer
          BY DEF Minted
        <5>3. rows[k].meta.hist = x.meta.hist
          BY <4>3
        <5> QED BY <5>1, <5>2, <5>3
      <4> HIDE DEF x
      <4> QED BY <2>1, <4>4, <4>5, <4>6, PrefixIs
    <3> QED BY <2>2, <3>1, <3>2 DEF Leaves
  <2>4. ASSUME Restart PROVE rows'[k].meta = rows[k].meta
    BY <2>4 DEF Restart, Without
  <2>5. UNCHANGED rows => rows'[k].meta = rows[k].meta
    OBVIOUS
  <2> QED BY <1>3, <2>2, <2>3, <2>4, <2>5 DEF Next, Steps
<1>6. Spec => []I
  BY <1>1, <1>4, AllInLine, PTL DEF Spec
<1> QED BY <1>5, <1>6, PTL DEF Spec, NoLostTurn


-----------------------------------------------------------------------------
(* Clients that chain by prefix, with opening messages of their own, have    *)
(* rows of their own: what a request has found in its row stays there until  *)
(* its turn, though nothing holds the row before the lock is joined.         *)

Apart ==
  /\ \A conv \in ConvOf : \A c \in Clients : conv[c] = NoConv
  /\ \A c, d \in Clients : Opening[c] = Opening[d] => c = d

Home(x, table) ==
  /\ x.conv = NoConv
  /\ x.pc \in {"arrived", "waiting", "entered"} =>
       x.key \in DOMAIN table /\ table[x.key].meta = x.resume
  /\ x.cut = 0 => x.resume = NoMeta /\ x.meta = NoMeta

AtHome == \A c \in Clients : Home(cl[c], rows)

\* A continuation and the slot it goes to, under the jars p
Fits(account, meta, p) == meta # NoMeta => account \in DOMAIN p /\ meta.acct = p[account]

TableFits(table, p) == \A k \in DOMAIN table : Fits(table[k].account, table[k].meta, p)

TurnFits(x, p) == x.pc \in {"turn", "answered"} => Fits(x.account, x.meta, p)

LEMMA OwnKeys ==
  ASSUME Apart, NEW c \in Clients, NEW d \in Clients, NEW x, NEW y, NEW S, NEW U,
         Request(c, x, S), Request(d, y, U), x.pc # "idle", y.pc # "idle",
         x.conv = NoConv, y.conv = NoConv, x.key = y.key
  PROVE  c = d
<1>1. x.key = Fingerprint(x.msgs) /\ y.key = Fingerprint(y.msgs)
  BY DEF Request
<1>2. x.msgs = y.msgs
  <2>1. \A m : Fingerprint(m)[2] = m
    BY DEF Fingerprint
  <2>2. x.key[2] = x.msgs /\ y.key[2] = y.msgs
    BY <1>1, <2>1
  <2> QED BY <2>2
<1>3. x.msgs[1] = Opening[c] /\ y.msgs[1] = Opening[d]
  BY DEF Request
<1> QED BY <1>2, <1>3 DEF Apart

\* What a step may do to the rows, of which it is about one.
Touches(key) ==
  \/ UNCHANGED rows \/ rows' = WithRow(key) \/ rows' = Without(rows, {key})
  \/ \E account, meta : SaveRow(key, account, meta)

LEMMA Elsewhere ==
  ASSUME Keyed, NEW key, ~AliasKey(key), Touches(key)
  PROVE  \A k \in DOMAIN rows : k # key => k \in DOMAIN rows' /\ rows'[k] = rows[k]
<1>1. CASE UNCHANGED rows
  BY <1>1
<1>2. CASE rows' = WithRow(key)
  <2>1. DOMAIN WithRow(key) = DOMAIN rows \cup {key} /\ \A k \in DOMAIN rows : WithRow(key)[k] = rows[k]
    BY Creates
  <2> QED BY <1>2, <2>1
<1>3. CASE rows' = Without(rows, {key})
  BY <1>3 DEF Without
<1>4. ASSUME NEW account, NEW meta, SaveRow(key, account, meta)
      PROVE  \A k \in DOMAIN rows : k # key => k \in DOMAIN rows' /\ rows'[k] = rows[k]
  <2>1. DOMAIN rows' = DOMAIN rows \cup {key} /\ \A k \in DOMAIN rows \ {key} : rows'[k] = rows[k]
    BY <1>4, Saves
  <2> QED BY <2>1
<1> QED BY <1>1, <1>2, <1>3, <1>4 DEF Touches

LEMMA FitsStay ==
  ASSUME Keyed, NEW key, ~AliasKey(key), NEW p, TableFits(rows, p),
         \/ UNCHANGED rows \/ rows' = WithRow(key) \/ rows' = Without(rows, {key})
         \/ \E account, meta : SaveRow(key, account, meta) /\ Fits(account, meta, p)
  PROVE  TableFits(rows', p)
<1>1. UNCHANGED rows => TableFits(rows', p)
  OBVIOUS
<1>2. ASSUME rows' = WithRow(key) PROVE TableFits(rows', p)
  <2>1. /\ DOMAIN WithRow(key) = DOMAIN rows \cup {key} /\ \A k \in DOMAIN rows : WithRow(key)[k] = rows[k]
        /\ key \notin DOMAIN rows => WithRow(key)[key] = EmptyRow
    BY Creates
  <2>2. EmptyRow.meta = NoMeta
    BY DEF EmptyRow
  <2> QED BY <1>2, <2>1, <2>2 DEF TableFits, Fits
<1>3. ASSUME rows' = Without(rows, {key}) PROVE TableFits(rows', p)
  <2>1. DOMAIN rows' \subseteq DOMAIN rows /\ \A k \in DOMAIN rows' : rows'[k] = rows[k]
    BY <1>3 DEF Without
  <2> QED BY <2>1 DEF TableFits
<1>4. ASSUME NEW account, NEW meta, SaveRow(key, account, meta), Fits(account, meta, p)
      PROVE  TableFits(rows', p)
  <2>1. /\ DOMAIN rows' = DOMAIN rows \cup {key} /\ \A k \in DOMAIN rows \ {key} : rows'[k] = rows[k]
        /\ rows'[key].account = account /\ rows'[key].meta = meta
    BY <1>4, Saves
  <2> QED BY <1>4, <2>1 DEF TableFits
<1> QED BY <1>1, <1>2, <1>3, <1>4

\* What a step of client c does, as far as its own rows go.
Settles(c, x) ==
  /\ Moves(c, x) /\ Request(c, x, slots) /\ Home(x, rows')
  /\ \E key : /\ Touches(key)
              /\ (x.pc # "idle" /\ key = x.key) \/ (cl[c].pc # "idle" /\ key = cl[c].key)
  /\ TableFits(rows, pool) /\ TurnFits(cl[c], pool) => TableFits(rows', pool) /\ TurnFits(x, pool)

LEMMA ArriveSettles ==
  ASSUME Keyed, AtHome, NEW c \in Clients, Arrive(c)
  PROVE  \E x : Settles(c, x)
<1>1. PICK x : /\ Moves(c, x) /\ Request(c, x, slots) /\ NewOf(c, x)
               /\ \/ x.conv # NoConv /\ Named(x)
                  \/ x.conv = NoConv /\ Unchained(x)
                  \/ x.conv = NoConv /\ Chains(x)
  BY ArriveDoes
<1>2. x.pc = "arrived" /\ x.conv = NoConv /\ x.meta = NoMeta
  BY <1>1 DEF NewOf, AtHome, Home
<1>3. ~AliasKey(x.key)
  BY <1>1, <1>2, RequestKey
<1>4. PICK account, meta : /\ SaveRow(x.key, account, meta) /\ meta = x.resume
                           /\ x.cut = 0 => meta = NoMeta
                           /\ meta # NoMeta => \E k \in DOMAIN rows : account = rows[k].account /\ meta = rows[k].meta
  <2>1. CASE Unchained(x)
    BY <2>1 DEF Unchained
  <2>2. CASE Chains(x)
    <3>1. x.cut # 0
      BY <2>2 DEF Chains
    <3> QED BY <2>2, <3>1 DEF Chains
  <2> QED BY <1>1, <1>2, <2>1, <2>2
<1>5. x.key \in DOMAIN rows' /\ rows'[x.key].meta = x.resume
  <2>1. SaveRow(x.key, account, meta)
    BY <1>4
  <2>2. DOMAIN rows' = DOMAIN rows \cup {x.key} /\ rows'[x.key].meta = meta
    BY <1>3, <2>1, Saves
  <2> QED BY <1>4, <2>2
<1>6. Home(x, rows')
  BY <1>2, <1>4, <1>5 DEF Home
<1>7. Touches(x.key)
  BY <1>4 DEF Touches
<1>8. ASSUME TableFits(rows, pool) PROVE TableFits(rows', pool)
  <2>1. Fits(account, meta, pool)
    BY <1>4, <1>8 DEF TableFits, Fits
  <2> QED BY <1>3, <1>4, <1>8, <2>1, FitsStay
<1>9. TurnFits(x, pool)
  BY <1>2 DEF TurnFits
<1>10. x.pc # "idle"
  BY <1>2
<1> QED BY <1>1, <1>6, <1>7, <1>8, <1>9, <1>10 DEF Settles

LEMMA WaitSettles ==
  ASSUME Keyed, AtHome, NEW c \in Clients, JoinLock(c) \/ Enter(c)
  PROVE  \E x : Settles(c, x)
<1>1. Home(cl[c], rows)
  BY DEF AtHome
<1>2. PICK x : /\ Moves(c, x) /\ Request(c, x, slots) /\ SameRequest(cl[c], x) /\ SamePrompt(cl[c], x)
               /\ SameTurn(cl[c], x) /\ cl[c].pc \in {"arrived", "waiting"} /\ x.pc \in {"waiting", "entered"}
               /\ (UNCHANGED rows \/ rows' = WithRow(x.key))
  <2>1. CASE JoinLock(c)
    BY <2>1, JoinDoes
  <2>2. CASE Enter(c)
    <3>1. PICK x : /\ Moves(c, x) /\ Request(c, x, slots) /\ SameRequest(cl[c], x)
                   /\ SameTurn(cl[c], x) /\ cl[c].pc = "waiting" /\ x.pc = "entered"
                   /\ \/ x.conv = NoConv /\ SamePrompt(cl[c], x) /\ UNCHANGED rows
                      \/ x.conv # NoConv
      BY <2>2, EnterDoes
    <3>2. x.conv = NoConv
      BY <1>1, <3>1 DEF SameRequest, Home
    <3> QED BY <3>1, <3>2
  <2> QED BY <2>1, <2>2
<1>3. ~AliasKey(x.key) /\ x.pc # "idle"
  BY <1>2, RequestKey
<1>4. /\ x.key = cl[c].key /\ x.conv = cl[c].conv /\ x.cut = cl[c].cut /\ x.resume = cl[c].resume
      /\ x.meta = cl[c].meta
  BY <1>2 DEF SameRequest, SamePrompt, SameTurn
<1>5. x.key \in DOMAIN rows /\ rows[x.key].meta = x.resume
  BY <1>1, <1>2, <1>4 DEF Home
<1>6. x.key \in DOMAIN rows' /\ rows'[x.key].meta = x.resume
  <2>1. DOMAIN WithRow(x.key) = DOMAIN rows \cup {x.key} /\ \A k \in DOMAIN rows : WithRow(x.key)[k] = rows[k]
    BY <1>3, Creates
  <2> QED BY <1>2, <1>5, <2>1
<1>7. Home(x, rows')
  BY <1>1, <1>4, <1>6 DEF Home
<1>8. Touches(x.key)
  BY <1>2 DEF Touches
<1>9. TableFits(rows, pool) => TableFits(rows', pool)
  BY <1>2, <1>3, FitsStay
<1>10. TurnFits(x, pool)
  BY <1>2 DEF TurnFits
<1> QED BY <1>2, <1>3, <1>7, <1>8, <1>9, <1>10 DEF Settles

LEMMA PickSettles ==
  ASSUME Keyed, AtHome, NEW c \in Clients, Pick(c)
  PROVE  \E x : Settles(c, x)
<1> DEFINE old == cl[c]
<1>1. Home(old, rows)
  BY DEF AtHome
<1>2. PICK x : /\ Moves(c, x) /\ Request(c, x, slots) /\ SameRequest(old, x) /\ SamePrompt(old, x)
               /\ old.pc = "entered" /\ x.pc = "turn" /\ x.account \in slots
               /\ Sticky(c, x) \/ Repinned(c, x) \/ Opened(c, x)
  BY PickDoes
<1>3. ~AliasKey(x.key) /\ x.pc # "idle"
  BY <1>2, RequestKey
<1>4. x.key = old.key /\ x.conv = old.conv /\ x.cut = old.cut /\ x.resume = old.resume
  BY <1>2 DEF SameRequest, SamePrompt
<1>5. x.key \in DOMAIN rows /\ rows[x.key].meta = x.resume
  BY <1>1, <1>2, <1>4 DEF Home
<1>6. \/ UNCHANGED rows /\ x.account = rows[x.key].account /\ x.meta = rows[x.key].meta
      \/ x.meta = NoMeta /\ SaveRow(x.key, x.account, NoMeta)
  BY <1>2, <1>5 DEF Sticky, Repinned, Opened
<1>7. x.resume = NoMeta => x.meta = NoMeta
  BY <1>5, <1>6
<1>8. Home(x, rows')
  <2>1. x.pc \notin {"arrived", "waiting", "entered"} /\ x.conv = NoConv
    BY <1>1, <1>2, <1>4 DEF Home
  <2>2. x.cut = 0 => x.resume = NoMeta
    BY <1>1, <1>4 DEF Home
  <2> QED BY <1>7, <2>1, <2>2 DEF Home
<1>9. Touches(x.key)
  BY <1>6 DEF Touches
<1>10. ASSUME TableFits(rows, pool) PROVE TableFits(rows', pool) /\ TurnFits(x, pool)
  <2>1. Fits(x.account, x.meta, pool)
    BY <1>5, <1>6, <1>10 DEF TableFits, Fits
  <2>2. Fits(x.account, NoMeta, pool)
    BY DEF Fits
  <2> QED BY <1>3, <1>6, <1>10, <2>1, <2>2, FitsStay DEF TurnFits
<1> QED BY <1>2, <1>3, <1>8, <1>9, <1>10 DEF Settles

LEMMA TurnSettles ==
  ASSUME Keyed, AtHome, NEW c \in Clients, Answer(c) \/ RetryFresh(c)
  PROVE  \E x : Settles(c, x)
<1>1. Home(cl[c], rows)
  BY DEF AtHome
<1>2. PICK x : /\ Moves(c, x) /\ Request(c, x, slots) /\ SameRequest(cl[c], x) /\ SamePrompt(cl[c], x)
               /\ x.account = cl[c].account /\ (x.meta = cl[c].meta \/ x.meta = NoMeta)
               /\ cl[c].pc = "turn" /\ x.pc \in {"turn", "answered"} /\ UNCHANGED rows
  BY AnswerDoes, RetryDoes
<1>3. x.pc # "idle" /\ x.conv = cl[c].conv /\ x.cut = cl[c].cut /\ x.resume = cl[c].resume
  BY <1>2 DEF SameRequest, SamePrompt
<1>4. Home(x, rows')
  BY <1>1, <1>2, <1>3 DEF Home
<1>5. Touches(x.key)
  BY <1>2 DEF Touches
<1>6. TableFits(rows, pool) /\ TurnFits(cl[c], pool) => TableFits(rows', pool) /\ TurnFits(x, pool)
  BY <1>2 DEF TurnFits, Fits
<1> QED BY <1>2, <1>3, <1>4, <1>5, <1>6 DEF Settles

LEMMA EndSettles ==
  ASSUME Keyed, AtHome, NEW c \in Clients, Fail(c) \/ Save(c) \/ Disconnect(c)
  PROVE  \E x : Settles(c, x)
<1> DEFINE old == cl[c]
<1>1. Home(old, rows) /\ Request(c, old, slots)
  BY DEF AtHome, Keyed
<1>2. PICK x : /\ Moves(c, x) /\ Request(c, x, slots) /\ Over(c, x) /\ Running(c)
               /\ \/ UNCHANGED rows
                  \/ DropIfFresh(old.key)
                  \/ SaveRow(old.key, old.account, Minted(old, pool))
  <2>1. old.pc \in {"turn", "answered"} => Running(c)
    BY DEF Running
  <2>2. CASE Fail(c)
    <3>1. PICK x : Moves(c, x) /\ Request(c, x, slots) /\ Over(c, x) /\ old.pc = "turn" /\ DropIfFresh(old.key)
      BY <2>2, FailDoes
    <3> QED BY <2>1, <3>1
  <2>3. CASE Save(c)
    <3>1. PICK x : /\ Moves(c, x) /\ Request(c, x, slots) /\ Over(c, x) /\ old.pc = "answered"
                   /\ SaveRow(old.key, old.account, Minted(old, pool))
      BY <2>3, SaveDoes
    <3> QED BY <2>1, <3>1
  <2>4. CASE Disconnect(c)
    BY <2>4, DisconnectDoes
  <2> QED BY <2>2, <2>3, <2>4
<1>3. old.pc # "idle" /\ ~AliasKey(old.key) /\ old.account \in slots
  <2>1. old.pc # "idle" /\ old.account \in slots
    BY <1>1, <1>2 DEF Running, Request
  <2> QED BY <1>1, <2>1, RequestKey
<1>4. x.pc = "idle" /\ x.conv = NoConv /\ x.resume = NoMeta /\ x.meta = NoMeta
  BY <1>1, <1>2 DEF Over, Home
<1>5. Home(x, rows')
  BY <1>4 DEF Home
<1>6. \/ UNCHANGED rows \/ rows' = Without(rows, {old.key})
      \/ SaveRow(old.key, old.account, Minted(old, pool))
  BY <1>2, <1>3, Drops
<1>7. Touches(old.key)
  BY <1>6 DEF Touches
<1>8. Fits(old.account, Minted(old, pool), pool)
  BY <1>3 DEF Fits, Minted, slots
<1>9. TableFits(rows, pool) => TableFits(rows', pool)
  BY <1>3, <1>6, <1>8, FitsStay
<1>10. TurnFits(x, pool)
  BY <1>4 DEF TurnFits
<1> QED BY <1>2, <1>3, <1>5, <1>7, <1>9, <1>10 DEF Settles


LEMMA Settled ==
  ASSUME Keyed, AtHome, NEW c \in Clients, Steps(c)
  PROVE  \E x : Settles(c, x)
BY ArriveSettles, WaitSettles, PickSettles, TurnSettles, EndSettles DEF Steps

\* Other clients' rows stay as they are.
LEMMA HomeStep ==
  ASSUME Keyed, Apart, AtHome, NEW c \in Clients, Steps(c)
  PROVE  AtHome'
<1>1. PICK x : Settles(c, x)
  BY Settled
<1>2. \A d \in Clients : cl'[d] = IF d = c THEN x ELSE cl[d]
  BY <1>1 DEF Settles, Moves, Keyed
<1>3. PICK key : /\ Touches(key)
                 /\ (x.pc # "idle" /\ key = x.key) \/ (cl[c].pc # "idle" /\ key = cl[c].key)
  BY <1>1 DEF Settles
<1>4. Request(c, cl[c], slots) /\ Request(c, x, slots) /\ x.conv = NoConv /\ cl[c].conv = NoConv
  BY <1>1 DEF Keyed, Settles, AtHome, Home
<1>5. ~AliasKey(key)
  BY <1>3, <1>4, RequestKey
<1>6. ASSUME NEW d \in Clients, d # c PROVE Home(cl[d], rows')
  <2>1. Home(cl[d], rows) /\ Request(d, cl[d], slots)
    BY DEF AtHome, Keyed
  <2>2. CASE cl[d].pc \in {"arrived", "waiting", "entered"}
    <3>1. cl[d].key # key
      <4>1. cl[d].pc # "idle" /\ cl[d].conv = NoConv
        BY <2>1, <2>2 DEF Home
      <4>2. cl[d].key # x.key \/ x.pc = "idle"
        BY <1>4, <1>6, <2>1, <4>1, OwnKeys
      <4>3. cl[d].key # cl[c].key \/ cl[c].pc = "idle"
        BY <1>4, <1>6, <2>1, <4>1, OwnKeys
      <4> QED BY <1>3, <4>2, <4>3
    <3>2. cl[d].key \in DOMAIN rows' /\ rows'[cl[d].key] = rows[cl[d].key]
      BY <1>3, <1>5, <2>1, <2>2, <3>1, Elsewhere DEF Home
    <3> QED BY <2>1, <3>2 DEF Home
  <2>3. CASE cl[d].pc \notin {"arrived", "waiting", "entered"}
    BY <2>1, <2>3 DEF Home
  <2> QED BY <2>2, <2>3
<1>7. Home(x, rows')
  BY <1>1 DEF Settles
<1> QED BY <1>2, <1>6, <1>7 DEF AtHome

LEMMA OverHome ==
  ASSUME AtHome, NEW c \in Clients, NEW x, Over(c, x), NEW table
  PROVE  Home(x, table)
BY DEF AtHome, Home, Over

LEMMA AllAtHome == Apart => (Spec => [](Keyed /\ AtHome))
<1> SUFFICES ASSUME Apart PROVE Spec => [](Keyed /\ AtHome)
  OBVIOUS
<1>1. Init => AtHome
  <2> SUFFICES ASSUME Init PROVE AtHome
    OBVIOUS
  <2>1. PICK conv \in ConvOf : cl = [c \in Clients |-> Idle(conv[c], <<>>, 0)]
    BY DEF Init
  <2>2. ASSUME NEW c \in Clients PROVE Home(cl[c], rows)
    <3>1. cl[c] = Idle(conv[c], <<>>, 0) /\ conv[c] = NoConv
      BY <2>1 DEF Apart
    <3>2. cl[c].pc = "idle" /\ cl[c].conv = NoConv /\ cl[c].resume = NoMeta /\ cl[c].meta = NoMeta
      BY <3>1 DEF Idle
    <3> QED BY <3>2 DEF Home
  <2> QED BY <2>2 DEF AtHome
<1>2. Keyed /\ AtHome /\ [Next]_vars => AtHome'
  <2> SUFFICES ASSUME Keyed, AtHome, [Next]_vars PROVE AtHome'
    OBVIOUS
  <2>1. ASSUME NEW c \in Clients, Steps(c) PROVE AtHome'
    BY <2>1, HomeStep
  <2>2. ASSUME UNCHANGED <<rows, cl>> PROVE AtHome'
    BY <2>2 DEF AtHome
  <2>3. ASSUME Restart PROVE AtHome'
    BY <2>3, RestartDoes, OverHome DEF AtHome
  <2>4. UNCHANGED vars \/ (\E a \in slots : Degrade(a) \/ Heal(a)) => UNCHANGED <<rows, cl>>
    BY DEF vars, Degrade, Heal
  <2> QED BY <2>1, <2>2, <2>3, <2>4 DEF Next, Steps
<1> QED BY <1>1, <1>2, AllKeyed, PTL DEF Spec

\* For any number of clients that chain by prefix with openings of their own,
\* with uploads, failures, streams, disconnects, repeated requests and
\* restarts: a request that matches no known prefix continues no Gemini chat
\* (_find_chain_prev, _chat_turns, _pick_account_for_turns).
THEOREM FreshChatsAreFresh == Apart => (Spec => []FreshStartsFresh)
<1> SUFFICES ASSUME Apart PROVE Spec => []FreshStartsFresh
  OBVIOUS
<1>1. AtHome => FreshStartsFresh
  BY DEF AtHome, Home, FreshStartsFresh
<1> QED BY <1>1, AllAtHome, PTL

-----------------------------------------------------------------------------
(* The same clients, and slots that keep their accounts                      *)

AllFit == TableFits(rows, pool) /\ \A c \in Clients : TurnFits(cl[c], pool)

LEMMA FitStep ==
  ASSUME Keyed, AtHome, AllFit, NEW c \in Clients, Steps(c)
  PROVE  AllFit'
<1>1. PICK x : Settles(c, x)
  BY Settled
<1>2. /\ \A d \in Clients : cl'[d] = IF d = c THEN x ELSE cl[d]
      /\ pool' = pool
  BY <1>1 DEF Settles, Moves, Keyed
<1>3. TableFits(rows', pool) /\ TurnFits(x, pool)
  BY <1>1 DEF Settles, AllFit
<1> QED BY <1>2, <1>3 DEF AllFit

LEMMA FitRestart ==
  ASSUME Keyed, SlotsStay, pool \in Pools, AllFit, Restart
  PROVE  AllFit'
<1>1. PICK dead \in SUBSET DOMAIN rows :
        /\ \A k \in DOMAIN rows \ dead : rows[k].meta # NoMeta => rows[k].account \in slots'
        /\ rows' = Without(rows, dead)
  BY RestartDoes
<1>2. pool' \in Pools /\ \A i \in DOMAIN pool \cap DOMAIN pool' : pool[i] = pool'[i]
  BY RestartDoes DEF SlotsStay
<1>3. DOMAIN rows' = DOMAIN rows \ dead /\ \A k \in DOMAIN rows \ dead : rows'[k] = rows[k]
  BY <1>1, Gone
<1>4. TableFits(rows', pool')
  <2> SUFFICES ASSUME NEW k \in DOMAIN rows \ dead, rows[k].meta # NoMeta
               PROVE  rows[k].account \in DOMAIN pool' /\ rows[k].meta.acct = pool'[rows[k].account]
    BY <1>3 DEF TableFits, Fits
  <2>1. rows[k].account \in DOMAIN pool'
    BY <1>1 DEF slots
  <2>2. rows[k].account \in DOMAIN pool /\ rows[k].meta.acct = pool[rows[k].account]
    BY DEF AllFit, TableFits, Fits
  <2> QED BY <1>2, <2>1, <2>2
<1>5. \A c \in Clients : TurnFits(cl'[c], pool')
  <2>1. \A c \in Clients : cl'[c].pc = "idle"
    BY RestartDoes DEF Over
  <2> QED BY <2>1 DEF TurnFits
<1> QED BY <1>4, <1>5 DEF AllFit

LEMMA AllFits == Apart /\ SlotsStay => (Spec => []AllFit)
<1> SUFFICES ASSUME Apart, SlotsStay PROVE Spec => []AllFit
  OBVIOUS
<1> DEFINE I == Keyed /\ AtHome
           J == pool \in Pools /\ AllFit
<1>1. Init => J
  <2> SUFFICES ASSUME Init PROVE AllFit /\ pool \in Pools
    OBVIOUS
  <2>1. PICK conv \in ConvOf : cl = [c \in Clients |-> Idle(conv[c], <<>>, 0)]
    BY DEF Init
  <2>2. \A c \in Clients : cl[c].pc = "idle"
    BY <2>1 DEF Idle
  <2>3. DOMAIN rows = {} /\ pool \in Pools
    BY DEF Init
  <2> QED BY <2>2, <2>3 DEF AllFit, TableFits, TurnFits
<1>2. I /\ J /\ [Next]_vars => J'
  <2> SUFFICES ASSUME I, J, [Next]_vars PROVE pool' \in Pools /\ AllFit'
    OBVIOUS
  <2>1. ASSUME NEW c \in Clients, Steps(c) PROVE pool' \in Pools /\ AllFit'
    <3>1. AllFit'
      BY <2>1, FitStep
    <3>2. pool' = pool
      BY <2>1, Settled DEF Settles, Moves
    <3> QED BY <3>1, <3>2
  <2>2. ASSUME UNCHANGED <<rows, cl, pool>> PROVE pool' \in Pools /\ AllFit'
    BY <2>2 DEF AllFit
  <2>3. ASSUME Restart PROVE pool' \in Pools /\ AllFit'
    BY <2>3, RestartDoes, FitRestart
  <2>4. UNCHANGED vars \/ (\E a \in slots : Degrade(a) \/ Heal(a)) => UNCHANGED <<rows, cl, pool>>
    BY DEF vars, Degrade, Heal
  <2> QED BY <2>1, <2>2, <2>3, <2>4 DEF Next, Steps
<1>3. Spec => []I
  BY AllAtHome
<1> QED BY <1>1, <1>2, <1>3, PTL DEF Spec

\* For any number of such clients: no Gemini chat is ever sent to an account
\* that did not mint it, and no row is pinned apart from its chat, though
\* uploads move new chats between accounts (_pick_account_for_turns,
\* _pick_account, _save_state, _purge_dead_continuations).
THEOREM ChatsStayHome ==
  Apart /\ SlotsStay => (Spec => [](NoForeignContinuation /\ RowsMatchTheirAccount))
<1> SUFFICES ASSUME Apart, SlotsStay
             PROVE  Spec => [](NoForeignContinuation /\ RowsMatchTheirAccount)
  OBVIOUS
<1>1. AllFit => NoForeignContinuation /\ RowsMatchTheirAccount
  BY DEF AllFit, TableFits, TurnFits, Fits, Running, NoForeignContinuation, RowsMatchTheirAccount
<1> QED BY <1>1, AllFits, PTL

-----------------------------------------------------------------------------
(* What the rows of a client hold of its history.  A row is named after what *)
(* the client had said when it asked, and holds the end of that; once the    *)
(* answer has been read, the end of what the client has read.                *)

Begins(s, t) == Len(s) <= Len(t) /\ \A i \in 1..Len(s) : s[i] = t[i]

OneMore(s, t) == Begins(s, t) /\ Len(t) = Len(s) + 1

\* m has been asked by a client whose transcript is t
RowTold(m, meta, t) ==
  IF Begins(m, t) THEN meta # NoMeta /\ IsSuffix(meta.hist, SubSeq(t, 1, Len(m) + 1))
  ELSE Begins(DropLast(m, 1), t) /\ IsSuffix(meta.hist, DropLast(m, 1))

LEMMA DroppedOne ==
  ASSUME NEW T, NEW s \in Seq(T), Len(s) >= 1
  PROVE  /\ DropLast(s, 1) \in Seq(T) /\ Len(DropLast(s, 1)) = Len(s) - 1
         /\ \A i \in 1..(Len(s) - 1) : DropLast(s, 1)[i] = s[i]
<1>1. Len(s) \in Nat /\ DropLast(s, 1) = SubSeq(s, 1, Len(s) - 1)
  BY DEF DropLast
<1> QED BY <1>1

\* One message more and its answer
LEMMA OneMoreIs ==
  ASSUME NEW T, NEW s \in Seq(T), NEW t \in Seq(T), OneMore(s, t)
  PROVE  DropLast(t, 1) = s /\ t = Append(s, t[Len(t)]) /\ ~Begins(t, s) /\ Begins(s, s)
<1>1. Len(s) \in Nat /\ Len(t) = Len(s) + 1 /\ \A i \in 1..Len(s) : s[i] = t[i]
  BY DEF OneMore, Begins
<1>2. /\ DropLast(t, 1) \in Seq(T) /\ Len(DropLast(t, 1)) = Len(s)
      /\ \A i \in 1..Len(s) : DropLast(t, 1)[i] = s[i]
  BY <1>1, DroppedOne
<1>3. DropLast(t, 1) = s
  <2> DEFINE d == DropLast(t, 1)
  <2>1. d \in Seq(T) /\ Len(d) = Len(s) /\ \A i \in 1..Len(s) : d[i] = s[i]
    BY <1>2
  <2> HIDE DEF d
  <2>2. d = s
    BY <2>1
  <2> QED BY <2>2 DEF d
<1>4. t = Append(s, t[Len(t)])
  BY <1>1
<1> QED BY <1>1, <1>3, <1>4 DEF Begins

LEMMA ToldStays ==
  ASSUME NEW m \in Seq(Texts), NEW t \in Seq(Texts), NEW n \in Seq(Texts), NEW u \in Seq(Texts),
         OneMore(t, n), OneMore(n, u), m # n, ~Even(Len(m)), Even(Len(t)), Len(m) >= 1,
         NEW meta, RowTold(m, meta, t)
  PROVE  RowTold(m, meta, u)
<1>1. /\ Len(m) \in Nat /\ Len(t) \in Nat /\ Len(n) = Len(t) + 1 /\ Len(u) = Len(t) + 2
      /\ (\A i \in 1..Len(t) : t[i] = n[i]) /\ \A i \in 1..Len(n) : n[i] = u[i]
  BY DEF OneMore, Begins
<1>2. \A i \in 1..Len(t) : t[i] = u[i]
  BY <1>1
<1>3. CASE Begins(m, t)
  <2>1. Len(m) < Len(t) /\ \A i \in 1..Len(m) : m[i] = t[i]
    BY <1>1, <1>3 DEF Begins
  <2>2. Begins(m, u)
    BY <1>1, <1>2, <2>1 DEF Begins
  <2>3. SubSeq(u, 1, Len(m) + 1) = SubSeq(t, 1, Len(m) + 1)
    BY <1>1, <1>2, <2>1
  <2> QED BY <1>3, <2>2, <2>3 DEF RowTold
<1>4. CASE ~Begins(m, t)
  <2> DEFINE d == DropLast(m, 1)
  <2>1. Len(d) = Len(m) - 1 /\ \A i \in 1..(Len(m) - 1) : d[i] = m[i]
    BY DroppedOne
  <2>2. Begins(d, t) /\ IsSuffix(meta.hist, d)
    BY <1>4 DEF RowTold
  <2> HIDE DEF d
  <2>3. Begins(d, u)
    BY <1>1, <1>2, <2>1, <2>2 DEF Begins
  <2>4. ASSUME Begins(m, u) PROVE FALSE
    <3>1. \A i \in 1..Len(m) : m[i] = u[i]
      BY <2>4 DEF Begins
    <3>2. Len(m) - 1 <= Len(t)
      BY <2>1, <2>2 DEF Begins
    <3>3. CASE Len(m) <= Len(t)
      <4>1. Begins(m, t)
        BY <1>1, <1>2, <3>1, <3>3 DEF Begins
      <4> QED BY <1>4, <4>1
    <3>4. CASE Len(m) = Len(n)
      <4>1. \A i \in 1..Len(n) : m[i] = n[i]
        BY <1>1, <3>1, <3>4
      <4>2. m = n
        BY <3>4, <4>1
      <4> QED BY <4>2
    <3> QED BY <1>1, <3>2, <3>3, <3>4
  <2> QED BY <2>2, <2>3, <2>4 DEF RowTold, d
<1> QED BY <1>3, <1>4

\* A row for what the client asks now
LEMMA AskedRow ==
  ASSUME NEW t \in Seq(Texts), NEW n \in Seq(Texts), OneMore(t, n), NEW meta
  PROVE  RowTold(n, meta, t) <=> IsSuffix(meta.hist, t)
BY OneMoreIs DEF RowTold

\* A row for what the client has just been answered
LEMMA AnsweredRow ==
  ASSUME NEW n \in Seq(Texts), NEW u \in Seq(Texts), OneMore(n, u), NEW meta, meta # NoMeta,
         IsSuffix(meta.hist, u)
  PROVE  RowTold(n, meta, u)
<1>1. Begins(n, u) /\ Len(u) = Len(n) + 1 /\ Len(u) \in Nat
  BY DEF OneMore
<1>2. SubSeq(u, 1, Len(n) + 1) = u
  BY <1>1
<1> QED BY <1>1, <1>2 DEF RowTold

LEMMA AskedMore ==
  ASSUME NEW c, NEW x, NEW S, Request(c, x, S), x.pc # "idle"
  PROVE  /\ x.transcript \in Seq(Texts) /\ x.msgs \in Seq(Texts) /\ OneMore(x.transcript, x.msgs)
         /\ Even(Len(x.transcript)) /\ ~Even(Len(x.msgs)) /\ Len(x.msgs) >= 1 /\ x.msgs[1] = Opening[c]
<1>1. PICK text \in Texts : x.msgs = Append(x.transcript, text)
  BY DEF Request
<1>2. x.transcript \in Seq(Texts) /\ Even(Len(x.transcript)) /\ x.msgs[1] = Opening[c]
  BY DEF Request, Tale
<1>3. /\ x.msgs \in Seq(Texts) /\ Len(x.msgs) = Len(x.transcript) + 1 /\ ~Even(Len(x.msgs))
      /\ Len(x.transcript) \in Nat
  BY RequestKey
<1>4. \A i \in 1..Len(x.transcript) : x.transcript[i] = x.msgs[i]
  BY <1>1, <1>2
<1> QED BY <1>2, <1>3, <1>4 DEF OneMore, Begins

LEMMA AnsweredMore ==
  ASSUME NEW c, NEW x, NEW S, Request(c, x, S), x.pc = "answered"
  PROVE  LET u == x.msgs \o x.answer
         IN  /\ u \in Seq(Texts) /\ OneMore(x.msgs, u) /\ u[1] = Opening[c] /\ Even(Len(u))
             /\ x.answer \in Seq(Texts) /\ x.answer # <<>>
<1> DEFINE u == x.msgs \o x.answer
<1>1. PICK a \in Answers : x.answer = <<a>>
  BY DEF Request
<1>2. a \in Texts
  BY DEF Texts
<1>3. x.msgs \in Seq(Texts) /\ x.msgs[1] = Opening[c] /\ Len(x.msgs) >= 1
  BY AskedMore
<1>4. u \in Seq(Texts) /\ Even(Len(u))
  BY ToldNext DEF Tale
<1>5. Len(u) = Len(x.msgs) + 1 /\ \A i \in 1..Len(x.msgs) : x.msgs[i] = u[i]
  BY <1>1, <1>2, <1>3
<1>6. x.answer \in Seq(Texts) /\ x.answer # <<>>
  BY <1>1, <1>2
<1> HIDE DEF u
<1>7. u[1] = Opening[c]
  BY <1>3, <1>5
<1>8. OneMore(x.msgs, u)
  <2>1. Len(x.msgs) \in Nat
    BY <1>3
  <2> QED BY <1>5, <2>1 DEF OneMore, Begins
<1> QED BY <1>4, <1>6, <1>7, <1>8 DEF u


\* The rows of client c, who has read t
TableTold(c, t, table) ==
  \A m \in Seq(Texts) :
    Len(m) >= 1 /\ m[1] = Opening[c] /\ Fingerprint(m) \in DOMAIN table =>
      RowTold(m, table[Fingerprint(m)].meta, t)

\* Its aliases: a transcript it has read leads to the row of the last request
LinksTold(c, t, table, al) ==
  \A f \in Seq(Texts) :
    Len(f) >= 1 /\ f[1] = Opening[c] /\ Fingerprint(f) \in DOMAIN al =>
      /\ Begins(f, t) /\ al[Fingerprint(f)] = Fingerprint(DropLast(f, 1))
      /\ Fingerprint(DropLast(f, 1)) \in DOMAIN table

\* Its request
Asked(x) ==
  x.pc # "idle" =>
    /\ IsSuffix(x.resume.hist, x.transcript) /\ IsSuffix(x.meta.hist, x.transcript)
    /\ x.turns = IF x.cut = 0 THEN x.msgs ELSE <<x.msgs[Len(x.msgs)]>>

ToldWell ==
  \A c \in Clients : /\ TableTold(c, cl[c].transcript, rows)
                     /\ LinksTold(c, cl[c].transcript, rows, aliases)
                     /\ Asked(cl[c])

SentOnce == "resend" \notin Events /\ "disconnect" \notin Events

LEMMA OnePrint ==
  ASSUME NEW m, NEW n, Fingerprint(m) = Fingerprint(n)
  PROVE  m = n
<1>1. Fingerprint(m)[2] = m /\ Fingerprint(n)[2] = n
  BY DEF Fingerprint
<1> QED BY <1>1

LEMMA RowsTold ==
  ASSUME Keyed, NEW key, ~AliasKey(key), Touches(key), NEW d, NEW t, TableTold(d, t, rows),
         \A m \in Seq(Texts) : Len(m) >= 1 /\ m[1] = Opening[d] /\ Fingerprint(m) = key /\ key \in DOMAIN rows'
                                 => RowTold(m, rows'[key].meta, t)
  PROVE  TableTold(d, t, rows')
<1> SUFFICES ASSUME NEW m \in Seq(Texts), Len(m) >= 1, m[1] = Opening[d], Fingerprint(m) \in DOMAIN rows',
                    Fingerprint(m) # key
             PROVE  RowTold(m, rows'[Fingerprint(m)].meta, t)
  BY DEF TableTold
<1>1. Fingerprint(m) \in DOMAIN rows /\ rows'[Fingerprint(m)] = rows[Fingerprint(m)]
  <2>1. DOMAIN rows' \subseteq DOMAIN rows \cup {key}
    <3>1. DOMAIN WithRow(key) = DOMAIN rows \cup {key}
      BY Creates
    <3>2. DOMAIN Without(rows, {key}) \subseteq DOMAIN rows
      BY DEF Without
    <3>3. ASSUME NEW account, NEW meta, SaveRow(key, account, meta) PROVE DOMAIN rows' = DOMAIN rows \cup {key}
      BY <3>3, Saves
    <3> QED BY <3>1, <3>2, <3>3 DEF Touches
  <2> QED BY <2>1, Elsewhere
<1> QED BY <1>1 DEF TableTold

\* The first text of what has been read before the last answer
LEMMA EvenDrop ==
  ASSUME NEW f \in Seq(Texts), Len(f) >= 1, Even(Len(f))
  PROVE  /\ DropLast(f, 1) \in Seq(Texts) /\ Len(DropLast(f, 1)) = Len(f) - 1 /\ Len(f) >= 2
         /\ DropLast(f, 1)[1] = f[1] /\ Begins(DropLast(f, 1), f) /\ ~Even(Len(DropLast(f, 1)))
<1> DEFINE d == DropLast(f, 1)
<1>1. /\ d \in Seq(Texts) /\ Len(d) = Len(f) - 1 /\ Len(f) \in Nat
      /\ \A i \in 1..(Len(f) - 1) : d[i] = f[i]
  BY DroppedOne
<1> HIDE DEF d
<1>2. Len(f) >= 2
  <2>1. PICK i \in Nat : Len(f) = 2 * i
    BY DEF Even
  <2> QED BY <2>1
<1>3. d[1] = f[1] /\ Begins(d, f)
  BY <1>1, <1>2 DEF Begins
<1>4. ~Even(Len(d))
  <2>1. PICK i \in Nat : Len(f) = 2 * i
    BY DEF Even
  <2>2. ASSUME NEW j \in Nat, Len(d) = 2 * j PROVE FALSE
    BY <1>1, <2>1, <2>2
  <2> QED BY <2>2 DEF Even
<1> QED BY <1>1, <1>2, <1>3, <1>4 DEF d

\* The key of an alias is that of an even transcript, the key of a row is not.
LEMMA KeyLengths ==
  ASSUME Keyed, NEW m \in Seq(Texts)
  PROVE  /\ Fingerprint(m) \in DOMAIN aliases => Even(Len(m))
         /\ Fingerprint(m) \in DOMAIN rows => ~Even(Len(m))
         /\ Even(Len(m)) => AliasKey(Fingerprint(m))
         /\ ~Even(Len(m)) => ~AliasKey(Fingerprint(m))
<1>1. Even(Len(m)) => AliasKey(Fingerprint(m))
  BY DEF AliasKey, Fingerprint
<1>2. AliasKey(Fingerprint(m)) => Even(Len(m))
  <2>1. ASSUME NEW f \in Seq(Texts), Even(Len(f)), Fingerprint(m) = <<"fp", f>> PROVE Even(Len(m))
    <3>1. Fingerprint(m) = Fingerprint(f)
      BY <2>1 DEF Fingerprint
    <3> QED BY <2>1, <3>1, OnePrint
  <2> QED BY <2>1 DEF AliasKey
<1> QED BY <1>1, <1>2 DEF Keyed, Flat

LEMMA LinksKept ==
  ASSUME Keyed, NEW key, ~AliasKey(key), Touches(key), NEW d, NEW t, LinksTold(d, t, rows, aliases),
         \A f \in Seq(Texts) : Len(f) >= 1 /\ f[1] = Opening[d] /\ Begins(f, t) /\ Even(Len(f))
                                 => Fingerprint(DropLast(f, 1)) # key,
         \A f \in Seq(Texts) : Len(f) >= 1 /\ f[1] = Opening[d] /\ Fingerprint(f) \in DOMAIN aliases'
                                 => /\ Fingerprint(f) \in DOMAIN aliases
                                    /\ aliases'[Fingerprint(f)] = aliases[Fingerprint(f)]
  PROVE  LinksTold(d, t, rows', aliases')
<1> SUFFICES ASSUME NEW f \in Seq(Texts), Len(f) >= 1, f[1] = Opening[d], Fingerprint(f) \in DOMAIN aliases'
             PROVE  /\ Begins(f, t) /\ aliases'[Fingerprint(f)] = Fingerprint(DropLast(f, 1))
                    /\ Fingerprint(DropLast(f, 1)) \in DOMAIN rows'
  BY DEF LinksTold
<1>1. /\ Fingerprint(f) \in DOMAIN aliases
      /\ aliases'[Fingerprint(f)] = aliases[Fingerprint(f)]
  OBVIOUS
<1>2. /\ Begins(f, t) /\ aliases[Fingerprint(f)] = Fingerprint(DropLast(f, 1))
      /\ Fingerprint(DropLast(f, 1)) \in DOMAIN rows
  BY <1>1 DEF LinksTold
<1>3. Even(Len(f))
  BY <1>1, KeyLengths
<1>4. Fingerprint(DropLast(f, 1)) # key
  BY <1>2, <1>3
<1>5. Fingerprint(DropLast(f, 1)) \in DOMAIN rows'
  BY <1>2, <1>4, Elsewhere
<1> QED BY <1>1, <1>2, <1>5


\* Every step of client c but the save
Tells(c, x) ==
  /\ Moves(c, x) /\ Request(c, x, slots) /\ x.transcript = cl[c].transcript /\ Asked(x)
  /\ \E n \in Seq(Texts) :
       /\ OneMore(x.transcript, n) /\ n[1] = Opening[c] /\ Touches(Fingerprint(n))
       /\ Fingerprint(n) \in DOMAIN rows' => IsSuffix(rows'[Fingerprint(n)].meta.hist, x.transcript)
       /\ \/ UNCHANGED aliases
          \/ aliases' = Without(aliases, {a \in DOMAIN aliases : aliases[a] = Fingerprint(n)})

LEMMA TellsTold ==
  ASSUME Keyed, Apart, ToldWell, NEW c \in Clients, NEW x, Tells(c, x)
  PROVE  ToldWell'
<1> DEFINE t == cl[c].transcript
<1>1. \A d \in Clients : cl'[d] = IF d = c THEN x ELSE cl[d]
  BY DEF Tells, Moves, Keyed
<1>2. PICK n \in Seq(Texts) :
       /\ OneMore(t, n) /\ n[1] = Opening[c] /\ Touches(Fingerprint(n))
       /\ Fingerprint(n) \in DOMAIN rows' => IsSuffix(rows'[Fingerprint(n)].meta.hist, t)
       /\ \/ UNCHANGED aliases
          \/ aliases' = Without(aliases, {a \in DOMAIN aliases : aliases[a] = Fingerprint(n)})
  BY DEF Tells
<1> DEFINE key == Fingerprint(n)
<1>3. t \in Seq(Texts) /\ Even(Len(t)) /\ Len(n) = Len(t) + 1 /\ Len(t) \in Nat /\ Len(n) \in Nat
  <2>1. t \in Seq(Texts) /\ Even(Len(t))
    BY DEF Keyed, Request, Tale
  <2> QED BY <1>2, <2>1 DEF OneMore
<1>4. ~AliasKey(key)
  <2>1. ~Even(Len(n))
    BY <1>3, EvenNext
  <2> QED BY <2>1, KeyLengths
<1>5. \A f \in Seq(Texts) : Fingerprint(f) \in DOMAIN aliases' =>
        Fingerprint(f) \in DOMAIN aliases /\ aliases'[Fingerprint(f)] = aliases[Fingerprint(f)]
  BY <1>2 DEF Without
<1>6. Touches(key)
  BY <1>2
<1>7. ASSUME NEW d \in Clients, d # c
      PROVE  TableTold(d, cl[d].transcript, rows') /\ LinksTold(d, cl[d].transcript, rows', aliases')
  <2>1. TableTold(d, cl[d].transcript, rows) /\ LinksTold(d, cl[d].transcript, rows, aliases)
    BY DEF ToldWell
  <2>2. \A m \in Seq(Texts) : Len(m) >= 1 /\ m[1] = Opening[d] => Fingerprint(m) # key
    BY <1>2, <1>7, OnePrint DEF Apart
  <2>3. \A f \in Seq(Texts) : Len(f) >= 1 /\ f[1] = Opening[d] /\ Even(Len(f)) => Fingerprint(DropLast(f, 1)) # key
    <3> SUFFICES ASSUME NEW f \in Seq(Texts), Len(f) >= 1, f[1] = Opening[d], Even(Len(f))
                 PROVE  Fingerprint(DropLast(f, 1)) # key
      OBVIOUS
    <3>1. DropLast(f, 1) \in Seq(Texts) /\ Len(DropLast(f, 1)) >= 1 /\ DropLast(f, 1)[1] = Opening[d]
      BY EvenDrop
    <3> QED BY <2>2, <3>1
  <2> HIDE DEF key
  <2>4. TableTold(d, cl[d].transcript, rows')
    BY <1>4, <1>6, <2>1, <2>2, RowsTold
  <2>5. LinksTold(d, cl[d].transcript, rows', aliases')
    BY <1>4, <1>5, <1>6, <2>1, <2>3, LinksKept
  <2> QED BY <2>4, <2>5
<1>8. TableTold(c, t, rows') /\ LinksTold(c, t, rows', aliases')
  <2>1. TableTold(c, t, rows) /\ LinksTold(c, t, rows, aliases)
    BY DEF ToldWell
  <2>2. ASSUME NEW m \in Seq(Texts), Fingerprint(m) = key, key \in DOMAIN rows'
        PROVE  RowTold(m, rows'[key].meta, t)
    <3>1. m = n
      BY <2>2, OnePrint
    <3>2. IsSuffix(rows'[key].meta.hist, t)
      BY <1>2, <2>2
    <3> HIDE DEF key
    <3> QED BY <1>2, <1>3, <3>1, <3>2, AskedRow
  <2>3. \A f \in Seq(Texts) : Len(f) >= 1 /\ Begins(f, t) /\ Even(Len(f)) => Fingerprint(DropLast(f, 1)) # key
    <3> SUFFICES ASSUME NEW f \in Seq(Texts), Len(f) >= 1, Begins(f, t), Even(Len(f)), Fingerprint(DropLast(f, 1)) = key
                 PROVE  FALSE
      OBVIOUS
    <3>1. DropLast(f, 1) = n
      BY OnePrint
    <3>2. Len(n) = Len(f) - 1 /\ Len(f) <= Len(t) /\ Len(f) \in Nat
      BY <3>1, EvenDrop DEF Begins
    <3> QED BY <1>3, <3>2
  <2> HIDE DEF key, t
  <2>4. TableTold(c, t, rows')
    BY <1>4, <1>6, <2>1, <2>2, RowsTold
  <2>5. LinksTold(c, t, rows', aliases')
    BY <1>4, <1>5, <1>6, <2>1, <2>3, LinksKept
  <2> QED BY <2>4, <2>5
<1>9. x.transcript = t /\ Asked(x)
  BY DEF Tells
<1>10. ASSUME NEW d \in Clients
       PROVE  /\ TableTold(d, cl'[d].transcript, rows') /\ LinksTold(d, cl'[d].transcript, rows', aliases')
              /\ Asked(cl'[d])
  BY <1>1, <1>7, <1>8, <1>9 DEF ToldWell
<1> QED BY <1>10 DEF ToldWell

LEMMA NoHist == ASSUME NEW t \in Seq(Texts) PROVE IsSuffix(NoMeta.hist, t)
<1>1. NoMeta.hist = <<>>
  BY DEF NoMeta
<1> QED BY <1>1, EndSelf

\* The row of the last request a client has the answer of
LEMMA LastRow ==
  ASSUME Keyed, NEW c \in Clients, NEW t \in Seq(Texts), Even(Len(t)), Len(t) >= 1, t[1] = Opening[c],
         TableTold(c, t, rows), Fingerprint(DropLast(t, 1)) \in DOMAIN rows
  PROVE  /\ rows[Fingerprint(DropLast(t, 1))].meta # NoMeta
         /\ IsSuffix(rows[Fingerprint(DropLast(t, 1))].meta.hist, t)
<1> DEFINE m == DropLast(t, 1)
<1>1. /\ m \in Seq(Texts) /\ Len(m) = Len(t) - 1 /\ Len(t) >= 2 /\ m[1] = t[1] /\ Begins(m, t)
  BY EvenDrop
<1> HIDE DEF m
<1>2. RowTold(m, rows[Fingerprint(m)].meta, t)
  BY <1>1 DEF TableTold, m
<1>3. SubSeq(t, 1, Len(m) + 1) = t
  BY <1>1
<1> QED BY <1>1, <1>2, <1>3 DEF RowTold, m

\* The prefix a chained request has found is what the client has read.
LEMMA SourceTold ==
  ASSUME Keyed, ToldWell, NEW c \in Clients, NEW x, Request(c, x, slots), x.pc # "idle",
         x.transcript = cl[c].transcript, Chains(x), x.conv = NoConv
  PROVE  IsSuffix(x.resume.hist, x.transcript)
<1> DEFINE t == x.transcript
<1>1. /\ t \in Seq(Texts) /\ x.msgs \in Seq(Texts) /\ OneMore(t, x.msgs) /\ Even(Len(t))
      /\ ~Even(Len(x.msgs)) /\ Len(x.msgs) >= 1 /\ x.msgs[1] = Opening[c]
  BY AskedMore
<1>2. TableTold(c, t, rows) /\ LinksTold(c, t, rows, aliases)
  BY DEF ToldWell
<1>3. Len(x.msgs) = Len(t) + 1 /\ (\A i \in 1..Len(t) : t[i] = x.msgs[i]) /\ Len(t) \in Nat
  BY <1>1 DEF OneMore, Begins
<1>4. x.key = Fingerprint(x.msgs)
  BY DEF Request
<1>5. CASE SourceOf(x) = x.key
  <2>1. x.key \in DOMAIN rows /\ x.resume = rows[x.key].meta
    BY <1>5 DEF Chains
  <2>2. RowTold(x.msgs, rows[x.key].meta, t)
    BY <1>1, <1>2, <1>4, <2>1 DEF TableTold
  <2> HIDE DEF t
  <2>3. IsSuffix(rows[x.key].meta.hist, t)
    BY <1>1, <2>2, AskedRow
  <2> QED BY <2>1, <2>3 DEF t
<1>6. CASE SourceOf(x) # x.key
  <2> DEFINE m == DropLast(t, 1)
  <2>1. /\ SourceOf(x) = Resolve(Fingerprint(DropLast(x.msgs, x.cut)))
        /\ x.cut \in {1, 2} /\ Len(x.msgs) > x.cut
        /\ SourceOf(x) \in DOMAIN rows /\ x.resume = rows[SourceOf(x)].meta
    BY <1>6 DEF Chains, SourceOf
  <2>2. Len(t) >= 1 /\ t[1] = Opening[c]
    BY <1>1, <1>3, <2>1
  <2>3. /\ m \in Seq(Texts) /\ Len(m) = Len(t) - 1 /\ Len(t) >= 2 /\ m[1] = t[1] /\ ~Even(Len(m))
    BY <1>1, <2>2, EvenDrop
  <2>4. DropLast(x.msgs, 1) = t
    BY <1>1, OneMoreIs
  <2>5. DropLast(x.msgs, 2) = m
    <3>1. DropLast(x.msgs, 2) = SubSeq(x.msgs, 1, Len(t) - 1) /\ m = SubSeq(t, 1, Len(t) - 1)
      <4>1. Len(x.msgs) - 2 = Len(t) - 1
        BY <1>3
      <4> QED BY <4>1 DEF DropLast
    <3> HIDE DEF m, t
    <3>2. SubSeq(x.msgs, 1, Len(t) - 1) = SubSeq(t, 1, Len(t) - 1)
      BY <1>1, <1>3, <2>2
    <3> QED BY <3>1, <3>2
  <2>6. SourceOf(x) = Fingerprint(m)
    <3>1. CASE x.cut = 2
      <4>1. ~AliasKey(Fingerprint(m))
        BY <2>3, KeyLengths
      <4>2. Resolve(Fingerprint(m)) = Fingerprint(m)
        BY <4>1, OwnRow
      <4> QED BY <2>1, <2>5, <3>1, <4>2
    <3>2. CASE x.cut = 1
      <4>1. SourceOf(x) = Resolve(Fingerprint(t))
        BY <2>1, <2>4, <3>2
      <4>2. Fingerprint(t) \in DOMAIN aliases
        <5>1. Fingerprint(t) \notin DOMAIN rows
          BY <1>1, KeyLengths
        <5> QED BY <2>1, <4>1, <5>1, Resolves
      <4>3. Resolve(Fingerprint(t)) = aliases[Fingerprint(t)]
        BY <4>2, Resolves
      <4>4. aliases[Fingerprint(t)] = Fingerprint(m)
        BY <1>1, <1>2, <2>2, <4>2 DEF LinksTold
      <4> QED BY <4>1, <4>3, <4>4
    <3> QED BY <2>1, <3>1, <3>2
  <2>7. IsSuffix(rows[Fingerprint(m)].meta.hist, t)
    BY <1>1, <1>2, <2>1, <2>2, <2>6, LastRow
  <2> QED BY <2>1, <2>6, <2>7
<1> QED BY <1>5, <1>6


LEMMA ArriveTells ==
  ASSUME Keyed, AtHome, ToldWell, NEW c \in Clients, Arrive(c)
  PROVE  \E x : Tells(c, x)
<1>1. PICK x : /\ Moves(c, x) /\ Request(c, x, slots) /\ NewOf(c, x)
               /\ \/ x.conv # NoConv /\ Named(x)
                  \/ x.conv = NoConv /\ Unchained(x)
                  \/ x.conv = NoConv /\ Chains(x)
  BY ArriveDoes
<1>2. /\ x.pc # "idle" /\ x.conv = NoConv /\ x.meta = NoMeta
      /\ x.transcript = cl[c].transcript /\ UNCHANGED aliases
  BY <1>1 DEF NewOf, AtHome, Home
<1>3. /\ x.transcript \in Seq(Texts) /\ x.msgs \in Seq(Texts) /\ OneMore(x.transcript, x.msgs)
      /\ x.msgs[1] = Opening[c]
  BY <1>1, <1>2, AskedMore
<1>4. x.key = Fingerprint(x.msgs) /\ ~AliasKey(x.key)
  BY <1>1, <1>2, RequestKey DEF Request
<1>5. IsSuffix(x.meta.hist, x.transcript)
  BY <1>2, <1>3, NoHist
<1>6. /\ IsSuffix(x.resume.hist, x.transcript)
      /\ x.turns = IF x.cut = 0 THEN x.msgs ELSE <<x.msgs[Len(x.msgs)]>>
      /\ \E account : SaveRow(x.key, account, x.resume)
  <2>1. CASE Unchained(x)
    BY <1>3, <2>1, NoHist DEF Unchained
  <2>2. CASE Chains(x)
    <3>1. IsSuffix(x.resume.hist, x.transcript)
      BY <1>1, <1>2, <2>2, SourceTold
    <3> QED BY <2>2, <3>1 DEF Chains
  <2> QED BY <1>1, <1>2, <2>1, <2>2
<1>7. Touches(x.key) /\ rows'[x.key].meta = x.resume
  <2>1. PICK account : SaveRow(x.key, account, x.resume)
    BY <1>6
  <2> DEFINE k == x.key
             m == x.resume
  <2> HIDE DEF k, m
  <2>2. SaveRow(k, account, m) /\ ~AliasKey(k)
    BY <1>4, <2>1 DEF k, m
  <2>3. rows'[k].meta = m
    BY <2>2, Saves
  <2> QED BY <2>1, <2>3 DEF Touches, k, m
<1>8. Asked(x)
  BY <1>5, <1>6 DEF Asked
<1> QED BY <1>1, <1>2, <1>3, <1>4, <1>6, <1>7, <1>8 DEF Tells

\* A request goes on: its row has what it resumes, or nothing.
LEMMA GoesOn ==
  ASSUME Keyed, ToldWell, NEW c \in Clients, NEW x, Moves(c, x), Request(c, x, slots), x.pc # "idle", x.conv = NoConv,
         cl[c].pc # "idle", SameRequest(cl[c], x), SamePrompt(cl[c], x),
         x.meta \in {NoMeta, cl[c].meta, cl[c].resume}, Touches(x.key), UNCHANGED aliases,
         x.key \in DOMAIN rows' =>
           \/ rows'[x.key].meta \in {NoMeta, cl[c].resume}
           \/ x.key \in DOMAIN rows /\ rows'[x.key] = rows[x.key]
  PROVE  Tells(c, x)
<1> DEFINE t == x.transcript
<1>1. /\ t \in Seq(Texts) /\ x.msgs \in Seq(Texts) /\ OneMore(t, x.msgs)
      /\ x.msgs[1] = Opening[c] /\ Len(x.msgs) >= 1
  BY AskedMore
<1>2. x.key = Fingerprint(x.msgs)
  BY DEF Request
<1>3. /\ t = cl[c].transcript /\ x.msgs = cl[c].msgs /\ x.cut = cl[c].cut
      /\ x.resume = cl[c].resume /\ x.turns = cl[c].turns
  BY DEF SameRequest, SamePrompt
<1>4. /\ IsSuffix(cl[c].resume.hist, t) /\ IsSuffix(cl[c].meta.hist, t)
      /\ cl[c].turns = IF cl[c].cut = 0 THEN cl[c].msgs ELSE <<cl[c].msgs[Len(cl[c].msgs)]>>
  BY <1>3 DEF ToldWell, Asked
<1>5. IsSuffix(NoMeta.hist, t)
  BY <1>1, NoHist
<1>6. Asked(x)
  BY <1>3, <1>4, <1>5 DEF Asked
<1>7. x.key \in DOMAIN rows => IsSuffix(rows[x.key].meta.hist, t)
  <2> SUFFICES ASSUME x.key \in DOMAIN rows PROVE IsSuffix(rows[x.key].meta.hist, t)
    OBVIOUS
  <2>1. RowTold(x.msgs, rows[x.key].meta, t)
    BY <1>1, <1>2, <1>3 DEF ToldWell, TableTold
  <2> HIDE DEF t
  <2> QED BY <1>1, <2>1, AskedRow
<1>8. x.key \in DOMAIN rows' => IsSuffix(rows'[x.key].meta.hist, t)
  BY <1>4, <1>5, <1>7
<1> QED BY <1>1, <1>2, <1>3, <1>6, <1>8 DEF Tells

LEMMA WaitTells ==
  ASSUME Keyed, AtHome, ToldWell, NEW c \in Clients,
         JoinLock(c) \/ Enter(c) \/ Pick(c) \/ Answer(c) \/ RetryFresh(c)
  PROVE  \E x : Tells(c, x)
<1>1. Home(cl[c], rows) /\ cl[c].conv = NoConv
  BY DEF AtHome, Home
<1>2. CASE JoinLock(c)
  <2>1. PICK x : /\ Moves(c, x) /\ Request(c, x, slots)
                 /\ SameRequest(cl[c], x) /\ SamePrompt(cl[c], x) /\ SameTurn(cl[c], x)
                 /\ cl[c].pc = "arrived" /\ x.pc = "waiting" /\ UNCHANGED aliases /\ rows' = WithRow(x.key)
    BY <1>2, JoinDoes
  <2>2. x.conv = NoConv /\ x.key = cl[c].key /\ x.meta = cl[c].meta
    BY <1>1, <2>1 DEF SameRequest, SameTurn
  <2>3. x.key \in DOMAIN rows /\ ~AliasKey(x.key)
    BY <1>1, <2>1, <2>2, RequestKey DEF Home
  <2>4. rows'[x.key] = rows[x.key] /\ Touches(x.key)
    BY <2>1, <2>3, Creates DEF Touches
  <2>5. x.pc # "idle" /\ cl[c].pc # "idle"
    BY <2>1
  <2> QED BY <2>1, <2>2, <2>3, <2>4, <2>5, GoesOn
<1>3. CASE Enter(c)
  <2>1. PICK x : /\ Moves(c, x) /\ Request(c, x, slots) /\ SameRequest(cl[c], x) /\ SameTurn(cl[c], x)
                 /\ cl[c].pc = "waiting" /\ x.pc = "entered" /\ UNCHANGED aliases
                 /\ \/ x.conv = NoConv /\ SamePrompt(cl[c], x) /\ UNCHANGED rows
                    \/ x.conv # NoConv
    BY <1>3, EnterDoes
  <2>2. x.conv = NoConv /\ x.key = cl[c].key /\ x.meta = cl[c].meta
    BY <1>1, <2>1 DEF SameRequest, SameTurn
  <2>3. UNCHANGED rows /\ Touches(x.key) /\ SamePrompt(cl[c], x)
    BY <2>1, <2>2 DEF Touches
  <2>4. x.pc # "idle" /\ cl[c].pc # "idle"
    BY <2>1
  <2> QED BY <2>1, <2>2, <2>3, <2>4, GoesOn
<1>4. CASE Pick(c)
  <2>1. PICK x : /\ Moves(c, x) /\ Request(c, x, slots) /\ SameRequest(cl[c], x) /\ SamePrompt(cl[c], x)
                 /\ cl[c].pc = "entered" /\ x.pc = "turn" /\ UNCHANGED aliases
                 /\ Sticky(c, x) \/ Repinned(c, x) \/ Opened(c, x)
    BY <1>4, PickDoes
  <2>2. x.conv = NoConv /\ x.key = cl[c].key /\ x.resume = cl[c].resume
    BY <1>1, <2>1 DEF SameRequest, SamePrompt
  <2>3. x.key \in DOMAIN rows /\ rows[x.key].meta = x.resume /\ ~AliasKey(x.key)
    BY <1>1, <2>1, <2>2, RequestKey DEF Home
  <2>4. \/ UNCHANGED rows /\ x.meta = x.resume
        \/ SaveRow(x.key, x.account, NoMeta) /\ x.meta = NoMeta
    BY <2>1, <2>3 DEF Sticky, Repinned, Opened
  <2>5. Touches(x.key) /\ (rows'[x.key].meta = NoMeta \/ rows'[x.key] = rows[x.key])
    BY <2>3, <2>4, Saves DEF Touches
  <2>6. x.pc # "idle" /\ cl[c].pc # "idle"
    BY <2>1
  <2>7. x.meta \in {NoMeta, cl[c].meta, cl[c].resume}
    BY <2>2, <2>4
  <2> QED BY <2>1, <2>2, <2>3, <2>5, <2>6, <2>7, GoesOn
<1>5. CASE Answer(c) \/ RetryFresh(c)
  <2>1. PICK x : /\ Moves(c, x) /\ Request(c, x, slots) /\ SameRequest(cl[c], x) /\ SamePrompt(cl[c], x)
                 /\ (x.meta = cl[c].meta \/ x.meta = NoMeta)
                 /\ cl[c].pc = "turn" /\ x.pc \in {"turn", "answered"} /\ UNCHANGED <<rows, aliases>>
    BY <1>5, AnswerDoes, RetryDoes
  <2>2. x.conv = NoConv
    BY <1>1, <2>1 DEF SameRequest
  <2>3. Touches(x.key)
    BY <2>1 DEF Touches
  <2>4. x.pc # "idle" /\ cl[c].pc # "idle"
    BY <2>1
  <2> QED BY <2>1, <2>2, <2>3, <2>4, GoesOn
<1> QED BY <1>2, <1>3, <1>4, <1>5

LEMMA FailTells ==
  ASSUME Keyed, AtHome, ToldWell, NEW c \in Clients, Fail(c)
  PROVE  \E x : Tells(c, x)
<1> DEFINE old == cl[c]
           t == cl[c].transcript
<1>1. PICK x : /\ Moves(c, x) /\ Request(c, x, slots) /\ Over(c, x) /\ x.transcript = t
               /\ old.pc = "turn" /\ DropIfFresh(old.key)
  BY FailDoes
<1>2. Request(c, old, slots) /\ old.conv = NoConv /\ old.pc # "idle"
  BY <1>1 DEF Keyed, AtHome, Home
<1>3. /\ t \in Seq(Texts) /\ old.msgs \in Seq(Texts) /\ OneMore(t, old.msgs)
      /\ old.msgs[1] = Opening[c] /\ Len(old.msgs) >= 1
  BY <1>2, AskedMore
<1>4. old.key = Fingerprint(old.msgs) /\ ~AliasKey(old.key)
  BY <1>2, RequestKey DEF Request
<1>5. \/ UNCHANGED <<rows, aliases>>
      \/ /\ rows' = Without(rows, {old.key})
         /\ aliases' = Without(aliases, {a \in DOMAIN aliases : aliases[a] = old.key})
  BY <1>1, <1>4, Drops
<1>6. Touches(old.key)
  BY <1>5 DEF Touches
<1>7. old.key \in DOMAIN rows' => IsSuffix(rows'[old.key].meta.hist, t)
  <2> SUFFICES ASSUME old.key \in DOMAIN rows' PROVE IsSuffix(rows'[old.key].meta.hist, t)
    OBVIOUS
  <2>1. UNCHANGED rows
    BY <1>5 DEF Without
  <2>2. RowTold(old.msgs, rows[old.key].meta, t)
    BY <1>3, <1>4, <2>1 DEF ToldWell, TableTold
  <2> HIDE DEF t, old
  <2> QED BY <1>3, <2>1, <2>2, AskedRow
<1>8. Asked(x)
  BY <1>1 DEF Over, Asked
<1> QED BY <1>1, <1>3, <1>4, <1>5, <1>6, <1>7, <1>8 DEF Tells


\* What is saved is the end of what the client has read then.
LEMMA MintedTold ==
  ASSUME NEW c, NEW x, NEW S, Request(c, x, S), x.pc = "answered", Home(x, rows), Asked(x), NEW p
  PROVE  Minted(x, p) # NoMeta /\ IsSuffix(Minted(x, p).hist, x.msgs \o x.answer)
<1> DEFINE t == x.transcript
           n == x.msgs
           h == x.meta.hist
           q == x.turns
           a == x.answer
           l == n[Len(n)]
<1>1. /\ t \in Seq(Texts) /\ n \in Seq(Texts) /\ OneMore(t, n) /\ Len(n) >= 1 /\ x.pc # "idle"
  BY AskedMore
<1>2. a \in Seq(Texts) /\ a # <<>>
  BY AnsweredMore
<1>3. h \in Seq(Texts) /\ q \in Seq(Texts)
  BY DEF Request
<1>4. Minted(x, p).hist = h \o q \o a
  BY DEF Minted
<1>5. IsSuffix(h, t) /\ q = (IF x.cut = 0 THEN n ELSE <<l>>) /\ (x.cut = 0 => x.meta = NoMeta)
  BY <1>1 DEF Asked, Home
<1>6. NoMeta.hist = <<>>
  BY DEF NoMeta
<1>7. x.cut = 0 => h = <<>>
  BY <1>5, <1>6
<1> HIDE DEF t, n, h, q, a
<1>8. IsSuffix(h \o q, n)
  <2>1. CASE x.cut = 0
    <3>1. h \o q = n
      BY <1>1, <1>3, <1>5, <1>7, <2>1
    <3> QED BY <1>1, <3>1, EndSelf
  <2>2. CASE x.cut # 0
    <3>1. q = <<l>>
      BY <1>5, <2>2
    <3>2. n = Append(t, l)
      BY <1>1, OneMoreIs
    <3>3. n = t \o q
      <4>1. l \in Texts
        <5>1. Len(n) \in 1..Len(n)
          BY <1>1
        <5> QED BY <1>1, <5>1
      <4>2. t \o <<l>> = Append(t, l)
        BY <1>1, <4>1
      <4> QED BY <3>1, <3>2, <4>2
    <3>4. IsSuffix(h \o q, t \o q)
      BY <1>1, <1>3, <1>5, EndJoined
    <3> QED BY <3>3, <3>4
  <2> QED BY <2>1, <2>2
<1>9. IsSuffix(h \o q \o a, n \o a)
  <2>1. h \o q \in Seq(Texts)
    BY <1>3
  <2> QED BY <1>1, <1>2, <1>8, <2>1, EndJoined
<1>10. h \o q \o a # <<>>
  <2>1. h \o q \in Seq(Texts)
    BY <1>3
  <2> DEFINE b == h \o q
  <2> HIDE DEF b
  <2>2. Len(b \o a) = Len(b) + Len(a) /\ Len(b) \in Nat /\ Len(a) >= 1 /\ Len(a) \in Nat
    BY <1>2, <2>1 DEF b
  <2>3. Len(b \o a) # 0
    BY <2>2
  <2> QED BY <2>3 DEF b
<1> QED BY <1>4, <1>6, <1>9, <1>10 DEF n, a

LEMMA SaveTold ==
  ASSUME Keyed, AtHome, Apart, ToldWell, SentOnce, NEW c \in Clients, Save(c)
  PROVE  ToldWell' /\ Fingerprint(cl'[c].transcript) \in DOMAIN aliases'
<1> DEFINE old == cl[c]
           t == old.transcript
           n == old.msgs
           u == old.msgs \o old.answer
           key == Fingerprint(n)
           meta == Minted(old, pool)
<1>1. PICK x : /\ Moves(c, x) /\ Over(c, x) /\ old.pc = "answered" /\ x.transcript = u
               /\ SaveRow(old.key, old.account, meta)
               /\ aliases' = Put(aliases, Fingerprint(u), old.key)
  BY SaveDoes DEF SentOnce
<1>2. Request(c, old, slots) /\ Home(old, rows) /\ Asked(old)
  BY DEF Keyed, AtHome, ToldWell
<1>3. /\ t \in Seq(Texts) /\ n \in Seq(Texts) /\ OneMore(t, n) /\ Even(Len(t)) /\ ~Even(Len(n))
      /\ Len(n) >= 1 /\ n[1] = Opening[c]
  BY <1>1, <1>2, AskedMore
<1>4. u \in Seq(Texts) /\ OneMore(n, u) /\ u[1] = Opening[c] /\ Even(Len(u))
  BY <1>1, <1>2, AnsweredMore
<1>5. meta # NoMeta /\ IsSuffix(meta.hist, u)
  BY <1>1, <1>2, MintedTold
<1>6. old.key = key /\ ~AliasKey(key)
  <2>1. old.pc # "idle" /\ old.conv = NoConv
    BY <1>1, <1>2 DEF Home
  <2> QED BY <1>2, <2>1, RequestKey DEF Request
<1>7. \A d \in Clients : cl'[d] = IF d = c THEN x ELSE cl[d]
  BY <1>1 DEF Moves, Keyed
<1> HIDE DEF meta, u
<1>8. /\ DOMAIN rows' = DOMAIN rows \cup {key} /\ rows'[key].meta = meta
      /\ \A k \in DOMAIN rows \ {key} : rows'[k] = rows[k]
  <2>1. SaveRow(key, old.account, meta)
    BY <1>1, <1>6
  <2> HIDE DEF key
  <2> QED BY <1>6, <2>1, Saves
<1>9. /\ DOMAIN aliases' = DOMAIN aliases \cup {Fingerprint(u)}
      /\ \A a \in DOMAIN aliases' : aliases'[a] = IF a = Fingerprint(u) THEN key ELSE aliases[a]
  BY <1>1, <1>6 DEF Put
<1>10. Touches(key)
  BY <1>1, <1>6 DEF Touches
<1>11. ASSUME NEW d \in Clients, d # c
       PROVE  TableTold(d, cl[d].transcript, rows') /\ LinksTold(d, cl[d].transcript, rows', aliases')
  <2>1. TableTold(d, cl[d].transcript, rows) /\ LinksTold(d, cl[d].transcript, rows, aliases)
    BY DEF ToldWell
  <2>2. \A m \in Seq(Texts) : Len(m) >= 1 /\ m[1] = Opening[d] => Fingerprint(m) # key /\ Fingerprint(m) # Fingerprint(u)
    BY <1>3, <1>4, <1>11, OnePrint DEF Apart
  <2>3. \A f \in Seq(Texts) : Len(f) >= 1 /\ f[1] = Opening[d] /\ Even(Len(f)) => Fingerprint(DropLast(f, 1)) # key
    <3> SUFFICES ASSUME NEW f \in Seq(Texts), Len(f) >= 1, f[1] = Opening[d], Even(Len(f))
                 PROVE  Fingerprint(DropLast(f, 1)) # key
      OBVIOUS
    <3>1. DropLast(f, 1) \in Seq(Texts) /\ Len(DropLast(f, 1)) >= 1 /\ DropLast(f, 1)[1] = Opening[d]
      BY EvenDrop
    <3> QED BY <2>2, <3>1
  <2>4. \A f \in Seq(Texts) : Len(f) >= 1 /\ f[1] = Opening[d] /\ Fingerprint(f) \in DOMAIN aliases' =>
          Fingerprint(f) \in DOMAIN aliases /\ aliases'[Fingerprint(f)] = aliases[Fingerprint(f)]
    BY <1>9, <2>2
  <2> HIDE DEF key
  <2>5. TableTold(d, cl[d].transcript, rows')
    BY <1>6, <1>10, <2>1, <2>2, RowsTold
  <2>6. LinksTold(d, cl[d].transcript, rows', aliases')
    BY <1>6, <1>10, <2>1, <2>3, <2>4, LinksKept
  <2> QED BY <2>5, <2>6
<1>12. TableTold(c, t, rows) /\ LinksTold(c, t, rows, aliases)
  BY DEF ToldWell
<1>13. TableTold(c, u, rows')
  <2> SUFFICES ASSUME NEW m \in Seq(Texts), Len(m) >= 1, m[1] = Opening[c], Fingerprint(m) \in DOMAIN rows'
               PROVE  RowTold(m, rows'[Fingerprint(m)].meta, u)
    BY DEF TableTold
  <2>1. CASE m = n
    <3>1. rows'[Fingerprint(m)].meta = meta
      BY <1>8, <2>1
    <3>2. RowTold(n, meta, u)
      <4> HIDE DEF n
      <4> QED BY <1>3, <1>4, <1>5, AnsweredRow
    <3> QED BY <2>1, <3>1, <3>2
  <2>2. CASE m # n
    <3>1. Fingerprint(m) # key
      BY <2>2, OnePrint
    <3>2. Fingerprint(m) \in DOMAIN rows /\ rows'[Fingerprint(m)] = rows[Fingerprint(m)]
      BY <1>8, <3>1
    <3>3. RowTold(m, rows[Fingerprint(m)].meta, t) /\ ~Even(Len(m))
      BY <1>12, <3>2, KeyLengths DEF TableTold
    <3> DEFINE w == rows[Fingerprint(m)].meta
    <3> HIDE DEF t, n, w
    <3>4. RowTold(m, w, u)
      BY <1>3, <1>4, <2>2, <3>3, ToldStays DEF w
    <3> QED BY <3>2, <3>4 DEF w
  <2> QED BY <2>1, <2>2
<1>14. LinksTold(c, u, rows', aliases')
  <2> SUFFICES ASSUME NEW f \in Seq(Texts), Len(f) >= 1, f[1] = Opening[c], Fingerprint(f) \in DOMAIN aliases'
               PROVE  /\ Begins(f, u) /\ aliases'[Fingerprint(f)] = Fingerprint(DropLast(f, 1))
                      /\ Fingerprint(DropLast(f, 1)) \in DOMAIN rows'
    BY DEF LinksTold
  <2>1. CASE f = u
    <3>1. DropLast(u, 1) = n /\ Begins(u, u)
      <4>1. DropLast(u, 1) = n
        BY <1>3, <1>4, OneMoreIs
      <4> QED BY <1>4, <4>1 DEF Begins
    <3> QED BY <1>8, <1>9, <2>1, <3>1
  <2>2. CASE f # u
    <3>1. Fingerprint(f) # Fingerprint(u)
      BY <2>2, OnePrint
    <3>2. Fingerprint(f) \in DOMAIN aliases /\ aliases'[Fingerprint(f)] = aliases[Fingerprint(f)]
      BY <1>9, <3>1
    <3>3. /\ Begins(f, t) /\ aliases[Fingerprint(f)] = Fingerprint(DropLast(f, 1))
          /\ Fingerprint(DropLast(f, 1)) \in DOMAIN rows
      BY <1>12, <3>2 DEF LinksTold
    <3>4. Begins(f, u)
      <4>1. /\ Len(t) \in Nat /\ Len(u) = Len(t) + 2 /\ Len(n) = Len(t) + 1 /\ Len(f) \in Nat /\ Len(f) <= Len(t)
            /\ \A i \in 1..Len(f) : f[i] = t[i]
            /\ \A i \in 1..Len(t) : t[i] = n[i]
            /\ \A i \in 1..Len(n) : n[i] = u[i]
        BY <1>3, <1>4, <3>3 DEF OneMore, Begins
      <4> HIDE DEF t, n
      <4>2. Len(f) <= Len(u) /\ \A i \in 1..Len(f) : f[i] = u[i]
        BY <4>1
      <4> QED BY <4>2 DEF Begins
    <3> QED BY <1>8, <3>2, <3>3, <3>4
  <2> QED BY <2>1, <2>2
<1>15. Asked(x) /\ x.transcript = u /\ cl'[c] = x
  BY <1>1, <1>7 DEF Over, Asked
<1>16. ASSUME NEW d \in Clients
       PROVE  /\ TableTold(d, cl'[d].transcript, rows') /\ LinksTold(d, cl'[d].transcript, rows', aliases')
              /\ Asked(cl'[d])
  BY <1>7, <1>11, <1>13, <1>14, <1>15 DEF ToldWell
<1> QED BY <1>9, <1>15, <1>16 DEF ToldWell


LEMMA ToldStep ==
  ASSUME Keyed, AtHome, Apart, ToldWell, SentOnce, NEW c \in Clients, Steps(c)
  PROVE  \/ \E x : Tells(c, x)
         \/ Save(c)
<1>1. ~Disconnect(c)
  BY DEF SentOnce, Disconnect
<1> QED BY <1>1, ArriveTells, WaitTells, FailTells DEF Steps

LEMMA ToldRestart ==
  ASSUME Keyed, ToldWell, Restart
  PROVE  ToldWell'
<1>1. PICK dead \in SUBSET DOMAIN rows :
        /\ rows' = Without(rows, dead)
        /\ aliases' = Without(aliases, {a \in DOMAIN aliases : aliases[a] \in dead})
  BY RestartDoes
<1>2. \A c \in Clients : cl'[c].transcript = cl[c].transcript /\ cl'[c].pc = "idle"
  BY RestartDoes DEF Over
<1>3. /\ DOMAIN rows' = DOMAIN rows \ dead /\ \A k \in DOMAIN rows \ dead : rows'[k] = rows[k]
      /\ \A a \in DOMAIN aliases' : a \in DOMAIN aliases /\ aliases'[a] = aliases[a] /\ aliases[a] \notin dead
  BY <1>1 DEF Without
<1>4. ASSUME NEW c \in Clients, NEW t, TableTold(c, t, rows), LinksTold(c, t, rows, aliases)
      PROVE  TableTold(c, t, rows') /\ LinksTold(c, t, rows', aliases')
  <2>1. TableTold(c, t, rows')
    BY <1>3, <1>4 DEF TableTold
  <2>2. LinksTold(c, t, rows', aliases')
    <3> SUFFICES ASSUME NEW f \in Seq(Texts), Len(f) >= 1, f[1] = Opening[c], Fingerprint(f) \in DOMAIN aliases'
                 PROVE  /\ Begins(f, t) /\ aliases'[Fingerprint(f)] = Fingerprint(DropLast(f, 1))
                        /\ Fingerprint(DropLast(f, 1)) \in DOMAIN rows'
      BY DEF LinksTold
    <3>1. /\ Fingerprint(f) \in DOMAIN aliases /\ aliases'[Fingerprint(f)] = aliases[Fingerprint(f)]
          /\ aliases[Fingerprint(f)] \notin dead
      BY <1>3
    <3>2. /\ Begins(f, t) /\ aliases[Fingerprint(f)] = Fingerprint(DropLast(f, 1))
          /\ Fingerprint(DropLast(f, 1)) \in DOMAIN rows
      BY <1>4, <3>1 DEF LinksTold
    <3> QED BY <1>3, <3>1, <3>2
  <2> QED BY <2>1, <2>2
<1>5. ASSUME NEW c \in Clients
      PROVE  /\ TableTold(c, cl'[c].transcript, rows') /\ LinksTold(c, cl'[c].transcript, rows', aliases')
             /\ Asked(cl'[c])
  <2>1. TableTold(c, cl[c].transcript, rows) /\ LinksTold(c, cl[c].transcript, rows, aliases)
    BY DEF ToldWell
  <2> QED BY <1>2, <1>4, <2>1 DEF Asked
<1> QED BY <1>5 DEF ToldWell

LEMMA NothingTold ==
  ASSUME Init
  PROVE  ToldWell
<1>1. PICK conv \in ConvOf : cl = [c \in Clients |-> Idle(conv[c], <<>>, 0)]
  BY DEF Init
<1>2. \A c \in Clients : cl[c].pc = "idle"
  BY <1>1 DEF Idle
<1>3. DOMAIN rows = {} /\ DOMAIN aliases = {}
  BY DEF Init
<1> QED BY <1>2, <1>3 DEF ToldWell, TableTold, LinksTold, Asked

LEMMA AllToldWell == Apart /\ SentOnce => (Spec => [](Keyed /\ AtHome /\ ToldWell))
<1> SUFFICES ASSUME Apart, SentOnce PROVE Spec => [](Keyed /\ AtHome /\ ToldWell)
  OBVIOUS
<1>1. Init => ToldWell
  BY NothingTold
<1>2. Keyed /\ AtHome /\ ToldWell /\ [Next]_vars => ToldWell'
  <2> SUFFICES ASSUME Keyed, AtHome, ToldWell, [Next]_vars PROVE ToldWell'
    OBVIOUS
  <2>1. ASSUME NEW c \in Clients, Steps(c) PROVE ToldWell'
    BY <2>1, ToldStep, TellsTold, SaveTold
  <2>2. ASSUME UNCHANGED <<rows, aliases, cl>> PROVE ToldWell'
    BY <2>2 DEF ToldWell
  <2>3. UNCHANGED vars \/ (\E a \in slots : Degrade(a) \/ Heal(a)) => UNCHANGED <<rows, aliases, cl>>
    BY DEF vars, Degrade, Heal
  <2> QED BY <2>1, <2>2, <2>3, ToldRestart DEF Next, Steps
<1> QED BY <1>1, <1>2, AllAtHome, PTL DEF Spec

\* For any number of clients that chain by prefix with openings of their own
\* and go on from every answer they are sent, with uploads, failures, resume
\* errors, degraded accounts and restarts: a chained request runs in a Gemini
\* chat that holds the end of the client's own history and nothing else
\* (_find_chain_prev, _chat_turns, _save_state).
THEOREM ChainsAreOwn == Apart /\ SentOnce => (Spec => []ContextIsOwnHistory)
<1> SUFFICES ASSUME Apart, SentOnce PROVE Spec => []ContextIsOwnHistory
  OBVIOUS
<1>1. Keyed /\ ToldWell => ContextIsOwnHistory
  <2> SUFFICES ASSUME Keyed, ToldWell, NEW c \in Clients, Running(c)
               PROVE  IsSuffix(cl[c].meta.hist, DropLast(cl[c].msgs, 1))
    BY DEF ContextIsOwnHistory
  <2>1. Request(c, cl[c], slots) /\ cl[c].pc # "idle"
    BY DEF Keyed, Running
  <2>2. DropLast(cl[c].msgs, 1) = cl[c].transcript
    BY <2>1, AskedMore, OneMoreIs
  <2> QED BY <2>1, <2>2 DEF ToldWell, Asked
<1> QED BY <1>1, AllToldWell, PTL

-----------------------------------------------------------------------------
(* What keeps the aliases, and so lets an answered chat be found again       *)

SlotsSame == \A p, q \in Pools : DOMAIN p = DOMAIN q

Linked ==
  \A c \in Clients : cl[c].transcript # <<>> => Fingerprint(cl[c].transcript) \in DOMAIN aliases

\* The row of the last answer
LEMMA FoundAgain ==
  ASSUME Keyed, ToldWell, Linked, NEW c \in Clients, cl[c].transcript # <<>>
  PROVE  LET t == cl[c].transcript
             k == Fingerprint(DropLast(t, 1))
         IN  /\ aliases[Fingerprint(t)] = k /\ Resolve(Fingerprint(t)) = k /\ k \in DOMAIN rows
             /\ rows[k].meta # NoMeta /\ IsSuffix(rows[k].meta.hist, t)
<1> DEFINE t == cl[c].transcript
           k == Fingerprint(DropLast(t, 1))
<1>1. t \in Seq(Texts) /\ Even(Len(t)) /\ t[1] = Opening[c] /\ Len(t) >= 1
  <2>1. Tale(c, t) /\ t # <<>>
    BY DEF Keyed, Request
  <2> HIDE DEF t
  <2> QED BY <2>1 DEF Tale
<1>2. Fingerprint(t) \in DOMAIN aliases /\ TableTold(c, t, rows) /\ LinksTold(c, t, rows, aliases)
  BY DEF Linked, ToldWell
<1> HIDE DEF t
<1>3. aliases[Fingerprint(t)] = k /\ k \in DOMAIN rows
  BY <1>1, <1>2 DEF LinksTold
<1>4. Resolve(Fingerprint(t)) = k
  BY <1>2, <1>3, Resolves
<1>5. rows[k].meta # NoMeta /\ IsSuffix(rows[k].meta.hist, t)
  BY <1>1, <1>2, <1>3, LastRow
<1> QED BY <1>3, <1>4, <1>5 DEF t

LEMMA LinkedStep ==
  ASSUME Keyed, AtHome, Apart, ToldWell, Linked, SentOnce, NEW c \in Clients, Steps(c)
  PROVE  Linked'
<1>1. CASE Save(c)
  <2>1. PICK x : Moves(c, x) /\ aliases' = Put(aliases, Fingerprint(cl[c].msgs \o cl[c].answer), cl[c].key)
    BY <1>1, SaveDoes
  <2>2. \A d \in Clients : d # c => cl'[d] = cl[d]
    BY <2>1 DEF Moves, Keyed
  <2>3. DOMAIN aliases \subseteq DOMAIN aliases'
    BY <2>1 DEF Put
  <2>4. Fingerprint(cl'[c].transcript) \in DOMAIN aliases'
    BY <1>1, SaveTold
  <2> QED BY <2>2, <2>3, <2>4 DEF Linked
<1>2. CASE ~Save(c)
  <2>1. PICK x : Tells(c, x)
    BY <1>2, ToldStep
  <2>2. \A d \in Clients : cl'[d].transcript = cl[d].transcript
    BY <2>1 DEF Tells, Moves, Keyed
  <2>3. CASE Fail(c)
    <3>1. cl[c].pc = "turn" /\ DropIfFresh(cl[c].key)
      BY <2>3 DEF Fail
    <3>2. ~AliasKey(cl[c].key)
      <4>1. Request(c, cl[c], slots) /\ cl[c].pc # "idle"
        BY <3>1 DEF Keyed
      <4> QED BY <4>1, RequestKey
    <3>3. \/ UNCHANGED aliases
          \/ /\ rows[cl[c].key].meta = NoMeta
             /\ aliases' = Without(aliases, {a \in DOMAIN aliases : aliases[a] = cl[c].key})
      BY <3>1, <3>2, Drops
    <3>4. ASSUME NEW d \in Clients, cl[d].transcript # <<>>
          PROVE  Fingerprint(cl[d].transcript) \in DOMAIN aliases'
      <4> DEFINE a == Fingerprint(cl[d].transcript)
      <4>1. a \in DOMAIN aliases /\ rows[aliases[a]].meta # NoMeta
        BY <3>4, FoundAgain DEF Linked
      <4> HIDE DEF a
      <4> QED BY <3>3, <4>1 DEF Without, a
    <3> QED BY <2>2, <3>4 DEF Linked
  <2>4. CASE ~Fail(c)
    <3>1. UNCHANGED aliases
      BY <1>2, <2>4 DEF Steps, Arrive, ArriveConv, ArriveChained, ArriveUnchained, JoinLock, Enter,
             Pick, PickSticky, PickRepin, PickAvailable, PickFresh, Run, Answer, RetryFresh, Disconnect
    <3> QED BY <2>2, <3>1 DEF Linked
  <2> QED BY <2>3, <2>4
<1> QED BY <1>1, <1>2

LEMMA LinkedRestart ==
  ASSUME Keyed, Linked, SlotsSame, "degrade" \notin Events, pool \in Pools, Restart
  PROVE  Linked'
<1>1. PICK dead \in SUBSET DOMAIN rows :
        /\ \A k \in dead : rows[k].meta # NoMeta
        /\ \A k \in dead : rows[k].account \notin slots'
        /\ aliases' = Without(aliases, {a \in DOMAIN aliases : aliases[a] \in dead})
  BY RestartDoes
<1>2. slots' = slots
  BY RestartDoes DEF SlotsSame, slots
<1>3. dead = {}
  BY <1>1, <1>2 DEF Keyed, RowOk
<1>4. DOMAIN aliases' = DOMAIN aliases
  BY <1>1, <1>3 DEF Without
<1>5. \A c \in Clients : cl'[c].transcript = cl[c].transcript
  BY RestartDoes
<1> QED BY <1>4, <1>5 DEF Linked

\* For any number of such clients, while no account degrades and accounts.txt
\* keeps its slots: a chat whose last answer has been read is found again, with
\* the end of that very history, whatever fails in between and however often the
\* process restarts (_resolve_async, _save_state, _purge_dead_continuations).
THEOREM AnswersAreFound ==
  Apart /\ SentOnce /\ SlotsSame /\ "degrade" \notin Events => (Spec => []AnsweredChatsResume)
<1> SUFFICES ASSUME Apart, SentOnce, SlotsSame, "degrade" \notin Events
             PROVE  Spec => []AnsweredChatsResume
  OBVIOUS
<1> DEFINE I == Keyed /\ AtHome /\ ToldWell
           J == pool \in Pools /\ Linked
<1>1. Init => J
  <2> SUFFICES ASSUME Init PROVE pool \in Pools /\ Linked
    OBVIOUS
  <2>1. PICK conv \in ConvOf : cl = [c \in Clients |-> Idle(conv[c], <<>>, 0)]
    BY DEF Init
  <2>2. \A c \in Clients : cl[c].transcript = <<>>
    BY <2>1 DEF Idle
  <2> QED BY <2>2 DEF Init, Linked
<1>2. I /\ J /\ [Next]_vars => J'
  <2> SUFFICES ASSUME I, J, [Next]_vars PROVE pool' \in Pools /\ Linked'
    OBVIOUS
  <2>1. ASSUME NEW c \in Clients, Steps(c) PROVE pool' \in Pools /\ Linked'
    <3>1. Linked'
      BY <2>1, LinkedStep
    <3>2. pool' = pool
      BY <2>1, Settled DEF Settles, Moves
    <3> QED BY <3>1, <3>2
  <2>2. ASSUME UNCHANGED <<aliases, cl, pool>> PROVE pool' \in Pools /\ Linked'
    BY <2>2 DEF Linked
  <2>3. ASSUME Restart PROVE pool' \in Pools /\ Linked'
    BY <2>3, RestartDoes, LinkedRestart
  <2>4. UNCHANGED vars \/ (\E a \in slots : Degrade(a) \/ Heal(a)) => UNCHANGED <<aliases, cl, pool>>
    BY DEF vars, Degrade, Heal
  <2> QED BY <2>1, <2>2, <2>3, <2>4 DEF Next, Steps
<1>3. Spec => []I
  BY AllToldWell
<1>4. I /\ Linked => AnsweredChatsResume
  <2> SUFFICES ASSUME I, Linked, NEW c \in Clients, cl[c].transcript # <<>>
               PROVE  /\ Resumable(Fingerprint(cl[c].transcript))
                      /\ IsSuffix(RowOf(Fingerprint(cl[c].transcript)).meta.hist, cl[c].transcript)
    BY DEF AnsweredChatsResume
  <2> DEFINE t == cl[c].transcript
             k == Fingerprint(DropLast(t, 1))
  <2>1. /\ Resolve(Fingerprint(t)) = k /\ k \in DOMAIN rows
        /\ rows[k].meta # NoMeta /\ IsSuffix(rows[k].meta.hist, t)
    BY FoundAgain
  <2>2. rows[k].account \in slots
    BY <2>1 DEF Keyed, RowOk
  <2> QED BY <2>1, <2>2 DEF Resumable, Known, RowOf
<1> QED BY <1>1, <1>2, <1>3, <1>4, PTL DEF Spec
=============================================================================
