------------------------------- MODULE ChatFlow -------------------------------
(***************************************************************************)
(* Chat Completions of server.py over the SQLite-only SessionStore of      *)
(* conversations.py: how a request finds its conversation row, waits for   *)
(* the row's lock, picks an account, runs its turn at Gemini and saves the *)
(* continuation, and what concurrent requests, streams, failed turns,      *)
(* client disconnects and restarts do to the rows.                         *)
(*                                                                         *)
(* A message is an opaque text.  Gemini metadata [cid, rid, rcid] is       *)
(* modelled by what it denotes: the Google session (account) that minted   *)
(* it and the messages Gemini has in context when it is resumed.  Without  *)
(* Redis the store's guard is never held across an await, so every store   *)
(* call is one step; the awaits that do yield (downloads, the conversation *)
(* lock, Gemini, image re-hosting, frames of a stream) end the actions.    *)
(* AccountTurns models the account lock and AccountPool's choice: here     *)
(* pick() may return any slot, and eviction (cap 2000) is not reached.     *)
(***************************************************************************)
EXTENDS Naturals, Sequences, FiniteSets, SequencesExt, Subsequences

CONSTANTS
  Clients,      \* OpenAI clients, each with at most one request in flight
  Pools,        \* jar lists accounts.txt may hold at boot: sequences of accounts
  NoAccount,    \* minter of an empty metadata list
  ConvOf,       \* a set of [Clients -> conversation_id, or NoConv to chain by
  NoConv,       \* prefix]: the habits of the clients, one of them in a run
  Opening,      \* [Clients -> text]: the first user message of its chat
  FollowUps,    \* texts of later user messages
  Answers,      \* texts Gemini may answer with
  Streaming,    \* values of "stream" requests may have, a subset of BOOLEAN
  Uploading,    \* whether requests carry file uploads, a subset of BOOLEAN
  Events,       \* which of "fail", "resume", "disconnect", "resend", "degrade"
                \* may happen, see Fail, RetryFresh, Disconnect, Save, Degrade
  MaxRequests,  \* bound: requests each client sends
  MaxRestarts   \* bound: process restarts

Accounts == UNION {{p[i] : i \in DOMAIN p} : p \in Pools}

ASSUME PoolsAssumption ==
  /\ NoAccount \notin Accounts
  /\ \A p \in Pools : p \in Seq(Accounts) /\ p # <<>>

VARIABLES
  rows,         \* sessions table and SessionStore._states: key -> row
  aliases,      \* aliases table and SessionStore._aliases: key -> key
  cl,           \* each client's transcript and its request in flight
  line,         \* <<client, lock>>: who holds or awaits a conversation lock,
                \* oldest first
  nextLock,     \* identity of the next SessionState.lock object
  pool,         \* AccountPool._entries: the account behind each slot
  avail,        \* slots whose client is AVAILABLE
  restarts

vars == <<rows, aliases, cl, line, nextLock, pool, avail, restarts>>

slots == DOMAIN pool

-----------------------------------------------------------------------------
(* Data *)

NoSlot == 0

NoMeta == [acct |-> NoAccount, hist |-> <<>>]

\* Faulty: two transcripts that end alike have one key
LastMessagePrint(msgs) == <<"fp", <<msgs[Len(msgs)]>>>>

Fingerprint(msgs) == <<"fp", msgs>>

ConvKey(c) == <<"conv", <<cl[c].conv>>>>

NoKey == <<"", <<>>>>

DropLast(s, n) == SubSeq(s, 1, Len(s) - n)

\* A transcript alternates user and assistant messages, the user first
UserTexts(msgs) == [i \in 1..((Len(msgs) + 1) \div 2) |-> msgs[2 * i - 1]]

Put(f, k, v) == [x \in DOMAIN f \cup {k} |-> IF x = k THEN v ELSE f[x]]

Without(f, ks) == [x \in DOMAIN f \ ks |-> f[x]]

Idle(conv, transcript, sent) ==
  [pc |-> "idle", conv |-> conv, transcript |-> transcript, sent |-> sent,
   msgs |-> <<>>, stream |-> FALSE, upload |-> FALSE, key |-> NoKey,
   cut |-> 0, turns |-> <<>>, resume |-> NoMeta,
   account |-> NoSlot, meta |-> NoMeta, answer |-> <<>>]

-----------------------------------------------------------------------------
(* SessionStore, SQLite only *)

MaxHops == 10

\* Faulty: aliases are not followed
OwnKey(key) == key

\* _resolve_async: follow aliases, at most MaxHops of them
Resolve(key) ==
  LET keys == {key} \cup DOMAIN aliases \cup {aliases[a] : a \in DOMAIN aliases}
      hop == [k \in keys |-> IF k \in DOMAIN aliases THEN aliases[k] ELSE k]
      after[n \in 0..MaxHops] == IF n = 0 THEN key ELSE hop[after[n - 1]]
  IN  after[MaxHops]

Known(key) == Resolve(key) \in DOMAIN rows

RowOf(key) == rows[Resolve(key)]

\* get_or_new: the table with a row for key, an empty one when it was unknown
WithRow(key) ==
  IF Known(key) THEN rows
  ELSE Put(rows, Resolve(key),
           [account |-> NoSlot, meta |-> NoMeta, lock |-> nextLock])

LocksWithRow(key) == IF Known(key) THEN nextLock ELSE nextLock + 1

\* get_or_new, new values for the row's pin and continuation, persist
SaveRow(key, account, meta) ==
  /\ rows' = [WithRow(key) EXCEPT ![Resolve(key)].account = account,
                                  ![Resolve(key)].meta = meta]
  /\ nextLock' = LocksWithRow(key)

\* _chat_turns: the request's row starts a new chat on an account of its own;
\* faulty when only the pin goes
Unpin(key) == SaveRow(key, NoSlot, IF Known(key) THEN RowOf(key).meta ELSE NoMeta)

ResetRow(key) == SaveRow(key, NoSlot, NoMeta)

AliasesWithout(key, target) ==
  Without(aliases, {a \in DOMAIN aliases : a = key \/ aliases[a] = target})

\* drop_if_fresh: a row that never completed a turn goes, with its aliases
DropIfFresh(key) ==
  IF Known(key) /\ RowOf(key).meta = NoMeta
  THEN /\ rows' = Without(rows, {Resolve(key)})
       /\ aliases' = AliasesWithout(key, Resolve(key))
  ELSE UNCHANGED <<rows, aliases>>

-----------------------------------------------------------------------------
(* Conversation locks: asyncio.Lock objects owned by rows, FIFO *)

\* Faulty: every waiter is let in
WaitsForLock(c) == \E i \in DOMAIN line : line[i][1] = c

HoldsLock(c) ==
  \E i \in DOMAIN line :
    /\ line[i][1] = c
    /\ \A j \in 1..(i - 1) : line[j][2] # line[i][2]

\* Faulty: a request that is over keeps its lock
NotReleased(c) == line

Released(c) == Among(line, {e \in Range(line) : e[1] # c})

-----------------------------------------------------------------------------
(* A request arrives: _chat_payload, then _chat_turns for chained chats *)

Resumable(key) ==
  /\ Known(key)
  /\ RowOf(key).meta # NoMeta
  /\ RowOf(key).account \in slots

\* How many trailing messages _find_chain_prev cuts to reach a known prefix,
\* 0 when it finds none
ChainCut(msgs) ==
  LET good == {n \in {1, 2} : /\ Len(msgs) > n
                              /\ Resumable(Fingerprint(DropLast(msgs, n)))}
  IN  IF good = {} THEN 0 ELSE CHOOSE n \in good : \A m \in good : n <= m

NextTexts(c) == IF cl[c].transcript = <<>> THEN {Opening[c]} ELSE FollowUps

\* A request of client c, as _chat_payload returns it
NewRequest(c, text, stream, upload) ==
  [Idle(cl[c].conv, cl[c].transcript, cl[c].sent + 1) EXCEPT
     !.pc = "arrived", !.msgs = Append(cl[c].transcript, text),
     !.stream = stream, !.upload = upload]

Requests(c) ==
  {NewRequest(c, text, stream, upload) :
     text \in NextTexts(c), stream \in Streaming, upload \in Uploading}

MayArrive(c) == cl[c].pc = "idle" /\ cl[c].sent < MaxRequests

ArriveConv(c) ==
  /\ MayArrive(c)
  /\ cl[c].conv # NoConv
  /\ \E req \in Requests(c) : cl' = [cl EXCEPT ![c] = [req EXCEPT !.key = ConvKey(c)]]
  /\ UNCHANGED <<rows, aliases, line, nextLock, pool, avail, restarts>>

\* A known prefix: resume its continuation and send only the last message
ArriveChained(c) ==
  /\ MayArrive(c)
  /\ cl[c].conv = NoConv
  /\ \E req \in Requests(c) :
       LET cut == ChainCut(req.msgs)
           prev == RowOf(Fingerprint(DropLast(req.msgs, cut)))
           key == Fingerprint(req.msgs)
           own == Known(key) /\ RowOf(key).meta # NoMeta
           account == IF own THEN RowOf(key).account ELSE prev.account
           meta == IF own THEN RowOf(key).meta ELSE prev.meta
       IN  /\ cut > 0
           /\ SaveRow(key, account, meta)
           /\ cl' = [cl EXCEPT ![c] =
                [req EXCEPT !.key = key, !.cut = cut, !.resume = meta,
                            !.turns = <<req.msgs[Len(req.msgs)]>>]]
  /\ UNCHANGED <<aliases, line, pool, avail, restarts>>

\* No known prefix: an empty row, and the whole history as one fresh prompt
ArriveUnchained(c) ==
  /\ MayArrive(c)
  /\ cl[c].conv = NoConv
  /\ \E req \in Requests(c) :
       LET key == Fingerprint(req.msgs)
       IN  /\ ChainCut(req.msgs) = 0
           /\ ResetRow(key)
           /\ cl' = [cl EXCEPT ![c] =
                [req EXCEPT !.key = key, !.turns = req.msgs]]
  /\ UNCHANGED <<aliases, line, pool, avail, restarts>>

\* sessions.lock_for(key), then waiting for the lock of the row found now
JoinLock(c) ==
  /\ cl[c].pc = "arrived"
  /\ rows' = WithRow(cl[c].key)
  /\ nextLock' = LocksWithRow(cl[c].key)
  /\ cl' = [cl EXCEPT ![c].pc = "waiting"]
  /\ line' = Append(line, <<c, rows'[Resolve(cl[c].key)].lock>>)
  /\ UNCHANGED <<aliases, pool, avail, restarts>>

\* The lock is ours: a conversation_id is resolved to turns only now
Enter(c) ==
  LET key == cl[c].key
      meta == IF Known(key) THEN RowOf(key).meta ELSE NoMeta
      texts == UserTexts(cl[c].msgs)
  IN  /\ cl[c].pc = "waiting"
      /\ HoldsLock(c)
      /\ IF cl[c].conv = NoConv
         THEN /\ cl' = [cl EXCEPT ![c].pc = "entered"]
              /\ UNCHANGED <<rows, nextLock>>
         ELSE /\ cl' = [cl EXCEPT ![c].pc = "entered", ![c].resume = meta,
                          ![c].turns = IF meta = NoMeta THEN texts
                                       ELSE <<texts[Len(texts)]>>]
              /\ rows' = WithRow(key)
              /\ nextLock' = LocksWithRow(key)
      /\ UNCHANGED <<aliases, line, pool, avail, restarts>>

-----------------------------------------------------------------------------
(* _pick_account_for_turns, then _handle_chat_locked: a stream is returned *)
(* to the server and runs after the conversation lock has been released.   *)

Pinned(key) == Known(key) /\ RowOf(key).account \in slots

Run(c, account, meta) ==
  /\ cl' = [cl EXCEPT ![c].pc = "turn", ![c].account = account, ![c].meta = meta]
  /\ line' = IF cl[c].stream THEN Released(c) ELSE line
  /\ UNCHANGED <<aliases, pool, avail, restarts>>

\* A continuation whose row is pinned to a configured slot stays there
PickSticky(c) ==
  LET row == RowOf(cl[c].key)
  IN  /\ cl[c].pc = "entered"
      /\ cl[c].resume # NoMeta
      /\ Pinned(cl[c].key)
      /\ Run(c, row.account, IF row.meta # NoMeta THEN row.meta ELSE cl[c].resume)
      /\ UNCHANGED <<rows, nextLock>>

\* A continuation whose pin is gone: re-pin and clear the foreign metadata
PickRepin(c) ==
  /\ cl[c].pc = "entered"
  /\ cl[c].resume # NoMeta
  /\ ~Pinned(cl[c].key)
  /\ \E a \in slots : SaveRow(cl[c].key, a, NoMeta) /\ Run(c, a, NoMeta)

PinnedUploadCapable(key) == Pinned(key) /\ RowOf(key).account \in avail

\* Uploads of a new chat move to an AVAILABLE slot, the row's metadata stays
PickAvailable(c) ==
  LET key == cl[c].key
      meta == IF Known(key) THEN RowOf(key).meta ELSE NoMeta
  IN  /\ cl[c].pc = "entered"
      /\ cl[c].resume = NoMeta
      /\ cl[c].upload
      /\ ~PinnedUploadCapable(key)
      /\ \E a \in avail : SaveRow(key, a, meta) /\ Run(c, a, meta)

\* _pick_account: the row's pin, or pick() and pin.  Uploads come here too,
\* when pick_available() finds every AVAILABLE slot cooled down.
PickFresh(c) ==
  LET key == cl[c].key
      meta == IF Known(key) THEN RowOf(key).meta ELSE NoMeta
  IN  /\ cl[c].pc = "entered"
      /\ cl[c].resume = NoMeta
      /\ IF Pinned(key)
         THEN /\ Run(c, RowOf(key).account, meta)
              /\ UNCHANGED <<rows, nextLock>>
         ELSE \E a \in slots : SaveRow(key, a, meta) /\ Run(c, a, meta)

-----------------------------------------------------------------------------
(* The turn: _buffered_chat over _run_turns, _stream_chat over             *)
(* _run_turns_stream                                                       *)

Uploadable(c) == cl[c].upload => cl[c].account \in avail

Answer(c) ==
  /\ cl[c].pc = "turn"
  /\ Uploadable(c)
  /\ \E a \in Answers : cl' = [cl EXCEPT ![c].pc = "answered", ![c].answer = <<a>>]
  /\ UNCHANGED <<rows, aliases, line, nextLock, pool, avail, restarts>>

\* A turn that fails upstream or at the upload gate: the client keeps its
\* transcript and may ask again
Fail(c) ==
  /\ cl[c].pc = "turn"
  /\ "fail" \in Events \/ ~Uploadable(c)
  /\ DropIfFresh(cl[c].key)
  /\ cl' = [cl EXCEPT ![c] = Idle(cl[c].conv, cl[c].transcript, cl[c].sent)]
  /\ line' = Released(c)
  /\ UNCHANGED <<nextLock, pool, avail, restarts>>

\* A resume error of a continuation: the same turns in a fresh Gemini chat
RetryFresh(c) ==
  /\ "resume" \in Events
  /\ cl[c].pc = "turn"
  /\ cl[c].meta # NoMeta
  /\ cl' = [cl EXCEPT ![c].meta = NoMeta]
  /\ UNCHANGED <<rows, aliases, line, nextLock, pool, avail, restarts>>

\* _save_state, link the transcript's fingerprint, reply.  "resend": the
\* client never reads the reply, or asks for another one
Save(c) ==
  LET req == cl[c]
      meta == [acct |-> pool[req.account],
               hist |-> req.meta.hist \o req.turns \o req.answer]
      full == req.msgs \o req.answer
  IN  /\ req.pc = "answered"
      /\ SaveRow(req.key, req.account, meta)
      /\ aliases' = Put(aliases, Fingerprint(full), Resolve(req.key))
      /\ \E read \in {TRUE} \cup (IF "resend" \in Events THEN {FALSE} ELSE {}) :
           cl' = [cl EXCEPT ![c] =
                    Idle(req.conv, IF read THEN full ELSE req.transcript, req.sent)]
      /\ line' = Released(c)
      /\ UNCHANGED <<pool, avail, restarts>>

\* The client of a stream goes away before the done event: the generator is
\* closed and nothing is saved, though the whole answer may have been read
Disconnect(c) ==
  /\ "disconnect" \in Events
  /\ cl[c].stream
  /\ cl[c].pc \in {"turn", "answered"}
  /\ \E seen \in {cl[c].transcript, cl[c].msgs \o cl[c].answer} :
       /\ seen # cl[c].msgs
       /\ cl' = [cl EXCEPT ![c] = Idle(cl[c].conv, seen, cl[c].sent)]
  /\ UNCHANGED <<rows, aliases, line, nextLock, pool, avail, restarts>>

-----------------------------------------------------------------------------
(* Sessions expire, heal, and the process restarts *)

Degrade(a) ==
  /\ "degrade" \in Events
  /\ a \in avail
  /\ avail' = avail \ {a}
  /\ UNCHANGED <<rows, aliases, cl, line, nextLock, pool, restarts>>

Heal(a) ==
  /\ a \in slots \ avail
  /\ avail' = avail \cup {a}
  /\ UNCHANGED <<rows, aliases, cl, line, nextLock, pool, restarts>>

\* _purge_dead_continuations drops each of these rows through drop_if
DeadRows(jars, up) ==
  {k \in DOMAIN rows : /\ rows[k].meta # NoMeta
                       /\ rows[k].account \notin DOMAIN jars \cap up}

Restart ==
  /\ restarts < MaxRestarts
  /\ restarts' = restarts + 1
  /\ \E jars \in Pools :
       \E up \in (IF "degrade" \in Events THEN SUBSET DOMAIN jars ELSE {DOMAIN jars}) :
         /\ pool' = jars
         /\ avail' = up
         /\ rows' = Without(rows, DeadRows(jars, up))
         /\ aliases' = Without(aliases, {a \in DOMAIN aliases :
                                           \/ a \in DeadRows(jars, up)
                                           \/ aliases[a] \in DeadRows(jars, up)})
  /\ cl' = [c \in Clients |-> Idle(cl[c].conv, cl[c].transcript, cl[c].sent)]
  /\ line' = <<>>
  /\ UNCHANGED nextLock

-----------------------------------------------------------------------------
Init ==
  /\ rows = <<>>
  /\ aliases = <<>>
  /\ cl \in {[c \in Clients |-> Idle(conv[c], <<>>, 0)] : conv \in ConvOf}
  /\ line = <<>>
  /\ nextLock = 1
  /\ pool \in Pools
  /\ avail = DOMAIN pool
  /\ restarts = 0

Pick(c) == PickSticky(c) \/ PickRepin(c) \/ PickAvailable(c) \/ PickFresh(c)

Arrive(c) == ArriveConv(c) \/ ArriveChained(c) \/ ArriveUnchained(c)

Next ==
  \/ \E c \in Clients :
       \/ Arrive(c) \/ JoinLock(c) \/ Enter(c) \/ Pick(c)
       \/ Answer(c) \/ Fail(c) \/ RetryFresh(c) \/ Save(c) \/ Disconnect(c)
  \/ \E a \in slots : Degrade(a) \/ Heal(a)
  \/ Restart

Spec == Init /\ [][Next]_vars

\* The event loop runs every ready task and the step guard ends every turn
Serve(c) == JoinLock(c) \/ Enter(c) \/ Pick(c) \/ Answer(c) \/ Fail(c) \/ Save(c)

FairSpec == Spec /\ \A c \in Clients : WF_vars(Serve(c))

-----------------------------------------------------------------------------
(* Properties *)

Metas == [acct : Accounts \cup {NoAccount}, hist : Seq(STRING)]

\* The type of every variable.
TypeOK ==
  /\ \A k \in DOMAIN rows : /\ rows[k].account \in Nat
                            /\ rows[k].meta \in Metas
                            /\ rows[k].lock \in 1..(nextLock - 1)
  /\ \A a \in DOMAIN aliases : aliases[a] \in DOMAIN rows
  /\ \A c \in Clients :
       /\ cl[c].pc \in {"idle", "arrived", "waiting", "entered", "turn", "answered"}
       /\ cl[c].resume \in Metas /\ cl[c].meta \in Metas
       /\ cl[c].pc \in {"turn", "answered"} => cl[c].account \in slots
  /\ \A i \in DOMAIN line : line[i] \in Clients \X (1..(nextLock - 1))
  /\ pool \in Pools /\ avail \subseteq slots

Running(c) == cl[c].pc \in {"turn", "answered"}

\* A Gemini cid is never sent to another Google session than the one that
\* minted it (the docstrings of _pick_account and _pick_account_for_turns).
NoForeignContinuation ==
  \A c \in Clients :
    (Running(c) /\ cl[c].meta # NoMeta) => cl[c].meta.acct = pool[cl[c].account]

\* Every stored continuation belongs to the account its row is pinned to, so
\* that a later request cannot be routed apart from it (sessions table).
RowsMatchTheirAccount ==
  \A k \in DOMAIN rows :
    (rows[k].meta # NoMeta /\ rows[k].account \in slots) =>
      rows[k].meta.acct = pool[rows[k].account]

\* A chained request runs in a Gemini chat that holds nothing but the end of
\* the history this very client sent (_find_chain_prev, _chat_turns).
ContextIsOwnHistory ==
  \A c \in Clients :
    Running(c) /\ cl[c].cut > 0 =>
      IsSuffix(cl[c].meta.hist, DropLast(cl[c].msgs, 1))

\* A request that matches no known prefix starts a new Gemini chat (README,
\* "Fresh chats"; the comment in _chat_turns).
FreshStartsFresh ==
  \A c \in Clients :
    Running(c) /\ cl[c].conv = NoConv /\ cl[c].cut = 0 => cl[c].meta = NoMeta

\* A chat whose last answer the client has read is found again by its
\* fingerprint, on a configured slot, with the end of that very history
\* (README, "Persistence": chains keep working after a restart).
AnsweredChatsResume ==
  \A c \in Clients :
    cl[c].pc = "idle" /\ cl[c].conv = NoConv /\ cl[c].transcript # <<>> =>
      /\ Resumable(Fingerprint(cl[c].transcript))
      /\ IsSuffix(RowOf(Fingerprint(cl[c].transcript)).meta.hist,
                    cl[c].transcript)

\* The conversation lock admits one buffered request of a conversation at a
\* time to _chat_turns, the turn and the save (SessionStore.lock_for).
RunnersSerialized ==
  \A c, d \in Clients :
    /\ cl[c].pc \in {"entered", "turn", "answered"} /\ ~cl[c].stream
    /\ cl[d].pc \in {"entered", "turn", "answered"} /\ ~cl[d].stream
    /\ Resolve(cl[c].key) = Resolve(cl[d].key)
    => c = d

\* A saved conversation only grows: no completed turn of a conversation_id is
\* replaced by a turn that did not see it (lock_for, _save_state).
NoLostTurn ==
  [][\A k \in DOMAIN rows \cap DOMAIN rows' :
       k[1] = "conv" => IsPrefix(rows[k].meta.hist, rows'[k].meta.hist)]_rows

\* Every request that waits for its conversation is answered or refused in
\* the end: no lock is kept by a request that is over (async with convo_lock).
EveryRequestEnds ==
  \A c \in Clients : cl[c].pc = "arrived" ~> cl[c].pc = "idle"

=============================================================================
