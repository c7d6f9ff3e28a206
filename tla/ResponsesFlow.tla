---------------------------- MODULE ResponsesFlow ----------------------------
(***************************************************************************)
(* The Responses API of server.py over the SQLite-only SessionStore: which *)
(* row a request continues (its `conversation', its previous_response_id,  *)
(* or a new chat), which of its input items Gemini has not seen yet        *)
(* according to the stored norm, the turn, and the three commits that      *)
(* follow it.  Chat Completions of a conversation_id, which share its row  *)
(* but know nothing of norms, are here as well.                            *)
(*                                                                         *)
(* An input item is its author, the client it belongs to and its number    *)
(* in the chat, so equal messages are equal items and a repeated request   *)
(* sends the same item again.  Metadata is modelled by the items Gemini    *)
(* has in that chat; the pinned account, whose rules ChatFlow has, is not  *)
(* here.  Instructions, attachments and images are left out.               *)
(***************************************************************************)
EXTENDS Naturals, Sequences, FiniteSets, SequencesExt, Subsequences

CONSTANTS
  Clients,      \* OpenAI clients, each with at most one request in flight
  Scenes,       \* what the clients do: functions from Clients to Styles
  Events,       \* which of "fail", "resume", "disconnect", "lost", "fork",
                \* "repeat", "purge", "kill" may happen
  MaxRequests,  \* bound: requests each client sends
  MaxRestarts   \* bound: process restarts

\* A client uses one API or both, streamed or buffered.  Its input is a list with its
\* whole history or what is new, or what is new as a string; it names its
\* conversation itself ("own"), sends back the id of the last reply ("reply"),
\* or chains by response id ("prev")
ASSUME ResponsesAssumption ==
  /\ \A s \in Scenes : \A c \in Clients :
       /\ s[c].api \in {"responses", "chat", "both"} /\ s[c].stream \in BOOLEAN
       /\ s[c].input \in {"full", "delta", "string"} /\ s[c].by \in {"own", "reply", "prev"}
       /\ s[c].api # "responses" => s[c].input = "full" /\ s[c].by = "own"
  /\ MaxRequests \in Nat /\ MaxRestarts \in Nat

VARIABLES
  rows,         \* sessions: key -> [meta, norm, lock]
  responses,    \* saved Responses objects: id -> [state, norm]
  cl,           \* each client's transcript and its request in flight
  line,         \* <<client, lock>>: who holds or awaits a row's lock, oldest first
  restarts,
  style,        \* the scene: fixed at the start
  past          \* history: what has happened that a property sets aside

vars == <<rows, responses, cl, line, restarts, style, past>>

-----------------------------------------------------------------------------
(* Data.  What the code draws at random is named after the request that     *)
(* draws it, and a lock after the step that creates its row.                *)

NoKey == <<"", <<>>>>

NoId == <<>>

NoRid == <<>>

ConvKey(id) == <<"conv", id>>

\* The current request of client c
Request(c) == <<c, cl[c].sent>>

User(c, n) == [role |-> "user", of |-> c, n |-> n]

Reply(c, n) == [role |-> "assistant", of |-> c, n |-> n]

Items == [role : {"user", "assistant"}, of : Clients, n : Nat]

IsUserItem(item) == item.role = "user"

Put(f, k, v) == [x \in DOMAIN f \cup {k} |-> IF x = k THEN v ELSE f[x]]

Without(f, ks) == [x \in DOMAIN f \ ks |-> f[x]]

\* read: the transcript behind each response the client has read
Idle(c) ==
  [cl[c] EXCEPT !.pc = "idle", !.api = "none", !.items = <<>>, !.msgs = <<>>,
                !.prev = NoRid, !.conv = NoId, !.peek = NoKey, !.key = NoKey,
                !.turns = <<>>, !.meta = <<>>]

\* Faulty: the items are not compared
OverlapByLength(prev, new) == IF Len(prev) < Len(new) THEN Len(prev) ELSE Len(new)

\* Faulty: nothing is known
NoOverlap(prev, new) == 0

\* _prefix_overlap
PrefixOverlap(prev, new) ==
  CHOOSE n \in 0..Len(new) :
    /\ n <= Len(prev) /\ \A i \in 1..n : prev[i] = new[i]
    /\ n < Len(prev) /\ n < Len(new) => prev[n + 1] # new[n + 1]

\* _items_to_turns: one turn for each item that is not an echo
ItemsToTurns(items) == Among(items, {item \in Range(items) : IsUserItem(item)})

\* The turns of the items after those that the norm has
Unseen(norm, items) ==
  ItemsToTurns(SubSeq(items, PrefixOverlap(norm, items) + 1, Len(items)))

-----------------------------------------------------------------------------
(* SessionStore: rows and their locks, as in ChatFlow *)

Fresh(key) == key \notin DOMAIN rows \/ rows[key].meta = <<>>

\* get_or_new in a step of client c
WithRow(c, table, key) ==
  IF key \in DOMAIN table THEN table
  ELSE Put(table, key, [meta |-> <<>>, norm |-> <<>>, lock |-> <<Request(c), cl[c].pc>>])

\* drop_if_fresh: of the given keys, the rows without metadata and norm go
DropIfFresh(table, keys) ==
  Without(table, {k \in keys \cap DOMAIN table : table[k].meta = <<>> /\ table[k].norm = <<>>})

\* Faulty: every waiter is let in
WaitsForLock(c) == \E i \in DOMAIN line : line[i][1] = c

HoldsLock(c) ==
  \E i \in DOMAIN line :
    /\ line[i][1] = c
    /\ \A j \in 1..(i - 1) : line[j][2] # line[i][2]

Released(c) == Among(line, {e \in Range(line) : e[1] # c})

\* Faulty: it stays
PeekKept(c) == {}

\* The junk row of a peeked key, which goes when the handler is through
Peeked(c) == IF cl[c].peek # cl[c].key THEN {cl[c].peek} ELSE {}

-----------------------------------------------------------------------------
(* A request arrives: _responses_payload, _resolve_responses_inputs, and the *)
(* key it will wait for (_resolve_responses_key)                             *)

\* The response a request names: the last one its client read, or any earlier
\* one when it forks
PrevIds(c) ==
  IF style[c].by # "prev" \/ cl[c].last = NoRid THEN {NoRid}
  ELSE IF "fork" \in Events THEN DOMAIN cl[c].read ELSE {cl[c].last}

\* The conversation a request names
ConvId(c) ==
  IF style[c].by = "own" THEN <<style[c].conv>>
  ELSE IF style[c].by = "reply" THEN cl[c].convOut ELSE NoId

Apis(c) == IF style[c].api = "both" THEN {"responses", "chat"} ELSE {style[c].api}

\* A request.  A new chat whose input is a string has no items: its prompt is all.
Asked(c, prev, api, repeat) ==
  LET before == IF prev = NoRid THEN cl[c].transcript ELSE cl[c].read[prev]
      number == IF repeat THEN 1 ELSE Len(before) \div 2 + 1
      msgs == Append(before, User(c, number))
  IN  [Idle(c) EXCEPT
         !.sent = @ + 1, !.api = api, !.msgs = msgs, !.prev = prev, !.conv = ConvId(c),
         !.items = IF style[c].input = "string" /\ prev = NoRid /\ ConvId(c) = NoId THEN <<>>
                   ELSE IF style[c].input = "full" THEN msgs ELSE <<User(c, number)>>]

\* Whether it may repeat the first message
Repeats == IF "repeat" \in Events THEN BOOLEAN ELSE {FALSE}

\* An unknown response id waits for a row of its own, a new chat for a random key
PeekKey(c, req) ==
  IF req.conv # NoId THEN ConvKey(req.conv)
  ELSE IF req.prev \in DOMAIN responses THEN responses[req.prev].state
  ELSE IF req.prev # NoRid THEN <<"pending", req.prev>>
  ELSE IF req.items = <<>> THEN <<"resp", <<c, req.sent>>>>
  ELSE <<"peek", <<c, req.sent>>>>

\* lock_for(peek_key): the row with the lock, and a place in its queue
Arrive(c) ==
  /\ cl[c].pc = "idle" /\ cl[c].sent < MaxRequests
  /\ \E prev \in PrevIds(c), api \in Apis(c), repeat \in Repeats :
       LET req == Asked(c, prev, api, repeat)
           key == PeekKey(c, req)
       IN  /\ rows' = WithRow(c, rows, key)
           /\ cl' = [cl EXCEPT ![c] = [req EXCEPT !.pc = "waiting", !.peek = key]]
           /\ line' = Append(line, <<c, rows'[key].lock>>)
  /\ UNCHANGED <<responses, restarts, style, past>>

\* Where the request goes and what Gemini has not seen (_responses_turns, or
\* _chat_turns for a conversation_id): the key, and the turns to send
Resolved(c) ==
  LET req == cl[c]
      items == req.items
      key == ConvKey(req.conv)
      whole(k) == [key |-> k, turns |-> items]
  IN  IF cl[c].api = "chat"
      THEN LET users == ItemsToTurns(items)
           IN  [key |-> key, turns |-> IF Fresh(key) THEN users ELSE <<Last(users)>>]
      ELSE IF items = <<>> THEN [key |-> req.peek, turns |-> <<Last(req.msgs)>>]
      ELSE IF req.conv # NoId
      THEN IF Fresh(key) THEN whole(key) ELSE [key |-> key, turns |-> Unseen(rows[key].norm, items)]
      ELSE IF req.prev \in DOMAIN responses
      THEN [key |-> responses[req.prev].state,
            turns |-> Unseen(responses[req.prev].norm, items)]
      ELSE whole(<<"resp", Request(c)>>)

\* The lock is ours and the turns are known
Enter(c) ==
  LET to == Resolved(c)
  IN  /\ cl[c].pc = "waiting"
      /\ HoldsLock(c)
      /\ to.turns # <<>>
      /\ rows' = IF cl[c].prev \in DOMAIN responses THEN rows ELSE WithRow(c, rows, to.key)
      /\ cl' = [cl EXCEPT ![c].pc = "entered", ![c].key = to.key, ![c].turns = to.turns]
      /\ UNCHANGED <<responses, line, restarts, style, past>>

\* Nothing is left to send: 400 "no input items to send"
Refuse(c) ==
  /\ cl[c].pc = "waiting"
  /\ HoldsLock(c)
  /\ Resolved(c).turns = <<>>
  /\ cl' = [cl EXCEPT ![c] = [Idle(c) EXCEPT !.refused = TRUE]]
  /\ line' = Released(c)
  /\ past' = past \cup {"refused"}
  /\ UNCHANGED <<rows, responses, restarts, style>>

\* _pick_account_for_turns: the turn runs on what the row holds now; a stream
\* is returned and leaves the lock, and the peeked row is dropped behind it
Pick(c) ==
  LET req == cl[c]
      table == WithRow(c, rows, req.key)
  IN  /\ req.pc = "entered"
      /\ cl' = [cl EXCEPT ![c].pc = "turn", ![c].meta = table[req.key].meta]
      /\ rows' = IF style[c].stream THEN DropIfFresh(table, Peeked(c)) ELSE table
      /\ line' = IF style[c].stream THEN Released(c) ELSE line
      /\ UNCHANGED <<responses, restarts, style, past>>

-----------------------------------------------------------------------------
(* _buffered_response and gen over _run_turns and _run_turns_stream *)

\* A resume error: the same turns in a fresh Gemini chat
RetryFresh(c) ==
  /\ "resume" \in Events
  /\ cl[c].pc = "turn"
  /\ cl[c].meta # <<>>
  /\ cl' = [cl EXCEPT ![c].meta = <<>>]
  /\ past' = past \cup {"resume"}
  /\ UNCHANGED <<rows, responses, line, restarts, style>>

\* The answer is there; its images are re-hosted before anything is saved
Answer(c) ==
  /\ cl[c].pc = "turn"
  /\ cl' = [cl EXCEPT ![c].pc = "answered"]
  /\ UNCHANGED <<rows, responses, line, restarts, style, past>>

\* A row goes while others wait for its lock
Orphans(c, table) ==
  \E k \in DOMAIN rows \ DOMAIN table, i \in DOMAIN line :
    line[i][1] # c /\ line[i][2] = rows[k].lock

\* The turn fails: a row that never completed one goes
Fail(c) ==
  /\ "fail" \in Events
  /\ cl[c].pc = "turn"
  /\ rows' = DropIfFresh(rows, {cl[c].key} \cup Peeked(c))
  /\ cl' = [cl EXCEPT ![c] = Idle(c)]
  /\ line' = Released(c)
  /\ past' = past \cup (IF Orphans(c, rows') THEN {"orphaned"} ELSE {})
  /\ UNCHANGED <<responses, restarts, style>>

\* The first n commits after a turn: _save_state, set_norm, save_response
SavedMeta(c, table) ==
  [WithRow(c, table, cl[c].key) EXCEPT
     ![cl[c].key].meta = cl[c].meta \o cl[c].turns \o
                           <<Reply(c, Last(cl[c].msgs).n)>>]

SavedNorm(c, table) ==
  IF cl[c].api = "chat" \/ cl[c].key \notin DOMAIN table THEN table
  ELSE [table EXCEPT ![cl[c].key].norm = cl[c].items]

\* Faulty: the norm before the metadata
NormFirst(c, n) ==
  LET normed == SavedNorm(c, rows)
  IN  IF n = 1 THEN normed ELSE SavedMeta(c, normed)

SavedRows(c, n) ==
  LET meta == SavedMeta(c, rows)
  IN  IF n = 1 THEN meta ELSE SavedNorm(c, meta)

\* Faulty: the state is the key the request has waited for
SavedPeek(c) ==
  IF cl[c].api = "chat" THEN responses
  ELSE Put(responses, Request(c), [state |-> cl[c].peek, norm |-> cl[c].items])

SavedResponse(c) ==
  IF cl[c].api = "chat" THEN responses
  ELSE Put(responses, Request(c), [state |-> cl[c].key, norm |-> cl[c].items])

\* What a client remembers of a reply it has read: conv_out is the key
\* without its "conv:"
HasRead(c) ==
  LET full == Append(cl[c].msgs, Reply(c, Last(cl[c].msgs).n))
  IN  [Idle(c) EXCEPT !.transcript = full, !.last = Request(c),
                      !.read = Put(cl[c].read, Request(c), full),
                      !.convOut = IF cl[c].key[1] = "conv" THEN cl[c].key[2] ELSE cl[c].key]

\* Save and reply.  "lost": the client never sees the reply
Save(c) ==
  /\ cl[c].pc = "answered"
  /\ rows' = DropIfFresh(SavedRows(c, 2), Peeked(c))
  /\ responses' = SavedResponse(c)
  /\ \/ cl' = [cl EXCEPT ![c] = HasRead(c)] /\ UNCHANGED past
     \/ /\ "lost" \in Events
        /\ cl' = [cl EXCEPT ![c] = Idle(c)]
        /\ past' = past \cup {"lost"}
  /\ line' = Released(c)
  /\ UNCHANGED <<restarts, style>>

\* The client of a stream goes away: the generator is closed, nothing is saved
Disconnect(c) ==
  /\ "disconnect" \in Events
  /\ style[c].stream
  /\ cl[c].pc \in {"turn", "answered"}
  /\ cl' = [cl EXCEPT ![c] = Idle(c)]
  /\ past' = past \cup {"disconnect"}
  /\ UNCHANGED <<rows, responses, line, restarts, style>>

-----------------------------------------------------------------------------
(* The process restarts *)

\* _purge_dead_continuations: the rows of accounts that did not come up
Purges(table) ==
  IF "purge" \in Events
  THEN SUBSET {k \in DOMAIN table : table[k].meta # <<>>} ELSE {{}}

RestartWith(table, saved, marks) ==
  /\ restarts < MaxRestarts
  /\ restarts' = restarts + 1
  /\ \E dead \in Purges(table) :
       /\ rows' = Without(table, dead)
       /\ past' = past \cup marks \cup (IF dead = {} THEN {} ELSE {"purge"})
  /\ responses' = saved
  /\ cl' = [c \in Clients |-> Idle(c)]
  /\ line' = <<>>
  /\ UNCHANGED style

Restart == RestartWith(rows, responses, {"restart"})

\* The process is killed between the commits of a turn
Kill(c) ==
  /\ "kill" \in Events
  /\ cl[c].pc = "answered"
  /\ \E n \in 1..2 : RestartWith(SavedRows(c, n), responses, {"restart", "kill"})

-----------------------------------------------------------------------------
Init ==
  /\ rows = <<>>
  /\ responses = <<>>
  /\ cl = [c \in Clients |->
             [pc |-> "idle", api |-> "none", transcript |-> <<>>, sent |-> 0, read |-> <<>>,
              last |-> NoRid, convOut |-> NoId, refused |-> FALSE,
              items |-> <<>>, msgs |-> <<>>, prev |-> NoRid,
              conv |-> NoId, peek |-> NoKey, key |-> NoKey, turns |-> <<>>,
              meta |-> <<>>]]
  /\ line = <<>>
  /\ restarts = 0
  /\ style \in Scenes
  /\ past = {}

Next ==
  \/ \E c \in Clients :
       \/ Arrive(c) \/ Enter(c) \/ Refuse(c) \/ Pick(c) \/ RetryFresh(c)
       \/ Answer(c) \/ Fail(c) \/ Save(c) \/ Disconnect(c) \/ Kill(c)
  \/ Restart

Spec == Init /\ [][Next]_vars

-----------------------------------------------------------------------------
(* Properties *)

\* What is known of a client, see Init
Fields ==
  {"pc", "api", "transcript", "sent", "read", "last", "convOut", "refused", "items",
   "msgs", "prev", "conv", "peek", "key", "turns", "meta"}

\* The type of every variable.
TypeOK ==
  /\ \A k \in DOMAIN rows :
       /\ DOMAIN rows[k] = {"meta", "norm", "lock"}
       /\ rows[k].meta \in Seq(Items) /\ rows[k].norm \in Seq(Items)
  /\ \A r \in DOMAIN responses :
       DOMAIN responses[r] = {"state", "norm"} /\ responses[r].norm \in Seq(Items)
  /\ DOMAIN cl = Clients
  /\ \A c \in Clients :
       /\ DOMAIN cl[c] = Fields
       /\ cl[c].pc \in {"idle", "waiting", "entered", "turn", "answered"}
       /\ cl[c].sent \in 0..MaxRequests /\ cl[c].refused \in BOOLEAN
       /\ \A f \in {"transcript", "items", "msgs", "turns", "meta"} : cl[c][f] \in Seq(Items)
       /\ cl[c].prev \in DOMAIN cl[c].read \cup {NoRid}
       /\ \A r \in DOMAIN cl[c].read : cl[c].read[r] \in Seq(Items)
  /\ restarts \in 0..MaxRestarts /\ style \in Scenes

Running(c) == cl[c].pc \in {"turn", "answered"}

\* No other client uses the conversation of this one
Alone(c) ==
  style[c].by = "own" =>
    \A d \in Clients \ {c} : style[d].by = "own" => style[d].conv # style[c].conv

\* Its conversation is remembered by what the client sends, so a purged row
\* takes nothing with it
Complete(c) == style[c].by = "own" /\ style[c].input = "full"

\* What Gemini has in context and what is sent to it now are together the
\* history of the client, each message once (_responses_turns: "history is
\* never replayed").  Set aside: a client whose reply was lost, a kill between
\* commits, a resume error, and a purge unless the client sends everything.
ContextIsHistory ==
  past \cap {"lost", "kill", "resume"} = {} =>
    \A c \in Clients :
      Running(c) /\ Alone(c) /\ ("purge" \in past => Complete(c)) =>
        cl[c].meta \o cl[c].turns = cl[c].msgs

\* No message is twice in a conversation, whoever takes part in it and through
\* whichever API (the same docstring).
NothingTwice ==
  past \cap {"lost", "kill"} = {} =>
    \A k \in DOMAIN rows : IsInjective(rows[k].meta)

\* What a row's norm says Gemini has seen, Gemini has: an item that is cut from
\* a later request is not lost (_prefix_overlap).  Set aside: a resume error, a
\* row dropped under its waiters, and for chains by response id a purge, which
\* leaves the norm of the response.
NormWasSent ==
  past \cap {"resume", "orphaned"} = {} =>
    \A k \in DOMAIN rows :
      k[1] = "conv" \/ "purge" \notin past =>
      \A item \in Range(ItemsToTurns(rows[k].norm)) : item \in Range(rows[k].meta)

\* The last response a client has read can be continued: it is stored, its row
\* too, and the row holds the history the client has seen (README,
\* "Persistence": previous_response_id chains survive restarts).
ResponsesResume ==
  past \cap {"lost", "kill", "purge", "resume"} = {} =>
    \A c \in Clients :
      cl[c].pc = "idle" /\ style[c].api = "responses" /\ Alone(c) /\ cl[c].last # NoRid =>
        /\ cl[c].last \in DOMAIN responses
        /\ responses[cl[c].last].state \in DOMAIN rows
        /\ rows[responses[cl[c].last].state].meta = cl[c].transcript

\* A request with a new message is never refused as empty ("no input items").
NewMessagesPass ==
  past \cap {"lost", "kill"} = {} => \A c \in Clients : ~cl[c].refused

\* Once everybody is served no row without a history is left: rows made for
\* peeked keys and failed turns are gone (_handle_responses: "the peeked
\* random key is then junk").
NoJunkRows ==
  /\ past \cap {"restart", "disconnect", "refused"} = {}
  /\ \A c \in Clients : cl[c].pc = "idle"
  => \A k \in DOMAIN rows : rows[k].meta # <<>>

\* The same three where the code breaks them: a complete input after a purge,
\* norms after a resume error, and a request that repeats what was answered.
FullInputIsContext ==
  past \cap {"lost", "kill", "resume"} = {} =>
    \A c \in Clients :
      Running(c) /\ Alone(c) /\ style[c].input = "full" =>
        cl[c].meta \o cl[c].turns = cl[c].msgs

NormAlwaysSent ==
  \A k \in DOMAIN rows :
    \A item \in Range(ItemsToTurns(rows[k].norm)) : item \in Range(rows[k].meta)

NeverTwice == \A k \in DOMAIN rows : IsInjective(rows[k].meta)

NoneRefused == \A c \in Clients : ~cl[c].refused

\* A conversation only grows: no turn replaces one that it has not seen
\* (SessionStore.lock_for).  Set aside: a resume error starts it anew, and a
\* failed first turn drops the row under those who wait for it (see ChatFlow).
ConversationsGrow ==
  [][past \cap {"resume", "orphaned"} = {} =>
       \A k \in DOMAIN rows \cap DOMAIN rows' :
         IsPrefix(rows[k].meta, rows'[k].meta)]_rows
=============================================================================
