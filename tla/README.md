# A TLA+ model of gemini.google.com-to-openai-api

This directory specifies the OpenAI-compatible proxy of `src/`: a single asyncio
process (FastAPI) that turns Chat Completions, Responses, images and files into
turns of Gemini web sessions, over a pool of Google accounts whose cookies come
from Chrome. TLC checks the modules on small instances; TLAPS proves, for every
size, the safety properties of the account locks, of both APIs, of the cookies and of
the three stores, and that the locks implement an abstract service.

- [The system](#the-system): components, state, interactions, what is hard
- [The modules](#the-modules): how they correspond to the code
- [The runs](#the-runs): what each checks, its bounds and its fairness
- [Disagreements](#disagreements): where the code and its docs part
- [The proofs](#the-proofs)
- [Not modelled](#not-modelled) and [Plan](#plan)

Check a run with `tlc -config <run>.cfg <MC module>` and the proofs with `tlapm` on
each module whose name ends in `Proofs`. `PROJECT.json` maps every definition to the
lines it stands for.

## The system

| component | code | state | operations |
|---|---|---|---|
| Chat Completions | `server.py` 900-1400 | none of its own; a request's locals | `_chat_payload`, `_chat_turns`, `_handle_chat`, `_pick_account(_for_turns)`, `_buffered_chat`, `_stream_chat`, `_save_state` |
| Session store | `conversations.py`, `store.py` | `_states`, `_aliases`, `_responses`, SQLite tables, `_gen`; one `asyncio.Lock` per row | `get`, `get_or_new`, `persist`, `link`, `lock_for`, `drop_if_fresh`, `drop_if` |
| Redis tier | `redis_store.py` | hashes, recency sets, delete-generations | `session_*`, `alias_*`, `response_*`, `file_*`, scripts |
| Account pool | `accounts.py` | `_entries` (client, lock, failures), `_rr` | `pick`, `pick_available`, `report`, `lock_for`, `build_replacement`, `swap_client` |
| Turns at Gemini | `server.py` 480-800 | staged files in `/tmp/gem2oai-uploads` | `_run_turns`, `_run_turns_stream`, `_guarded`, `_abort_step` |
| Cookies, boot, shutdown | `server.py` 249-344 and 2205-2315, `accounts.py` 33-260, `chrome_cookies.py` | `accounts.txt`, Chrome's cookie stores | `lifespan`, `_cookie_sync_loop`, `_heal_degraded_accounts`, `refresh_accounts_from_chrome`, `sync_accounts_file` |
| Responses API | `server.py` 1400-1996 | stored response objects, norms | `_resolve_responses_key`, `_responses_turns`, `_buffered_response`, `_prefix_overlap` |
| Uploaded files | `content.py` 360-620 | `UploadStore`: memory, SQLite, Redis | `aput`, `get`, `aget`, `adelete`, `alist_all` |
| Citations in streams | `server.py` 840-900 | what `CiteStripper` holds back | `feed`, `flush`, `strip_cites` |
| Conversions | `content.py` | none | message parts, downloads, transcoding |
| Images, models, config | `server.py`, `freeimage.py`, `config.py` | none | one request each |

**How they interact.** A chat request is resolved to a row of the session store
(its `conversation_id`, or the fingerprint of its messages), waits for the lock
that lives *in that row*, takes the account the row is pinned to or asks the pool
for one, waits for the account's lock, sends its turns, and saves the new Gemini
metadata `[cid, rid, rcid]` into the row. A Responses request does the same with a
second piece of state, the *norm*: the input items Gemini is believed to have, by
which the next request is cut down to what is new. Beside the requests run the cookie
loop, which every ten minutes rewrites `accounts.txt` from Chrome, replaces the
clients of expired accounts under their locks, and writes the live cookies back;
and, when Redis is configured, other processes over the same keys.

**What is hard.** There are no threads, but every `await` lets another task run:

- A request reads the row before it waits for the row's lock and the client
  before it waits for the account's lock; both may be replaced meanwhile.
- A streamed turn runs after its handler returned, so outside the row's lock.
- A row that is dropped takes its lock with it.
- A slot number is stored for ever, while the slots are rebuilt at each boot from
  a file that another part rewrites by position.
- A retry repeats a step whose effects (deltas, removed files) are out already.
- Cancellation arrives at any await: client disconnects, the step guard, shutdown.
- A turn is saved in several commits (metadata, norm, response body).
- Memory, SQLite and Redis have capacities of their own and evict in orders of their
  own: insertion, use, row, score.
- A row has three copies, compared by whole seconds; Redis calls may fail, and
  another process may run between any two of them.

**What makes each component correct.** Chat: a continuation is sent only to the
account that minted it, and only on top of the history the client sent; a
conversation's turns are serial and none is lost. Pool: one turn per account at
a time, no lock without an owner, no client leaked. Cookies: no block or slot
takes over another Google account, and no rotated value is lost. Store: what is
acknowledged survives a restart, a turn continues the last persisted answer, and
processes converge. Responses: a message is in Gemini's context once, and a stored
response can be continued. Files: an upload that was answered can be read until it is
evicted or deleted, and not after. Citations: the streamed text is the final text. `PROJECT.json` lists 40 hazards at their lines with the
properties that cover them.

## The modules

| module | what it models | used by |
|---|---|---|
| `ChatFlow` | Chat Completions over the SQLite-only store: rows, aliases, row locks, pins, turns, retries, disconnects, restarts and the boot purge | `MCChatFlow`, `ChatFlowProofs` |
| `AccountTurns` | the account locks and what runs under them: choice of an account, the steps of a turn, staged files, retry, cancellation, the healer | `MCAccountTurns`, `AccountTurnsProofs` |
| `AccountService` | the abstract promise of an account: one worker at a time, first come first served, one session per worker | `AccountTurns`, `AccountTurnsProofs` |
| `ResponsesFlow` | the Responses API over the SQLite-only store, and chats in the same conversations: norms, overlap, peeked rows, stored responses, the commits of a save one by one | `MCResponsesFlow`, `ResponsesFlowProofs` |
| `CookieSync` | `accounts.txt`, Chrome, the clients' cookies; boot, loop, heal, shutdown, kill | `MCCookieSync`, `CookieSyncProofs` |
| `SessionTiers` | one conversation row in memory, SQLite and Redis; several processes, each Redis command a step | `MCSessionTiers`, `SessionTiersProofs` |
| `StoreCapacity` | the store when it is full: rows, aliases and response bodies in three tiers, eviction, restart | `MCStoreCapacity`, `StoreCapacityProofs` |
| `UploadTiers` | the files of `/v1/files` in three tiers; several processes, each Redis command a step | `MCUploadTiers`, `UploadTiersProofs` |
| `CiteStream` | `CiteStripper` over all divisions of a text, against `strip_cites` | `MCCiteStream`, `AccountTurnsProofs` |
| `Subsequences` | the elements of a queue or a tier that lie in a set, in their order: what deletion, eviction and a cancelled wait leave | the modules with queues and tiers, `SubsequencesProofs` |

They overlap at named seams rather than being multiplied into one state space.
`ChatFlow` lets `pick` return any slot, which includes what the pool of
`AccountTurns` returns; `AccountTurns` starts at a request whose row is known,
which `ChatFlow` provides; `ResponsesFlow` composes the two APIs over one table of
rows and leaves the accounts to `ChatFlow`; the heal is one step in `ChatFlow` (an
account is available again), a task with a lock in `AccountTurns`, and a movement of
cookies in `CookieSync`; a store call is one step in `ChatFlow`, `ResponsesFlow` and
`StoreCapacity`, and many in `SessionTiers`. `ChatFlow` and `ResponsesFlow` are without
Redis, so calls that follow each other are one step there; in `StoreCapacity` with Redis
every call is a step of its own.

Definitions marked *Faulty* are not part of any specification: each is the
plausible mistake with which a property is shown to be falsifiable (the `mutants` of
`PROJECT.json`).

### ChatFlow

*State.* `rows` and `aliases` are the SQLite tables and their copies in memory,
which are equal without Redis. A row has the pinned slot, the metadata, and the
identity of its lock. Metadata is modelled by what it denotes: the account that
minted it and the messages Gemini has in that chat (`hist`). `cl` is a client
with its transcript and the request it has in flight; `line` is the order in
which tasks queue for row locks.

*Actions.* `ArriveConv`, `ArriveChained` and `ArriveUnchained` are the three ways
`_resolve_chat_turns` maps a request to a row. The last two read and write the row
*before* `JoinLock` and `Enter`, as the code does. `PickSticky`, `PickRepin`,
`PickAvailable` and `PickFresh` are the branches of `_pick_account_for_turns` and
`_pick_account`; `Run` frees the row lock of a stream, whose generator runs after
`_handle_chat` has returned. `Answer`, `Fail`, `RetryFresh`, `Save` and
`Disconnect` are the ends of a turn. `Restart` boots with another `accounts.txt`
and purges rows whose account is not available.

*Atomicity.* The store's guard is never held across an await that really yields
when there is no Redis, so each store call is one step; the awaits that do yield
end the actions. `_save_state` and `link` run without an await between them that
yields. A crash between the two commits inside `Save` is not an action: its
effect, a client that never read its answer, is the event `"resend"`.

### AccountTurns

*State.* Per slot the client, the strikes, the lock's holder and its FIFO queue;
of the clients, which are available, open, retired or being closed; per request
the slot, the client it captured, its turns and staged files; and the healer.

*Actions.* `Accept` chooses the slot with `pick` or `pick_available` and stages
the files. `Begin` captures the client and either takes the lock or queues
(`_run_turns` reads `pool.client(index)` first). `StartSending`, `NextTurn`,
`Delta`, `Complete`, `SaveDone` are the turn; `SendFails` and `RetryFresh` the
failure with and without a second attempt; `Cancel` is a disconnect at any await.
The healer scans (`HealSkip`), builds off to the side (`HealBuild`, `HealFails`),
queues for the lock, and swaps or discards (`HealSwap`, `HealDiscard`);
`CloseReplaced` is the background close. `Service` is the refinement: whom an
account serves are the requests in their turn, its line is the lock's queue, its
session the slot's client, and `ServesInOrder` is `AccountService!Spec` under it. `OpenAfter` models that the step guard
closes the client and that the library opens a closed client at its next call.

An `asyncio.Lock` is a holder and a queue: a task that asks for a free lock with
nobody waiting takes it at once; a release wakes the first waiter, which takes it
when the loop runs it; a cancelled waiter leaves the queue.

### CookieSync

A jar is a login (`__Secure-1PSID`) and the number of its `__Secure-1PSIDTS`; each
rotation, by a client or by the browser, mints the login's next number, so "newer"
is a comparison. `Refreshed` is the loop of `refresh_accounts_from_chrome` over
the paired blocks, including that a block is replaced by content (the first equal
one). `Synced` is `sync_accounts_file`, which matches by login. `ChromeRefresh`,
the heal and `LiveSync` are the pass that boot and loop share; only `sleep` and
the initialisation of a client yield, and only there other tasks act, but `Kill`
may come anywhere. `"error"` lets a pass fail as the code allows it to: the refresh
raises (`readable` is empty; in the loop the pass is over), and `LivePass` leaves out
any jars (`_pool_jars` drops what it cannot read) or all of them (an exception, or an
`OSError` in `sync_accounts_file`), also at boot and at shutdown. `Stop` is `cookie_task.cancel()`: it ends a sleep, and in
`build_replacement` it is either swallowed by `except BaseException` (the heal
goes on) or, while the failed client is being closed, escapes.

### SessionTiers

One conversation key. A task is a turn, a lookup (`GET /v1/conversations/{id}`) or
a boot purge, in a process; it walks through *stages* (which store call the code
makes next) and, within one, *steps* (which command of the call comes next). Every
Redis command is a step that may fail; `mem`, `heap` and `db` are a process's row
object and its SQLite row. Objects have identities, since a task may hold one that
the store has replaced. `now` is `int(time.time())`: `updated_at` comparisons are
as coarse as the code's, and `SameSecond` says whether several writes may share a
second. A Redis pipeline is one step.

### ResponsesFlow

*State.* A row has Gemini's context (`meta`) and the norm; `responses` are the saved
bodies, of which the model keeps the key of their row and the norm. An input item is
its author, its client and its number, so that equal items are equal and `ItemsToTurns`
keeps the user's. What the code draws at random (response ids, keys) is named after
the request that draws it.

*Actions.* `Arrive` computes the key whose lock the request awaits: that of its
conversation, of the row behind its `previous_response_id`, or a peek row of its own.
`Enter` resolves it under the lock to turns: the items beyond the longest common
prefix of norm and input. `Refuse` is the 400 when nothing is left. `Pick` drops the
peek row of a stream, `Save` that of a buffered request. `Save` is `_save_state`,
`set_norm` and `save_response`; `Kill` ends the process after the first or the second
of these commits. `RetryFresh` sends the same turns into a new chat.

### StoreCapacity

*State.* `store` holds the rows and aliases of memory (in order of insertion), of SQLite
(by `updated_at`) and of Redis. SQLite is the view of the store's own handle; `safe` is
what is committed, and a kill goes back to it. The contents of a row are no account
(`Fresh`), an account alone (`Pinned`) or an account with the metadata of one answer.
`cl` is what each client has been answered and where its request is (`Stages`).

*Calls.* `GetOrNew`, `Persisted`, `Linked`, `DropIfFresh`, `Synced` are calls of the
store, functions from a store to a store. The assignments a handler makes to the object
it was given are `Assigned`: an object that memory has let go is changed without effect.

*Actions.* One per call of a buffered chat request, in the order of the code: `Arrive`
(`_find_chain_prev`), `Row` (`_chat_turns`), `Lock`, `Enter`, `Pick`, `Pin` and `Clear`
(`_pick_account_for_turns`), `Save` (`get_or_new` and the assignments of `_save_state`),
`Persist`, `Link`; `Fail` drops the row instead. With Redis every call begins with an
await (`_resolve_async`), so anything may happen between two of them: the row a request
has just been given may be evicted before it is persisted. Without Redis only the waits
for a download, the row's lock and Gemini yield (`Busy`, `Runs`). `Elsewhere` is another
process with the same Redis. A response is cached (`resp.mem`), tabled and pushed by
`SaveResponse` and cached again by `GetResponse`.

*Atomicity.* Inside a call the Redis commands are one step, each write has a second of
its own and Redis does not fail: `SessionTiers` has what happens without that.

*History.* `out` are the rows that the capacity pushed out, or `Clear` reset, since an
answer was last written to them, and `missed` those whose `persist` after a turn found no
row to write. A kill, a restart or a drop is no excuse for a lost answer.

### UploadTiers

A file is its id; `mem`, `db` and `shared` are the ids a tier has, in its order. The
part of a call before its first Redis command is one step, then each command is one
(`Push`, `Count`, `Rank`, `Trim` of an upload; `Fetch` and `Remember` of a read; `Erase`;
`Names` and `Fields` of a list), so that calls and processes interleave as they do
between awaits. `log` is history only.

### CiteStream

`Chunk` feeds any continuation of the text, `End` flushes. `Feed` keeps back what may
be the beginning of a marker, of at most `MaxHeld` symbols, as `CiteStripper.feed` does
with `_CITE_MAX_LEN`. `StripCites` is the regular expression applied to the whole text.
The specification is `CiteSpec` (`CiteInit`, `CiteNext`, `CiteTypeOK`), so that
`AccountTurnsProofs` can extend this module and `AccountTurns`.

## The runs

All figures are distinct states. Deadlock checking is off in every run: clients,
boots, turns and tasks are bounded, so every instance comes to rest.

| run | module | shows | states |
|---|---|---|---|
| `ChatChains` | MCChatFlow | chained chats with distinct openings continue their own history and are found again, with failed turns, resume errors, streams and a restart | 248 084 |
| `ChatOneTab` | MCChatFlow | one client, everything that can happen to it: no foreign continuation, rows match their account, fresh chats are fresh | 28 910 |
| `ChatConversation` | MCChatFlow | three buffered clients that share a row, by its id or by equal openings: serial, nothing lost, all end | 105 780 |
| `AccountLocks` | MCAccountTurns | one account, two requests of up to two turns, healer, every event: one turn at a time, locks have owners, files are there, and the whole implements `AccountService` | 788 208 |
| `AccountLiveness` | MCAccountTurns | two accounts under fairness: requests and heals end, no file is left, no client leaks | 238 080 |
| `ResponsesChains` | MCResponsesFlow | chains by conversation, by response id and shared with a chat, with every event: each message once and in order, norms cover what was sent, stored responses are found, no junk row stays | 2 887 025 |
| `CookiePass` | MCCookieSync | two accounts, three logins, two boots, one rotation per login, every event, failed passes too: identity and freshness of cookies, and every profile fills its own block | 3 481 034 |
| `TiersFailures` | MCSessionTiers | three turns in one process, or a turn and a lookup beside a purge in another, with Redis failing and a restart: turns continue the last persisted answer, memory is in SQLite, creation replaces nothing | 136 158 |
| `StoreCapacity` | MCStoreCapacity | two rows and four aliases, with and without Redis, three clients whose calls interleave, another process, a restart: tiers in step, answers kept until pushed out, chains found | 427 297 |
| `UploadTiers` | MCUploadTiers | three files for a capacity of two, two processes, Redis failing, a restart: uploads survive, evicted and deleted ones do not come back | 804 153 |
| `CiteStream` | MCCiteStream | every text of up to seven symbols in every division: the stream is the final text | 671 874 |
| `CookieHang` | MCCookieSync | violation, see below | |

Each module has a type invariant `TypeOK` (`CiteTypeOK`); it can be added to any run of the module
and holds there. Those of `AccountTurns`, `ResponsesFlow` and `UploadTiers` are proved.

**Why the bounds are enough.** *Two accounts, two or three clients*: a foreign
continuation needs two accounts; a lost lock or a stolen row needs a holder, a
waiter and a newcomer, hence the third client of `ChatConversation`.
*Requests per client 2 or 3*: an opening, a
continuation, and one after that. *Restarts 1 or 2*: one to shrink or grow the
pool and one to come back. *Turns 2, files 1 per turn, clients N+1*: the file of a
later turn while an earlier one runs, and one swap per slot. *Strikes 1* is the
cooldown threshold: all states of `pick`'s two passes occur. *Rotations 1,
boots 2*: one value that can be lost and one boot that can find it lost; more
values repeat the order. *Three tasks*: reader, writer and remover of one row, or
a row's creator and two that continue it.
`AccountLocks` has one slot because slots share nothing but `rr`; `AccountLiveness`
has two so that the choice matters. *Capacity 2* is the least at which the oldest and
the newest differ; *five turns* fill rows and aliases
(2 and 4) and go one beyond, *four turns with Redis* evict a row under a turn (with five
of each the run passes with 2.5 million states, with six and four with 1.35 million); *three
files, five calls* are an eviction, a deletion and a read across it. *Text 7, held 4*: a
marker of five symbols with its blank, a partial one behind it, and a marker one symbol
longer than is held back; the alphabet has one member of each class the expression
tells apart. The scenes of `ResponsesChains` pair each way of chaining with another.

**Fairness.** `ChatFlow!FairSpec` assumes weak fairness of each request's own next
step: asyncio runs every ready task, `asyncio.Lock` is FIFO, and the step guard
(`_STEP_GUARD`, `_guarded`) ends a turn Gemini does not answer.
`AccountTurns!FairSpec` assumes the same of requests and of the healer, whose
client initialisation has a timeout. `CookieSync!FairSpec` assumes that the loop
and the shutdown go on whenever they can. Nothing is assumed of clients, Google,
Chrome or the user. Streams are left out of liveness: the code yields each delta
under the account lock, and nothing bounds a reader that stops reading.

**What a property needs to be true.** The passing runs state their conditions
openly, and the configurations below show what happens without them.
`ContextIsOwnHistory` and `AnsweredChatsResume` need openings that differ and
transcripts sent once; `FreshStartsFresh` and `NoForeignContinuation` need one client;
`RowsMatchTheirAccount` needs slots that keep their accounts and, with several
clients, requests without uploads. `RunnersSerialized` needs first turns
that do not fail, `NoLostTurn` buffered answers too. `FilesPresent` speaks of first attempts,
`NoFileLeft` of requests of one turn. `RotationsKept` sets aside the time from a pass of
Chrome that wrote to the file to the next live pass over all clients, however long a
kill, an exception or an unreadable jar puts that off: meanwhile the file may hold
Chrome's older value. `AnswersAreKept` and `ChainsResume` set aside rows that the capacity
pushed out of memory and of Redis and, with Redis, answers whose `persist` found no row
(`CapacityLimits`) or which a turn with an evicted row has reset (`Clear`); `SlotsKeepTheirAccount` needs a login in every
block, `RotationsKept` and `RefreshIsPositional` one block for each account besides. `TurnsContinue` needs one process, `AnswersReachSQLite` no lookup, and both
writes in different seconds; `CreationKeepsRows` needs one turn at a time, or turns of the
process that knows the conversation. In `ResponsesFlow` each property names the events after which it says
nothing (the history variable `past`); that two clients share a conversation only by
sending what is new is a choice of the scenes. `SharedKeepsNewest` needs trims that
meet no other write, `DeletedIsGone` deletions that meet no other call. `TiersInStep`
is about the store without Redis, and `StreamIsFinalText` about markers of at
most `MaxHeld` symbols before the bracket.

The conditions of a run also say which hazards it does not reach. Openings are distinct in
`ChatChains`, so a row that an equal transcript moves is only in `ChatEqualOpenings`;
first turns do not fail in `ChatConversation`, so the dropped lock is only in `ChatShared`;
`ResponsesChains` has no shortened histories, and the deletions and trims of `UploadTiers`
that overlap another call are only in `UploadOverlaps`. The `note` of a hazard says so.

## Disagreements

One violation run is kept as a finding.

`CookieHang`: `lifespan` cancels the cookie loop and awaits it. When the cancellation
arrives in `fresh.init`, `build_replacement` takes it for a failed init
(`accounts.py:333`) and returns `None`; the loop sleeps again, and the shutdown never ends.

Further disagreements were met while modelling: places where the code does not
do what a doc, a comment or a docstring of the repository says, or what the passing
runs have to set aside. Each configuration below lists the properties it violates.
TLC stops at the first violation it meets; to see another, leave only its name in
the configuration.

| configuration | property | what happens | where |
|---|---|---|---|
| `ChatEqualOpenings` | ContextIsOwnHistory | strangers whose chats open alike and got the same answer continue one Gemini chat | `server.py:911`, cf. the comment at 1017 |
| | FreshStartsFresh | of two equal openings sent together the second continues the chat of the first | `server.py:1020`, 1039, cf. `README.md:84` |
| `ChatForeign` | NoForeignContinuation | the continuation read before the lock goes to the account the row has after it | `server.py:1073`, cf. 1063 |
| `ChatShared` | NoLostTurn | two streams of a conversation run at once, one is lost | `server.py:1375`, cf. `conversations.py:525` |
| | RunnersSerialized | a failed first turn drops the row and its lock; old waiter and newcomer both run | `conversations.py:412` |
| `ChatUploadRepin` | RowsMatchTheirAccount | a turn with files moves to another account with the old metadata | `server.py:1095`, cf. 1036 |
| `ChatJarRemoved` | NoForeignContinuation | a removed jar shifts the slots of the others, pins still name valid slots | `server.py:1040`, cf. 1035 |
| `ChatResend` | ContextIsOwnHistory | a chain sent again puts its message on top of its own answer | `server.py:1007` |
| | | a streamed answer is read but never saved: a prefix two messages shorter matches, only the last message is sent | `server.py:1010`, cf. 976 |
| `AccountRetried` | TurnsUseCurrentClient | a turn that waited during a swap runs on the replaced client | `server.py:640`, cf. `accounts.py:346` |
| | ReplacedStayClosed | and opens the client the swap has closed | `server.py:640`, 595 |
| | RetryFindsFiles | the retry sends files the first attempt has removed | `server.py:674`, cf. `README.md:56` |
| | NoFileLeft | a failure in the first turn leaves the files of the second | `server.py:647`, cf. `README.md:74` |
| | NothingStreamedTwice | a stream that fails after a delta is retried and repeats it | `server.py:793` |
| `ResponsesShared` | NothingTwice | two clients send whole histories of one conversation, or a chat goes on in it: the norm is that of another request, and messages are sent again | `server.py:1516` |
| `ResponsesOlder` | ContextIsHistory | an earlier response is continued again: its row has moved on, so the fork continues the other branch | `server.py:1510`, cf. `README.md:44` |
| | FullInputIsContext | a purged row takes the context, the norm of the response still cuts the input | `server.py:1516` |
| `ResponsesRepeat` | NewMessagesPass | a message equal to the one before it is cut as known: 400 | `server.py:1516` |
| | ContextIsHistory | the conversation id of a reply that has none is its internal key, which leads to another row when it is sent back | `server.py:1912` |
| `ResponsesTroubled` | NormAlwaysSent | after a resume error the new chat lacks what the norm says it has | `server.py:674`, cf. `README.md:56` |
| | NoneRefused | a request sent again because its reply was lost has nothing new: 400 | `server.py:1510` |
| | NeverTwice | a kill between metadata and norm, and the message is sent again | `server.py:1869` |
| `CookieOverwritten` | RotationsAlwaysWin | a kill between the two passes, or a live pass that is skipped, leaves older cookies in the file | `server.py:2213`, 2233, `accounts.py:258`, cf. `README.md:62` |
| | FileFollowsChrome | the jar of a degraded client overwrites Chrome's newer one | `server.py:2226`, cf. 305 |
| `CookieBlocks` | SlotsKeepTheirAccount | a block without login shifts slots against profiles | `server.py:2261`, cf. `README.md:61` |
| | RefreshIsPositional | of two equal blocks the first takes the second's profile | `chrome_cookies.py:277`, cf. 232 |
| `TiersOneSecond` | TurnsContinue | a push fails, and the next read in that second takes the older hash | `conversations.py:277`, cf. `README.md:52` |
| | AnswersOutliveLookups | a lookup during `persist` restores the old metadata, which is then written | `conversations.py:277`, cf. `store.py:6` |
| `TiersKilled` | ReplicasAgree | a kill between SQLite and Redis leaves Redis behind | `conversations.py:498` |
| `TiersTwoProcesses` | ReplicasAgree | the older of two pushes arrives last and stays | `conversations.py:219`, cf. `README.md:51` |
| | CreationKeepsRows | two creators in two processes, or a creator whose push is overtaken by a whole turn of its own process: the slower empties the other's row | `conversations.py:207`, 354, cf. 205 |
| | PurgeKeepsUpdates | the plain delete after the compare-and-delete removes a newer row | `conversations.py:480`, cf. 438 |
| | DropsStayDropped | a purged row comes back from SQLite | `conversations.py:250`, cf. 234 |
| `TiersRedisDown` | HistoryStays | an empty row created during an outage is pinned and pushed over the real one | `server.py:1048` |
| | PurgeEnds | a Redis error in `drop_if` fails the boot | `conversations.py:457`, cf. `README.md:52` |
| `CapacityLimits` | SavesAreRecorded | with Redis `persist` awaits `alias_get` first (`conversations.py:155`, from 485); a row that another request evicts meanwhile is not written (488), the alias is linked, the answer delivered, and the next request begins anew or continues the answer before | `conversations.py:488`, cf. `server.py:1107` |
| | BusyRowsStay | the row inserted first is evicted although a turn runs in it and others wait for its lock | `conversations.py:92`, cf. 576 |
| | WritesCommitted | evictions on a lookup leave the transaction, and SQLite's write lock, open | `conversations.py:163`, cf. `store.py:6` |
| | RowsBounded | SQLite keeps rows that memory has let go, a boot loads all of them | `conversations.py:219`, 114 |
| `UploadOverlaps` | DeletesStick | a read under way remembers a file that is deleted meanwhile | `content.py:487` |
| | DeletedEverywhere | other processes keep serving a deleted file from their own tiers | `content.py:487`, cf. `README.md:51` |
| | KeepsNewest | two processes trim the surplus the other is trimming | `redis_store.py:175` |
| `CiteLongMarker` | StreamIsAlwaysFinalText | a marker longer than `_CITE_MAX_LEN`, split over chunks, is streamed | `server.py:871`, cf. 860 |

## The proofs

Each theorem holds for every value of the constants: any number of clients, accounts,
processes, requests, restarts, files, and any capacity. A property `P` is stated as
`Spec => []P` (`CiteSpec => []P`), an action property or the refinement as `Spec => P`.
The proofs about `CiteStream`, the text that a streamed turn delivers, stand at the end
of `AccountTurnsProofs`.

| module | theorem | property | hypotheses beyond the module's assumptions |
|---|---|---|---|
| `AccountTurnsProofs` | `TypeCorrect` | `TypeOK` | |
| | `AccountMutex` | `OneTurnPerAccount` | |
| | `SwapMutex` | `SwapUnderLock` (action) | |
| | `NoClientLeaks` | `ClientsAccounted` | |
| | `LocksOwned` | `LocksHaveOwners` | |
| | `FilesFound` | `FilesPresent` | |
| | `FilesRemoved` | `NoFileLeft` | `OneTurnEach` |
| | `ServiceImplemented` | `ServesInOrder` (refinement) | |
| | `StreamsAreFinal` | `StreamIsFinalText` | |
| `ChatFlowProofs` | `RowsStayMatched` | `RowsMatchTheirAccount` | `NoUploads`, `SlotsStay` |
| | `RunnersTakeTurns` | `RunnersSerialized` | `NothingFails` |
| | `TurnsAreKept` | `NoLostTurn` (action) | `NothingFails`, `Buffered`, no resume errors |
| | `FreshChatsAreFresh` | `FreshStartsFresh` | `Apart` |
| | `ChatsStayHome` | `NoForeignContinuation`, `RowsMatchTheirAccount` | `Apart`, `SlotsStay` |
| | `ChainsAreOwn` | `ContextIsOwnHistory` | `Apart`, `SentOnce` |
| | `AnswersAreFound` | `AnsweredChatsResume` | `Apart`, `SentOnce`, `SlotsSame`, no account degrades |
| `ResponsesFlowProofs` | `ResponseTypes` | `TypeOK` | |
| | `JunkRemoved` | `NoJunkRows` | |
| | `NewMessagesHeard` | `NewMessagesPass` | `Straight` |
| | `HistoryIsContext` | `ContextIsHistory` | `Straight`, `Plain`, `ChatsShared` |
| | `ResponsesContinue` | `ResponsesResume` | `Straight`, `Plain`, `ChatsShared` |
| | `NormsAreSent` | `NormWasSent` | `Straight`, `Plain`, `StreamsAlone` |
| | `ConversationsOnlyGrow` | `ConversationsGrow` (action) | `Straight`, `Plain`, `StreamsAlone` |
| | `MessagesOnce` | `NothingTwice` | `Straight`, `Plain`, `HistoriesAlone` |
| `SessionTiersProofs` | `RowsWrittenThrough` | `WrittenThrough` | |
| | `NextTurnContinues` | `TurnsContinue` | `~SameSecond`, scenes are `Conversation`s |
| | `AnswersPersisted` | `AnswersReachSQLite` (action) | `~SameSecond`, scenes are `Conversation`s |
| | `CreationsKeepHistory` | `CreationKeepsRows` (action) | each scene is `OneTurn`, or a `Conversation` with `~SameSecond` |
| `CookieSyncProofs` | `SlotsKeepAccounts` | `SlotsKeepTheirAccount` | `Matched` |
| | `BlocksKeepAccounts` | `BlocksKeepTheirAccount` (action) | `Matched` |
| | `RotationsStay` | `RotationsKept` | `Matched`, `Distinct` |
| | `RefreshFillsBlocks` | `RefreshIsPositional` (action) | `Matched`, `Distinct` |
| `StoreCapacityProofs` | `TiersTogether` | `TiersInStep` | |
| | `AnswersStored` | `AnswersAreKept` | |
| | `ChainsFound` | `ChainsResume` | |
| | `ResponsesStored` | `ResponsesKept` | |
| `UploadTiersProofs` | `UploadTypes` | `TypeOK` | |
| | `EvictedForgotten` | `EvictedIsForgotten` | |
| | `UploadsKept` | `UploadsSurvive` | |
| | `DeletionsFinal` | `DeletedIsGone` | |
| | `NewestShared` | `SharedKeepsNewest` | |

### Assumptions and hypotheses

The assumptions of a module (its `ASSUME`) are sizes that are numbers, modes that are
Booleans, sets of names that are disjoint; TLC evaluates them in every run.

A hypothesis of a theorem says which clients and events it is about. The third
column names a configuration outside it in which a property breaks, or says that
the code means it to. A hypothesis that several theorems share may be more than one of
them needs.

| hypothesis | says | without it |
|---|---|---|
| `OneTurnEach` | requests of one turn, none cancelled | `AccountRetried` |
| `NoUploads` | requests without files, which may move a row to another account | `ChatUploadRepin` |
| `SlotsStay` | a slot of two versions of `accounts.txt` is one account | `ChatJarRemoved` |
| `NothingFails` | no turn fails, and `NoUploads` (an upload may fail for want of an account): a failed first turn drops the row with its lock | `ChatShared` |
| `Buffered` | no streams, which run behind the lock | `ChatShared` |
| no resume errors | no turn is sent anew without its context | by intent: the retry replaces the chat |
| `Apart` | clients chain by prefix, and no two open with the same message | `ChatEqualOpenings`, `ChatForeign` |
| `SentOnce` | no request is sent again, and no stream is left before it is saved | `ChatResend` |
| `SlotsSame`, no account degrades | every account stays: else the boot purges the row, as it should | by intent |
| `Straight` | no older response is continued, no message repeated | `ResponsesOlder`, `ResponsesRepeat` |
| `Plain` | each client keeps to one API, and sends no conversation id back that it has not made | `ResponsesRepeat`, `ResponsesShared` |
| `ChatsShared` | a chat's row that is purged is not one client's alone: the chat would go on with its user's messages | by intent (`_chat_turns` sends those) |
| `StreamsAlone` | a stream shares its conversation with nobody | as `ChatShared` |
| `HistoriesAlone` | a client that sends whole histories shares its conversation with nobody | `ResponsesShared` |
| `~SameSecond` | two writes of a row are in different seconds | `TiersOneSecond` |
| `Conversation` | turns of one process, which has the row at first | `TiersTwoProcesses`, `TiersRedisDown` |
| `OneTurn` | one turn, in any process, beside any lookups and purges | `TiersTwoProcesses` |
| `Matched` | every block has a login, and profile i is of the account of block i | `CookieBlocks` |
| `Distinct` | no two blocks are of one account | `CookieBlocks`; for `RotationsKept` see below |

The passing runs satisfy them: `ChatChains` those of `ChainsAreOwn` and
`AnswersAreFound`, `ChatConversation` those of `TurnsAreKept`, the scenes of
`ResponsesChains` those of all theorems about `ResponsesFlow`, `CookiePass` those about
`CookieSync`. Two blocks of one account lose rotations: with `Profiles <- SameProfiles`,
`Files <- SameBlocks`, logins `a1` and `a2` and no property but `RotationsKept` `CookiePass`
shows a heal that moves a login to the other slot, so that it stands in two blocks. Some runs go beyond the
theorems: `ChatOneTab` has one client to whom happens what `SentOnce` excludes, and in the
first scene of `TiersFailures` a lookup and another process's purge stand beside the turn.

### Arguments

**Queues and tiers.** What a deletion, an eviction or a cancelled wait leaves of a
sequence is written `Among(s, keep)`, a recursive function, whose lemmas in
`SubsequencesProofs` (`AmongRange`, `AmongInjective`, `AmongOrder`, `AmongLast`) are
proved by `Induction`: a set of numbers that holds 0 and the successor of each member
is all of them. `Joined`, `PrefixIs` and `EndIs` say by elements what `\o`, `IsPrefix`
and `IsSuffix` say; `LineJoined`, `LineLeft` and `LineFirst` are about the line of the
row locks, in which a client stands once.

**AccountTurns.** `TypeOK` is not inductive: it does not say that a queued request has
captured a client and has a current turn, nor that a replacement under way exists.
`TypeInv` adds both; `InitType` and `NextType` show it inductive, with one step per
action in `RequestType` and `HealType`. `OneTurnPerAccount` follows from
`LockInv == TypeInv /\ TurnsHoldLocks`: a request in its turn *is* the holder of its
slot's lock. The healer holds no lock across a step, so it is enough that no step takes
a lock from its holder (`RequestLocks`, `HealLeavesLocks`). `SwapMutex` is the action
property of the same invariant. `ClientsAccounted` is inductive once `NothingInHand`
says that the healer has a client only while it builds or waits (`ClientInv`).
`LocksHaveOwners` needs that a task that leaves a queue does not stand there a second
time: `OwnInv == LockInv /\ Owners`. `FilesPresent` speaks of the turn under way;
`FilesInv` speaks of the turns still to come (`FilesAhead`) and, for requests of one
turn, of those that are over (`FilesBehind`).

`ServiceImplemented` rests on `OwnInv` and `ClientInv`. The requests in their turn are
exactly the holders (`RunningIsServed`), so a step is judged by what it does to
`holder`, `waiters` and `client`: taking a free lock is `Enter`, queueing is `Queue`,
being woken `Serve`, a retry `Again`, a cancelled wait `Quit`, and the healer's swap or
discard is `Maintain`. That a swap brings a session no account has needs `ClientInv`:
the client in the healer's hand is nobody's.

**ChatFlow: locks.** `Keyed` is what everything else rests on: a row is named
after a transcript that ends with the user (or an id), an alias after one that ends with
an answer, so no key is both, and an alias leads to its row in one hop; requests are
what their transcript says. `InLine` adds that whoever waits for a row stands in `line`
with the lock that row has *now*, and is first there once past it. A row that stays
keeps its lock, and with `NothingFails` rows go only at a boot, which ends all requests:
two runners of one row stand first for one lock, so are one (`OneAtATime`). `InTurn` adds
that what a buffered request believes past the lock is what its row has, since nobody
else may write it; so `Save` extends it.

**ChatFlow: accounts.** `RowsMatchTheirAccount` is silent about a row whose slot is
gone, though a later boot may bring the slot back. `PinInv` is not: a row with a
continuation has a slot of the pool, and it is the minter's. The purge of the boot
establishes that (`RestartPins`); a running request has a slot, so `Save` keeps it
(`TurnPins`); a row whose pin is invalid has nothing to continue, so `PickFresh` may pin
it anew (`PickPins`); a chained request copies pin and continuation from one row
(`ArrivePins`). With uploads that fails for a row that several clients use. For clients
that are `Apart` it does not: by `AtHome` what a request has found in its row is still
there when its turn begins, though nothing holds the row before the lock is joined, for
no other client's transcript can name that row. `AllFit` then says of rows and running
turns alike that their chat is that of their slot; the chat an upload moves is new.

**ChatFlow: histories.** `ToldWell` relates each row to its client's transcript: the row
named after what the client asked holds the end of that (a failed or unread turn), or,
once the answer has been read, the end of what the client has read (`RowTold`);
an alias is a transcript it has read, and leads to the row of the request before. So the
longest known prefix is a row that holds the end of that prefix. A row under a longer name
than the transcript may be left from a turn that failed; the next request of the client
extends the same transcript, and finds it fresh or as it was copied. `Linked` adds, as
long as no boot purges, that the last answer read has its alias.

**ResponsesFlow.** `Claimed`: a row without a history belongs to a request under way, as
the row it has waited for or the one it goes to. `Told` and `NormsHeard`: transcripts alternate, and norms hold
only messages of answered requests, so a new message is never taken for a known one.
`Sorted` says whose rows and responses they are: those of a named conversation, or of
the requests of one client (`Belongs`). On it rest three invariants. `AllChained`: while
nothing was lost (`Calm`), the row of a client alone in its conversation holds the very
history the client has seen, its norm that history without the reply (`Fronted`), and
what a request takes from the row and what it sends are together its messages. `Grows`,
with the line of the locks (`Serial`): a running turn has what its row has, and every user
message a norm names is in the row. `Once`: no text of a row, nor of a turn that runs on
it, holds a message twice or one that a request behind the lock is about to send.

**SessionTiers.** `Typed` says which coroutines may still write to an object that memory
has replaced, and that between the assignment and the commit such a coroutine is about to
write (`Settled`): so memory without writers is in SQLite. `Chat(p)` is the conversation of
one process: SQLite and memory have the last persisted answer, Redis, and whatever is on
its way there or back, has an older row or the same (`NoNewer`), so that no refresh can
replace it; one turn at a time is past the lock (`Turn` lists what each stage knows).
`Alone`: with one turn in all processes nobody but that turn writes a row to Redis, so the row
it found absent is absent when it pushes the one it created (`AloneKept`).

**StoreCapacity.** Everything is stated of a store `s`, or of a store and what a call makes
of it, so that calls can be composed. `Sound(s)`: the tables have no duplicates and, without
Redis, memory equals SQLite with nothing uncommitted; `Made` says that a call keeps that.
For the answers, a call is judged by what it does to the rows it is not about (`Spared`:
a row keeps its answer unless it goes out of memory and Redis, and then it is in `out`), to
the row it is about (`Keeps`), and to the row under an assignment (`Guards`, `OwnCall`).
The conversation's row needs more than the rows of a chain, which are written once:
`Loyal` says that memory has an answer whenever Redis has one, `EqualTiers` that SQLite,
where `get_or_new` may find the row again, agrees with Redis. `Stored` collects that with
the numbering of the answers (`Counted`) and with `Recorded`: without Redis no request is
between two calls while another runs, so no persist misses its row. One lemma per action
shows `Stored` inductive; `AnswersAreKept` and `ChainsResume` are consequences of it in
each state (`StoredKept`, `StoredResumes`). `SavesKept` says that the table of responses has
every saved one until it is full.

**UploadTiers.** `Typed` has what each call under way knows. `EvictedIsForgotten` is
inductive on it. `Survivors` counts: a row has at least as many uploads after it as there
are rows after it (`Places`), so an eviction never meets one of the last `Cap`.
`Deletions` says that a delete without overlap has cleared its process, and that calls on
a file that is gone only look or delete. `Counted` says that a trim that met no other
write has counted and ranked what Redis has now.

**CookieSync.** `Aligned` says which account everything is of: blocks and profiles at
one place agree, a slot is of the account of its block, and so is the client in the
healer's hand. Boot keeps it because no block is skipped (`BootsEach`); `Synced` because
it matches by login (`SyncedKeeps`); `Refreshed` because the first block equal to the one
meant lies beside a profile of the same account (`RefreshedKeeps`). With one block for
each account (`Single`) equal blocks are the same block, so after i profiles exactly the
first i blocks are filled (`PassedAt`). `RotationsKept` then needs to know where a newer
value can come from. `Bounded`: no jar is past the last rotation of its login.
`ChromeKept`: what a pass of Chrome may put over a block, without the live pass putting
the client's jar back, is not behind what was saved. `FileKept`: a block that is behind has
the login of its client, so a live pass that reads this client repairs it, and none is
behind once all clients have been read since Chrome last wrote. A live pass may read any
clients (`SyncedAt`, `KeptSync`): what it leaves out it neither repairs nor promises.

**CiteStream.** What `StripCites` makes of a text is told symbol by symbol from the right
(`Stripped`), by `Backwards`: what holds of a place when it holds of every place behind it
holds of all. So a text that no match crosses at n (`Apart`) is stripped part by part
(`StripParts`). What `feed` lets go is such a part: an opened marker is held back unless
it has outgrown the limit, and a blank before a bracket with it, so no match crosses the
cut, however the text goes on (`CutApart`). The invariant `Cited` speaks of the text
let go, `out`: `Uncut` says that `out` and what is held back are the text, that what was
streamed is `out` stripped, and that nothing yet to come makes a match across its end.
`End` lets the rest go, and the two parts stripped are the whole stripped.

### Only model-checked

Liveness (`EveryRequestEnds`, `HealEnds`, and `CookieHang`) is out of the proof system's
reach. Every invariant and action property of a passing run is a theorem. The variables of
`ChatFlow`, `SessionTiers` and `StoreCapacity` are typed by `Keyed`, `Typed` and `Sound` as
far as the proofs need it; their `TypeOK` is not a theorem of its own.

## Not modelled

- **Image generation and re-hosting**: one request and one upload without state of
  their own; the turn is that of `AccountTurns`.
- **Configuration, models, Redis health and statistics**: constants, a mapping of
  names, figures.
- **Conversion of messages**, downloads, transcoding, key derivation and AES of
  Chrome's cookies: functions of text or bytes, or library and process I/O.
- **Events of a Responses stream**, tools, instructions and the wording of items;
  attachments of Responses requests.
- Known effects the models abstract: a cooled account with a healthy peer is not
  picked again until a success or a swap forgives it; upload capability is asked
  before the account's lock is awaited; a failed chained turn leaves its row with
  the metadata copied from its prefix.
- Known effects outside the models: `_fingerprint` joins the parts of a prefix with a
  separator they may contain and truncates the digest, while `ChatFlow!Fingerprint` is
  one-to-one; a shutdown that cancels the healer while it waits for an account's lock
  (`server.py:2295`) leaves the replacement client unclosed (`AccountTurns` has no
  shutdown, `CookieSync` no clients to close); a `ValueError` inside a Responses stream
  is not caught by the generator, so the fresh row stays (`NoJunkRows` speaks of
  failures that are caught).
- In `StoreCapacity` requests are buffered, and no Redis command fails or is overtaken
  within one call. A request whose own row, with the continuation it has copied, is
  evicted before it picks an account starts a new chat with its last message alone
  (`server.py:1076`, also without Redis while it waits for a download); with Redis it also
  clears the answer of a request that has made the row anew meanwhile (1078). The model has
  both (`Clear`); no property forbids the first, and `AnswersAreKept` and `ChainsResume`
  set the second aside.

## Plan

*Done*: the nine modules, the refinement of `AccountService`, and the theorems above.

*Left*, in the order of what they would add:

1. An abstract conversation (a log of turns), implemented by the buffered,
   single-id part of `ChatFlow` and by `ResponsesFlow`.
2. Redis in `ResponsesFlow`: response bodies and norms of several processes.
