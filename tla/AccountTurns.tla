----------------------------- MODULE AccountTurns -----------------------------
(***************************************************************************)
(* What happens below a conversation: AccountPool (accounts.py) chooses a  *)
(* slot, _run_turns and _run_turns_stream (server.py) send the turns of a  *)
(* request through the slot's GeminiClient under the slot's lock, and      *)
(* _heal_degraded_accounts replaces the client of a degraded slot.         *)
(*                                                                         *)
(* A client object is a number: the slots start with clients 1..N and each *)
(* replacement is the next one.  A request is a list of turns, some with   *)
(* staged upload files.  An asyncio.Lock is a holder and a FIFO of         *)
(* waiters; a free lock without waiters is taken at once.                  *)
(***************************************************************************)
EXTENDS Naturals, Sequences, FiniteSets, SequencesExt

CONSTANTS
  N,            \* number of pool slots
  Requests,     \* request tasks, each serving one request after another
  Healer,       \* the task that runs _heal_degraded_accounts
  NoTask,       \* holder of a free lock
  COOLDOWN_STRIKES,
  MaxTurns,     \* bound: turns of one request
  MaxUploads,   \* bound: turns of a request that carry files
  MaxServed,    \* bound: requests a task serves
  MaxClients,   \* bound: client objects ever built
  MaxStrikes,   \* bound: strikes the model counts, the code's int has none
  Streaming,    \* values of "stream", a subset of BOOLEAN
  Resuming,     \* whether requests resume a continuation, a subset of BOOLEAN
  Events        \* which of "error", "resume", "stall", "cancel", "degrade"
                \* may happen

Slots == 1..N

ASSUME SizesAssumption ==
  /\ N \in Nat \ {0}
  /\ MaxTurns \in Nat \ {0} /\ MaxUploads \in Nat /\ MaxServed \in Nat
  /\ MaxClients \in Nat /\ MaxClients >= N
  /\ COOLDOWN_STRIKES \in Nat /\ MaxStrikes \in Nat /\ COOLDOWN_STRIKES <= MaxStrikes

ASSUME ModesAssumption == Streaming \subseteq BOOLEAN /\ Resuming \subseteq BOOLEAN

ASSUME TasksAssumption == Healer \notin Requests /\ NoTask \notin Requests \cup {Healer}

VARIABLES
  client,       \* _Entry.client of each slot
  failures,     \* _Entry.failures of each slot
  holder,       \* who holds _Entry.lock
  waiters,      \* who waits for _Entry.lock, oldest first
  rr,           \* slot the next round-robin probe looks at
  up,           \* clients whose account_status is AVAILABLE
  open,         \* clients that are initialised and not closed
  retired,      \* clients that were replaced or found unusable
  closing,      \* retired clients whose close() has not run yet
  made,         \* number of clients built so far
  req,          \* what each request task is doing
  heal          \* what the healer is doing

vars == <<client, failures, holder, waiters, rr, up, open, retired, closing,
          made, req, heal>>

locks == <<holder, waiters>>
clients == <<client, up, open, retired, closing, made>>

-----------------------------------------------------------------------------
(* asyncio.Lock *)

\* Faulty: the lock is taken from a holder nobody waits for
Unwaited(s) == waiters[s] = <<>>

\* Whoever asks for the lock now gets it without waiting
Free(s) == holder[s] = NoTask /\ waiters[s] = <<>>

\* The lock is free and the event loop runs the waiter the release has woken
Woken(who, s) == holder[s] = NoTask /\ waiters[s] # <<>> /\ Head(waiters[s]) = who

Take(who, s) == holder' = [holder EXCEPT ![s] = who]

\* Faulty: the lock stays with a task that is done
NeverRelease(s) == UNCHANGED locks

Release(s) == Take(NoTask, s) /\ UNCHANGED waiters

\* Faulty: the newest waiter stands first
WaitFirst(who, s) == waiters' = [waiters EXCEPT ![s] = <<who>> \o @]

Wait(who, s) == waiters' = [waiters EXCEPT ![s] = Append(@, who)]

Dequeue(s) == waiters' = [waiters EXCEPT ![s] = Tail(@)]

\* A cancelled waiter leaves the queue, where it stands at most once
WithoutWaiter(queue, who) ==
  IF \E i \in DOMAIN queue : queue[i] = who
  THEN RemoveAt(queue, CHOOSE i \in DOMAIN queue : queue[i] = who)
  ELSE queue

\* Faulty: a cancelled holder keeps the lock
LeaveQueue(who, s) ==
  UNCHANGED holder /\ waiters' = [waiters EXCEPT ![s] = WithoutWaiter(@, who)]

\* and a cancelled holder frees the lock
Leave(who, s) ==
  /\ holder' = [holder EXCEPT ![s] = IF @ = who THEN NoTask ELSE @]
  /\ waiters' = [waiters EXCEPT ![s] = WithoutWaiter(@, who)]

-----------------------------------------------------------------------------
(* AccountPool *)

\* The slot i probes after the cursor
Probe(i) == ((rr + i - 2) % N) + 1

After(s) == (s % N) + 1

FirstProbe(ok) == CHOOSE i \in 1..N : /\ Probe(i) \in ok
                                      /\ \A j \in 1..N : Probe(j) \in ok => i <= j

Cooled == {s \in Slots : failures[s] >= COOLDOWN_STRIKES}

Available == {s \in Slots : client[s] \in up}

\* pick(): the next slot that is not cooled down; when all are, forgive one
Pick(s) ==
  IF Cooled # Slots
  THEN s = Probe(FirstProbe(Slots \ Cooled)) /\ UNCHANGED failures
  ELSE s = Probe(1) /\ failures' = [failures EXCEPT ![s] = 0]

\* pick_available(), and pick() when it finds none
PickAvailable(s) ==
  LET ok == Available \ Cooled
  IN  IF ok # {} THEN s = Probe(FirstProbe(ok)) /\ UNCHANGED failures ELSE Pick(s)

\* report(): a success forgives all strikes
Reported(s, ok) ==
  failures' = [failures EXCEPT ![s] =
                 IF ok THEN 0 ELSE IF @ < MaxStrikes THEN @ + 1 ELSE @]

-----------------------------------------------------------------------------
(* Requests *)

NoRequest(served) ==
  [pc |-> "idle", served |-> served, slot |-> 1, client |-> 0, turns |-> 0,
   uploads |-> {}, staged |-> {}, part |-> 0, resume |-> FALSE, stream |-> FALSE,
   retried |-> FALSE, delivered |-> {}]

\* Faulty: cleanup() of one turn removes every file, or none
NoFiles(r) == {}
AllFiles(r) == r.staged

\* The files that remain when UploadFile.cleanup() ran for the turn under way
LeftFiles(r) == r.staged \ {r.part}

Update(t, r) == req' = [req EXCEPT ![t] = r]

Finished(t) == Update(t, NoRequest(req[t].served))

\* Finished, but the files in "left" are still in the upload directory
Abandoned(t, left) == Update(t, [NoRequest(req[t].served) EXCEPT !.staged = left])

\* _pick_account_for_turns: a continuation stays on its slot
Accept(t) ==
  /\ req[t].pc = "idle" /\ req[t].served < MaxServed
  /\ \E n \in 1..MaxTurns, stream \in Streaming, resume \in Resuming, s \in Slots :
       \E uploads \in SUBSET (1..n) :
         /\ Cardinality(uploads) <= MaxUploads
         /\ IF resume THEN UNCHANGED <<rr, failures>>
            ELSE /\ IF uploads = {} THEN Pick(s) ELSE PickAvailable(s)
                 /\ rr' = After(s)
         /\ Update(t, [NoRequest(req[t].served + 1) EXCEPT
                         !.pc = "picked", !.slot = s, !.turns = n,
                         !.stream = stream, !.resume = resume,
                         !.uploads = uploads, !.staged = uploads])
  /\ UNCHANGED <<clients, locks, heal>>

\* client_at and _ensure_upload_capable, both before the lock is asked for
Refused(r) == r.uploads # {} /\ client[r.slot] \notin up

Refuse(t) ==
  /\ req[t].pc = "picked"
  /\ Refused(req[t])
  /\ Finished(t)
  /\ Reported(req[t].slot, FALSE)
  /\ UNCHANGED <<clients, locks, rr, heal>>

\* The client a request will use is captured before it waits for the lock
Captured(r) == [r EXCEPT !.client = client[r.slot], !.part = 1]

Becomes(t, r, pc) == Update(t, [r EXCEPT !.pc = pc])

Begin(t) ==
  LET r == Captured(req[t])
  IN  /\ req[t].pc = "picked"
      /\ ~Refused(r)
      /\ IF Free(r.slot)
         THEN /\ Becomes(t, r, "sending") /\ Take(t, r.slot) /\ UNCHANGED waiters
              /\ open' = open \cup {r.client}
         ELSE Becomes(t, r, "queued") /\ Wait(t, r.slot) /\ UNCHANGED <<holder, open>>
      /\ UNCHANGED <<client, up, retired, closing, made, failures, rr, heal>>

\* The lock is ours: send the first turn; a closed client is initialised again
StartSending(t) ==
  LET r == req[t]
  IN  /\ r.pc = "queued"
      /\ Woken(t, r.slot)
      /\ Becomes(t, r, "sending") /\ Take(t, r.slot) /\ Dequeue(r.slot)
      /\ open' = open \cup {r.client}
      /\ UNCHANGED <<client, up, retired, closing, made, failures, rr, heal>>

LastTurn(r) == r.part = r.turns

\* _send_turn: a turn is answered, its files are removed, the next one starts
NextTurn(t) ==
  LET r == req[t]
  IN  /\ r.pc = "sending"
      /\ ~LastTurn(r)
      /\ Update(t, [r EXCEPT !.part = @ + 1, !.staged = LeftFiles(r)])
      /\ open' = open \cup {r.client}
      /\ UNCHANGED <<client, up, retired, closing, made, failures, locks, rr, heal>>

Attempt(r) == IF r.retried THEN 2 ELSE 1

\* The last turn of a stream yields a delta to the OpenAI client
Delta(t) ==
  LET r == req[t]
  IN  /\ r.pc = "sending" /\ r.stream
      /\ LastTurn(r)
      /\ Update(t, [r EXCEPT !.delivered = @ \cup {Attempt(r)}])
      /\ UNCHANGED <<clients, failures, locks, rr, heal>>

\* The last turn is answered.  A stream keeps the lock while its consumer
\* handles the done event: images, _save_state, the last frames
Complete(t) ==
  LET r == req[t]
  IN  /\ r.pc = "sending"
      /\ LastTurn(r)
      /\ Reported(r.slot, TRUE)
      /\ IF r.stream
         THEN /\ Becomes(t, [r EXCEPT !.staged = LeftFiles(r)], "saving")
              /\ UNCHANGED locks
         ELSE /\ Abandoned(t, LeftFiles(r))
              /\ Release(r.slot)
      /\ UNCHANGED <<clients, rr, heal>>

SaveDone(t) ==
  /\ req[t].pc = "saving"
  /\ Abandoned(t, req[t].staged)
  /\ Release(req[t].slot)
  /\ UNCHANGED <<clients, failures, rr, heal>>

\* _STEP_GUARD expires: _abort_step closes the client of the stalled step
OpenAfter(r, kind) == IF kind = "stall" THEN open \ {r.client} ELSE open

Retryable(r, kind) == r.resume /\ kind \in {"resume", "stall"}

\* A turn fails for good: only the files of the turn under way are removed.
\* The second attempt of a stream reports nothing.
SendFails(t) ==
  LET r == req[t]
  IN  /\ r.pc = "sending"
      /\ \E kind \in Events \cap {"error", "resume", "stall"} :
           /\ ~Retryable(r, kind)
           /\ open' = OpenAfter(r, kind)
           /\ IF r.stream /\ r.retried THEN UNCHANGED failures
              ELSE \E upstream \in {TRUE} \cup (IF kind = "error" THEN {FALSE} ELSE {}) :
                     Reported(r.slot, ~upstream)
      /\ Abandoned(t, LeftFiles(r))
      /\ Release(r.slot)
      /\ UNCHANGED <<client, up, retired, closing, made, rr, heal>>

\* A resume error of a continuation: the same turns again in a new chat, behind
\* those who wait for the account.  _run_turns starts over with the slot's
\* client of now, _run_turns_stream keeps the one it has.
RetryFresh(t) ==
  LET r == req[t]
      left == [r EXCEPT !.resume = FALSE, !.retried = TRUE, !.part = 1,
                        !.staged = LeftFiles(r)]
      again == IF r.stream THEN left ELSE Captured(left)
      refused == ~r.stream /\ Refused(r)
  IN  /\ r.pc = "sending"
      /\ Reported(r.slot, r.stream)
      /\ \E kind \in Events \cap {"resume", "stall"} :
           /\ Retryable(r, kind)
           /\ \/ /\ refused
                 /\ Finished(t) /\ Release(r.slot)
                 /\ open' = OpenAfter(r, kind)
              \/ /\ ~refused /\ waiters[r.slot] = <<>>
                 /\ Becomes(t, again, "sending") /\ UNCHANGED locks
                 /\ open' = OpenAfter(r, kind) \cup {again.client}
              \/ /\ ~refused /\ waiters[r.slot] # <<>>
                 /\ Becomes(t, again, "queued") /\ Take(NoTask, r.slot) /\ Wait(t, r.slot)
                 /\ open' = OpenAfter(r, kind)
      /\ UNCHANGED <<client, up, retired, closing, made, rr, heal>>

\* The OpenAI client of a stream disconnects; a step under way is aborted
Cancel(t) ==
  LET r == req[t]
  IN  /\ "cancel" \in Events
      /\ r.stream /\ r.pc \in {"picked", "queued", "sending", "saving"}
      /\ Leave(t, r.slot)
      /\ Abandoned(t, IF r.pc = "sending" THEN LeftFiles(r) ELSE r.staged)
      /\ \/ r.pc = "sending" /\ open' = open \ {r.client}
         \/ (r.pc = "sending" => Attempt(r) \in r.delivered) /\ UNCHANGED open
      /\ UNCHANGED <<client, up, retired, closing, made, failures, rr, heal>>

-----------------------------------------------------------------------------
(* _heal_degraded_accounts: slot after slot, every _COOKIE_SYNC_INTERVAL *)

Idle == [pc |-> "idle", slot |-> 1, fresh |-> 0]

NextSlot(s) == IF s = N THEN Idle ELSE [pc |-> "scan", slot |-> s + 1, fresh |-> 0]

HealStart ==
  /\ heal.pc = "idle"
  /\ heal' = [Idle EXCEPT !.pc = "scan"]
  /\ UNCHANGED <<clients, failures, locks, rr, req>>

\* The slot is AVAILABLE, or Chrome's jar cannot be read or has no PSID
HealSkip ==
  /\ heal.pc = "scan"
  /\ heal' = NextSlot(heal.slot)
  /\ UNCHANGED <<clients, failures, locks, rr, req>>

\* build_replacement: a client of its own, initialised without the lock
HealBuild ==
  /\ heal.pc = "scan"
  /\ client[heal.slot] \notin up
  /\ made < MaxClients
  /\ made' = made + 1
  /\ open' = open \cup {made + 1}
  /\ heal' = [heal EXCEPT !.pc = "building", !.fresh = made + 1]
  /\ UNCHANGED <<client, up, retired, closing, failures, locks, rr, req>>

\* Faulty: the client of a failed build is forgotten, not closed
HealForgets ==
  /\ heal.pc = "building"
  /\ Reported(heal.slot, FALSE)
  /\ heal' = NextSlot(heal.slot)
  /\ UNCHANGED <<clients, locks, rr, req>>

\* The build failed or is not AVAILABLE: it is closed, the slot gets a strike
HealFails ==
  /\ heal.pc = "building"
  /\ open' = open \ {heal.fresh}
  /\ retired' = retired \cup {heal.fresh}
  /\ Reported(heal.slot, FALSE)
  /\ heal' = NextSlot(heal.slot)
  /\ UNCHANGED <<client, up, closing, made, locks, rr, req>>

\* The build is AVAILABLE but a turn runs on the account: wait for its lock
HealWaits ==
  /\ heal.pc = "building"
  /\ ~Free(heal.slot)
  /\ up' = up \cup {heal.fresh}
  /\ heal' = [heal EXCEPT !.pc = "queued"]
  /\ Wait(Healer, heal.slot)
  /\ UNCHANGED <<client, open, retired, closing, made, failures, holder, rr, req>>

\* Faulty: the healer does not ask for the lock
HealUnlocked ==
  /\ heal.pc = "building" /\ up' = up \cup {heal.fresh} /\ UNCHANGED locks

\* The healer gets the lock: at once, or woken.  It frees it in the same step.
HealLocked ==
  \/ /\ heal.pc = "building" /\ Free(heal.slot)
     /\ up' = up \cup {heal.fresh} /\ UNCHANGED locks
  \/ /\ heal.pc = "queued" /\ Woken(Healer, heal.slot)
     /\ Dequeue(heal.slot) /\ UNCHANGED <<up, holder>>

\* swap_client under the lock; the replaced client closes in the background
HealSwap ==
  LET s == heal.slot
  IN  /\ HealLocked
      /\ client[s] \notin up
      /\ client' = [client EXCEPT ![s] = heal.fresh]
      /\ failures' = [failures EXCEPT ![s] = 0]
      /\ retired' = retired \cup {client[s]}
      /\ closing' = closing \cup {client[s]}
      /\ heal' = NextSlot(s)
      /\ UNCHANGED <<open, made, rr, req>>

\* The slot has recovered meanwhile: the unused client is closed
HealDiscard ==
  /\ HealLocked
  /\ client[heal.slot] \in up
  /\ open' = open \ {heal.fresh}
  /\ retired' = retired \cup {heal.fresh}
  /\ heal' = NextSlot(heal.slot)
  /\ UNCHANGED <<client, closing, made, failures, rr, req>>

CloseReplaced(o) ==
  /\ o \in closing
  /\ open' = open \ {o}
  /\ closing' = closing \ {o}
  /\ UNCHANGED <<client, up, retired, made, failures, locks, rr, req, heal>>

\* Google ends a session; the library finds an expired one valid again
Degrade(s) ==
  /\ "degrade" \in Events
  /\ client[s] \in up
  /\ up' = up \ {client[s]}
  /\ UNCHANGED <<client, open, retired, closing, made, failures, locks, rr, req, heal>>

Recover(s) ==
  /\ "degrade" \in Events
  /\ client[s] \notin up
  /\ up' = up \cup {client[s]}
  /\ UNCHANGED <<client, open, retired, closing, made, failures, locks, rr, req, heal>>

-----------------------------------------------------------------------------
\* init_all: at least one account initialises, the others start cooled down
Init ==
  /\ client = [s \in Slots |-> s]
  /\ \E ok \in SUBSET Slots \ {{}} :
       /\ "degrade" \notin Events => ok = Slots
       /\ up = ok /\ open = ok
       /\ failures = [s \in Slots |-> IF s \in ok THEN 0 ELSE COOLDOWN_STRIKES]
  /\ holder = [s \in Slots |-> NoTask]
  /\ waiters = [s \in Slots |-> <<>>]
  /\ rr = 1
  /\ retired = {} /\ closing = {} /\ made = N
  /\ req = [t \in Requests |-> NoRequest(0)]
  /\ heal = Idle

Step(t) ==
  \/ Refuse(t) \/ Begin(t) \/ StartSending(t) \/ NextTurn(t) \/ Complete(t)
  \/ SaveDone(t) \/ SendFails(t) \/ RetryFresh(t)

Healing == HealSkip \/ HealBuild \/ HealFails \/ HealWaits \/ HealSwap \/ HealDiscard

Next ==
  \/ \E t \in Requests : Accept(t) \/ Step(t) \/ Delta(t) \/ Cancel(t)
  \/ \E s \in Slots : Degrade(s) \/ Recover(s)
  \/ HealStart \/ Healing
  \/ \E o \in closing : CloseReplaced(o)

Spec == Init /\ [][Next]_vars

\* The event loop runs woken tasks, _STEP_GUARD ends every Gemini step and
\* client.init() has a timeout.  Nothing bounds how slowly a stream is read,
\* so these are only claimed for Streaming = {FALSE}.
FairSpec ==
  /\ Spec
  /\ \A t \in Requests : WF_vars(Step(t))
  /\ WF_vars(Healing)

-----------------------------------------------------------------------------
(* Properties *)

RequestRecords ==
  [pc : {"idle", "picked", "queued", "sending", "saving"}, served : 0..MaxServed,
   slot : Slots, client : 0..made, turns : 0..MaxTurns,
   uploads : SUBSET (1..MaxTurns), staged : SUBSET (1..MaxTurns),
   part : 0..MaxTurns, resume : BOOLEAN, stream : BOOLEAN,
   retried : BOOLEAN, delivered : SUBSET {1, 2}]

HealRecords ==
  [pc : {"idle", "scan", "building", "queued"}, slot : Slots, fresh : 0..made]

\* The type of every variable.
TypeOK ==
  /\ made \in N..MaxClients
  /\ client \in [Slots -> 1..made]
  /\ failures \in [Slots -> 0..MaxStrikes]
  /\ holder \in [Slots -> Requests \cup {NoTask}]
  /\ waiters \in [Slots -> Seq(Requests \cup {Healer})]
  /\ rr \in Slots
  /\ up \subseteq 1..made /\ open \subseteq 1..made
  /\ retired \subseteq 1..made /\ closing \subseteq retired
  /\ req \in [Requests -> RequestRecords]
  /\ heal \in HealRecords

InTurn(t) == req[t].pc \in {"sending", "saving"}

\* Two requests never run their turns on one account at the same time, and a
\* turn has its account's lock ("One coroutine holds an account at a time").
OneTurnPerAccount ==
  /\ \A t \in Requests : InTurn(t) => holder[req[t].slot] = t
  /\ \A t, u \in Requests : (InTurn(t) /\ InTurn(u) /\ req[t].slot = req[u].slot) => t = u

\* A client is replaced only while no turn runs on its account
\* (swap_client: callers must hold lock_for(index)).
SwapUnderLock ==
  [][\A s \in Slots : client'[s] # client[s] =>
       \A t \in Requests : req[t].slot = s => ~InTurn(t)]_client

\* Every client ever built is the client of exactly one slot, or the one the
\* healer is about to publish, or has been handed to close(): none leaks.
ClientsAccounted ==
  /\ \A s, z \in Slots : client[s] = client[z] => s = z
  /\ \A s \in Slots : client[s] \notin retired /\ client[s] # heal.fresh
  /\ heal.fresh \notin retired
  /\ \A o \in 1..made :
       o \in retired \/ o = heal.fresh \/ \E s \in Slots : client[s] = o

\* A lock is held only by a request in its turn there, which will release it;
\* what waits for a lock is a request or the healer queued for this slot.
LocksHaveOwners ==
  \A s \in Slots :
    /\ holder[s] # NoTask => req[holder[s]].slot = s /\ InTurn(holder[s])
    /\ \A i \in DOMAIN waiters[s] :
         IF waiters[s][i] = Healer THEN heal.pc = "queued" /\ heal.slot = s
         ELSE req[waiters[s][i]].slot = s /\ req[waiters[s][i]].pc = "queued"

\* Whom each account serves, read off the requests and not off the lock
Running == [s \in Slots |-> {t \in Requests : InTurn(t) /\ req[t].slot = s}]

Service == INSTANCE AccountService
  WITH Accounts <- Slots, Workers <- Requests, Keeper <- Healer,
       Sessions <- 1..MaxClients, running <- Running, line <- waiters, session <- client

\* The locks and turns implement AccountService: an account serves one request
\* at a time, in the order in which they asked, a retry goes behind those who
\* wait, and its client changes only between two turns, to a new one
\* (AccountPool: "One coroutine holds an account at a time").
ServesInOrder == Service!Spec

HasItsFiles(t) ==
  (req[t].pc = "sending" /\ req[t].part \in req[t].uploads) => req[t].part \in req[t].staged

\* A turn that sends files finds them in the upload directory, whatever the
\* turns of the request before it have removed (_send_turn, UploadFile.cleanup).
FilesPresent == \A t \in Requests : ~req[t].retried => HasItsFiles(t)

\* So does a turn that is sent again in a fresh chat (README: "retry once fresh").
RetryFindsFiles == \A t \in Requests : req[t].retried => HasItsFiles(t)

\* When a request is over its staged files are gone (README: "cleaned up
\* after each turn").
NoFileLeft == \A t \in Requests : req[t].pc = "idle" => req[t].staged = {}

\* A turn that gets the lock after a swap talks to the fresh client
\* (swap_client: "later turns see the fresh client").
TurnsUseCurrentClient ==
  \A t \in Requests : InTurn(t) => req[t].client = client[req[t].slot]

\* A client that was replaced and closed stays closed.
ReplacedStayClosed == open \cap (retired \ closing) = {}

\* A stream does not yield the last turn's deltas of two attempts.
NothingStreamedTwice ==
  \A t \in Requests : Cardinality(req[t].delivered) <= 1

\* A buffered request whose account's turns all end is answered in the end,
\* however many wait for that account; so is the healer.
EveryRequestEnds == \A t \in Requests : req[t].pc = "picked" ~> req[t].pc = "idle"

HealEnds == heal.pc = "queued" ~> heal.pc # "queued"

=============================================================================
