------------------------------ MODULE CookieSync ------------------------------
(***************************************************************************)
(* Where the Google cookies are and how they get there: the blocks of      *)
(* accounts.txt, the Chrome profiles, the clients of the pool, and the     *)
(* boot, the sync loop, the heal and the shutdown of server.py that copy   *)
(* between them (refresh_accounts_from_chrome, sync_accounts_file).        *)
(*                                                                         *)
(* A jar is its __Secure-1PSID (a login) and the number of its             *)
(* __Secure-1PSIDTS: every rotation, by a client or by the browser, mints  *)
(* the login's next number.  The functions that read and write the file    *)
(* are synchronous; only sleep() and the init of a replacement client let  *)
(* other tasks run, but the process may be killed anywhere.  AccountTurns  *)
(* models the account locks and the turns the heal runs beside.            *)
(***************************************************************************)
EXTENDS Naturals, Sequences, FiniteSets, Functions, Subsequences

CONSTANTS
  Psids,         \* values of __Secure-1PSID
  NoPsid,        \* a block or a profile without one
  OwnerOf,       \* [Psids -> Google account]
  Profiles,      \* sequence of the Google accounts of the Chrome profiles
  Files,         \* contents accounts.txt may have at first
  Events,        \* which of "kill", "degrade", "login", "error" may happen
  MaxRotations,  \* bound: rotations of one login
  MaxBoots       \* bound: starts of the process

Jars == [psid : Psids \cup {NoPsid}, ts : 0..MaxRotations]

ASSUME JarsAssumption ==
  /\ NoPsid \notin Psids /\ MaxRotations \in Nat /\ MaxBoots \in Nat
  /\ Files \subseteq Seq([psid : Psids \cup {NoPsid}, ts : {0}]) \ {<<>>}
  /\ Profiles \in Seq({OwnerOf[p] : p \in Psids})

VARIABLES
  file,          \* jars of the blocks of accounts.txt
  chrome,        \* jar of each Chrome profile
  newest,        \* last rotation of each login
  client,        \* the pool: login, rotation and AVAILABLE of each slot
  proc,          \* "down", "booting", "serving" or "stopping"
  task,          \* what the boot, then _cookie_sync_loop, does next
  slot,          \* slot the heal looks at
  fresh,         \* jar of the replacement client being initialised
  boots,
  origin,        \* history: the Google account each slot was booted with
  saved,         \* history: last live rotation written for each login
  torn,          \* history: Chrome's values were written, not yet all live ones since
  seen           \* history: what the last refresh took from Chrome

vars == <<file, chrome, newest, client, proc, task, slot, fresh, boots, origin, saved, torn, seen>>

history == <<origin, saved, torn, seen>>

NoJar == [psid |-> NoPsid, ts |-> 0]

-----------------------------------------------------------------------------
(* The two file functions *)

\* Faulty: the block is looked up by its new login
MatchLogin(blocks, old, new) ==
  [i \in DOMAIN blocks |-> IF blocks[i].psid = new.psid THEN new ELSE blocks[i]]

\* new_raw.replace(old, new, 1): the first block with this content
ReplaceFirst(blocks, old, new) ==
  LET at == {i \in DOMAIN blocks : blocks[i] = old}
  IN  IF at = {} THEN blocks
      ELSE [blocks EXCEPT ![CHOOSE i \in at : \A j \in at : i <= j] = new]

\* Blocks and profiles are zipped
Paired == IF Len(file) < Len(Profiles) THEN Len(file) ELSE Len(Profiles)

\* refresh_accounts_from_chrome: the block at i takes what profile i holds, if
\* its store can be read and has a login; each block as it was in the file
Refreshed(readable) ==
  LET after[i \in 0..Paired] ==
        IF i = 0 THEN file
        ELSE IF i \in readable /\ chrome[i] # NoJar /\ chrome[i] # file[i]
        THEN ReplaceFirst(after[i - 1], file[i], chrome[i]) ELSE after[i - 1]
  IN  after[Paired]

\* Faulty: the login is not compared
LastJar(psid, read) ==
  IF read = {} THEN NoJar
  ELSE [psid |-> client[Len(client)].psid, ts |-> client[Len(client)].ts]

\* pool_live_state: the jar of the last client with this login, of those it can read
LiveJar(psid, read) ==
  LET own == {s \in read : client[s].psid = psid}
      s == CHOOSE i \in own : \A j \in own : j <= i
  IN  IF own = {} THEN NoJar ELSE [psid |-> psid, ts |-> client[s].ts]

\* Faulty: the live values do not reach the file
Unsynced(blocks, read) == blocks

\* sync_accounts_file: every block with a live login takes the live values
Synced(blocks, read) ==
  [i \in DOMAIN blocks |->
     IF blocks[i].psid # NoPsid /\ LiveJar(blocks[i].psid, read) # NoJar
     THEN LiveJar(blocks[i].psid, read) ELSE blocks[i]]

\* What a later boot must not fall behind
SavedNow(blocks, read) ==
  [p \in Psids |-> IF \E i \in DOMAIN blocks : blocks[i].psid = p /\ LiveJar(p, read) # NoJar
                   THEN LiveJar(p, read).ts ELSE saved[p]]

-----------------------------------------------------------------------------
(* Boot, loop and shutdown *)

Awaiting == task \in {"sleep", "building", "ended"}

\* load_account_cookies skips blocks without a login; init_all
Boot ==
  LET jars == Among(file, {j \in Range(file) : j.psid # NoPsid})
  IN  /\ proc = "down" /\ boots < MaxBoots
      /\ jars # <<>>
      /\ \E up \in (IF "degrade" \in Events THEN [DOMAIN jars -> BOOLEAN]
                    ELSE {[s \in DOMAIN jars |-> TRUE]}) :
           client' = [s \in DOMAIN jars |->
                        [psid |-> jars[s].psid, ts |-> jars[s].ts, up |-> up[s]]]
      /\ origin' = [s \in DOMAIN jars |-> OwnerOf[jars[s].psid]]
      /\ proc' = "booting" /\ task' = "chrome" /\ boots' = boots + 1
      /\ UNCHANGED <<file, chrome, newest, slot, fresh, saved, torn, seen>>

\* A refresh that raises, or cannot write, leaves the file as if no profile were
\* readable; after an exception the loop is over with this pass
ChromeRefresh ==
  /\ task = "chrome"
  /\ \E readable \in SUBSET DOMAIN chrome :
       /\ file' = Refreshed(readable)
       /\ seen' = [i \in DOMAIN chrome |-> IF i \in readable THEN chrome[i] ELSE NoJar]
       /\ \/ task' = "heal" /\ slot' = 1
          \/ /\ "error" \in Events /\ proc # "booting" /\ readable = {}
             /\ task' = "sleep" /\ UNCHANGED slot
  /\ torn' = (torn \/ file' # file)
  /\ UNCHANGED <<chrome, newest, client, proc, fresh, boots, origin, saved>>

\* The heal looks at the slots that have a profile
HealMore == task = "heal" /\ slot <= Len(client) /\ slot <= Len(Profiles)

HealSkip ==
  /\ HealMore
  /\ slot' = slot + 1
  /\ UNCHANGED <<file, chrome, newest, client, proc, task, fresh, boots, history>>

\* Faulty: every slot is healed from the first profile
FirstProfile == chrome[1]

\* jar_dict(dirs[index]): the profile at the slot's place
HealJar == chrome[slot]

\* build_replacement: initialise a client with the cookies of Chrome
HealBuild ==
  /\ HealMore
  /\ ~client[slot].up
  /\ HealJar # NoJar
  /\ fresh' = HealJar
  /\ task' = "building"
  /\ UNCHANGED <<file, chrome, newest, client, proc, slot, boots, history>>

\* The client is unusable, or the slot has recovered: it is closed
HealDrop ==
  /\ task = "building"
  /\ task' = "heal" /\ slot' = slot + 1 /\ fresh' = NoJar
  /\ UNCHANGED <<file, chrome, newest, client, proc, boots, history>>

\* swap_client
HealSwap ==
  /\ task = "building"
  /\ ~client[slot].up
  /\ client' = [client EXCEPT ![slot] = [psid |-> fresh.psid, ts |-> fresh.ts, up |-> TRUE]]
  /\ saved' = [saved EXCEPT ![client[slot].psid] = 0, ![fresh.psid] = 0]
  /\ task' = "heal" /\ slot' = slot + 1 /\ fresh' = NoJar
  /\ UNCHANGED <<file, chrome, newest, proc, boots, origin, torn, seen>>

HealDone ==
  /\ task = "heal" /\ ~HealMore
  /\ task' = "sync"
  /\ UNCHANGED <<file, chrome, newest, client, proc, slot, fresh, boots, history>>

\* The live values go over the file.  Jars that cannot be read are left out; an
\* exception, or a file that cannot be read or written, leaves out all
LivePass ==
  \E read \in (IF "error" \in Events THEN SUBSET DOMAIN client ELSE {DOMAIN client}) :
    /\ file' = Synced(file, read)
    /\ saved' = SavedNow(file, read)
    /\ torn' = (torn /\ read # DOMAIN client)

\* The boot is over or the loop sleeps
LiveSync ==
  /\ task = "sync"
  /\ LivePass
  /\ proc' = IF proc = "booting" THEN "serving" ELSE proc
  /\ task' = "sleep"
  /\ UNCHANGED <<chrome, newest, client, slot, fresh, boots, origin, seen>>

Wake ==
  /\ task = "sleep"
  /\ task' = "chrome"
  /\ UNCHANGED <<file, chrome, newest, client, proc, slot, fresh, boots, history>>

\* cookie_task.cancel() ends the sleep and the loop; build_replacement takes
\* the cancellation for a failed init, unless it is already closing its client
Stop ==
  /\ proc = "serving" /\ proc' = "stopping"
  /\ \/ task \in {"sleep", "building"} /\ task' = "ended" /\ UNCHANGED slot
     \/ task = "building" /\ task' = "heal" /\ slot' = slot + 1
  /\ fresh' = NoJar
  /\ UNCHANGED <<file, chrome, newest, client, boots, history>>

Down == proc' = "down" /\ task' = "off" /\ client' = <<>> /\ fresh' = NoJar /\ slot' = 1

\* await cookie_task returned: _shutdown_state
Shutdown ==
  /\ proc = "stopping" /\ task = "ended"
  /\ LivePass
  /\ Down
  /\ UNCHANGED <<chrome, newest, boots, origin, seen>>

\* fuser -k of restart.sh, or the power goes
Kill ==
  /\ "kill" \in Events
  /\ proc # "down"
  /\ Down
  /\ UNCHANGED <<file, chrome, newest, boots, history>>

-----------------------------------------------------------------------------
(* Google and the browser *)

Minted(p) == newest' = [newest EXCEPT ![p] = @ + 1]

\* A client refreshes its 1PSIDTS
Rotate(s) ==
  LET p == client[s].psid
  IN  /\ Awaiting
      /\ client[s].up
      /\ newest[p] < MaxRotations
      /\ Minted(p)
      /\ client' = [client EXCEPT ![s].ts = newest[p] + 1]
      /\ UNCHANGED <<file, chrome, proc, task, slot, fresh, boots, history>>

\* The browser refreshes its own
Browse(i) ==
  LET p == chrome[i].psid
  IN  /\ chrome[i] # NoJar
      /\ newest[p] < MaxRotations
      /\ Minted(p)
      /\ chrome' = [chrome EXCEPT ![i].ts = newest[p] + 1]
      /\ UNCHANGED <<file, client, proc, task, slot, fresh, boots, history>>

\* The user of a profile logs out, or in again
Login(i) ==
  /\ "login" \in Events
  /\ \/ chrome' = [chrome EXCEPT ![i] = NoJar] /\ UNCHANGED newest
     \/ \E p \in Psids : /\ OwnerOf[p] = Profiles[i] /\ newest[p] < MaxRotations
                         /\ Minted(p)
                         /\ chrome' = [chrome EXCEPT ![i] = [psid |-> p, ts |-> newest[p] + 1]]
  /\ UNCHANGED <<file, client, proc, task, slot, fresh, boots, history>>

\* Google ends or revives the session of a client
SetStatus(s) ==
  /\ "degrade" \in Events
  /\ Awaiting
  /\ client' = [client EXCEPT ![s].up = ~@]
  /\ UNCHANGED <<file, chrome, newest, proc, task, slot, fresh, boots, history>>

-----------------------------------------------------------------------------
Init ==
  /\ file \in Files
  /\ chrome \in [DOMAIN Profiles -> [psid : Psids, ts : {0}]]
  /\ \A i \in DOMAIN Profiles : OwnerOf[chrome[i].psid] = Profiles[i]
  /\ newest = [p \in Psids |-> 0]
  /\ client = <<>> /\ proc = "down" /\ task = "off" /\ slot = 1 /\ fresh = NoJar
  /\ boots = 0
  /\ origin = <<>> /\ saved = [p \in Psids |-> 0] /\ torn = FALSE
  /\ seen = [i \in DOMAIN Profiles |-> NoJar]

\* What the loop does on its own once its timer has run out
Loop ==
  \/ ChromeRefresh \/ HealSkip \/ HealBuild \/ HealDrop \/ HealSwap \/ HealDone
  \/ LiveSync \/ Wake

Next ==
  \/ Boot \/ Loop \/ Stop \/ Shutdown \/ Kill
  \/ \E s \in DOMAIN client : Rotate(s) \/ SetStatus(s)
  \/ \E i \in DOMAIN chrome : Browse(i) \/ Login(i)

Spec == Init /\ [][Next]_vars

\* asyncio runs the loop, sleep() and client.init() end, and so does a shutdown
FairSpec == Spec /\ WF_vars(Loop) /\ WF_vars(Shutdown)

-----------------------------------------------------------------------------
(* Properties *)

\* The type of every variable.
TypeOK ==
  /\ Len(file) > 0 /\ \A i \in DOMAIN file : file[i] \in Jars
  /\ chrome \in [DOMAIN Profiles -> Jars] /\ fresh \in Jars
  /\ newest \in [Psids -> 0..MaxRotations] /\ saved \in [Psids -> 0..MaxRotations]
  /\ \A s \in DOMAIN client : client[s] \in [psid : Psids, ts : 0..MaxRotations, up : BOOLEAN]
  /\ proc \in {"down", "booting", "serving", "stopping"}
  /\ task \in {"off", "chrome", "heal", "building", "sync", "sleep", "ended"}
  /\ proc = "down" <=> task = "off"
  /\ torn \in BOOLEAN /\ slot \in 1..(Len(Profiles) + 1) /\ boots \in 0..MaxBoots

\* A slot keeps its Google account whatever the heal puts there: stored
\* continuations and pins name slots (block and profile match by position).
SlotsKeepTheirAccount ==
  \A s \in DOMAIN client : OwnerOf[client[s].psid] = origin[s]

\* No block of accounts.txt ever takes the cookies of another Google account
\* (sync_accounts_file: "never cross-write").
BlocksKeepTheirAccount ==
  [][\A i \in DOMAIN file :
       file[i].psid # NoPsid => OwnerOf[file'[i].psid] = OwnerOf[file[i].psid]]_file

\* The block of every profile that Chrome can offer holds what Chrome held
\* (refresh_accounts_from_chrome: "Blocks map positionally to Chrome profiles").
RefreshIsPositional ==
  [][\A i \in 1..Paired : (task = "chrome" /\ task' = "heal" /\ seen'[i] # NoJar) =>
       file'[i] = chrome[i]]_vars

RotationsInFile ==
  \A i \in DOMAIN file : file[i].psid # NoPsid => file[i].ts >= saved[file[i].psid]

\* A rotation written to the file stays there until a heal replaces the session,
\* through boots, passes, kills and shutdowns.  Set aside is only the time from a
\* pass of Chrome that wrote to the file to the next live pass over all clients,
\* which a kill, an exception or a jar that cannot be read may put off (README:
\* "server-side 1PSIDTS rotation always wins over older Chrome values").
RotationsKept == ~torn => RotationsInFile

\* The same whenever a pass is over or the process is down, nothing set aside.
RotationsAlwaysWin == task \in {"sleep", "off"} => RotationsInFile

\* After a pass the file is not behind what Chrome held, unless a live session
\* has rotated past it (lifespan: "Chrome is the source of truth, but only for
\* values the live session has not rotated past").
FileFollowsChrome ==
  task = "sleep" =>
    \A i \in 1..Paired : (seen[i] # NoJar /\ file[i].psid = seen[i].psid) =>
      file[i].ts >= seen[i].ts

\* A shutdown ends: the loop obeys its cancellation (lifespan awaits it).
ShutdownEnds == proc = "stopping" ~> proc = "down"

=============================================================================
