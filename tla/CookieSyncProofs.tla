--------------------------- MODULE CookieSyncProofs ---------------------------
(***************************************************************************)
(* Proofs about CookieSync.  For any number of logins, blocks, profiles,   *)
(* rotations and boots, when block i and profile i are of one Google       *)
(* account: cookies never cross from an account to another.  When no two   *)
(* blocks are of one account either: a rotation that has been written to   *)
(* the file is not taken out of it by an older jar of Chrome.              *)
(***************************************************************************)
EXTENDS CookieSync, SubsequencesProofs, TLAPS

\* What README.md of the repository asks for: every block has a login, and
\* profile i is of the account of block i.
Matched ==
  \A f \in Files : \A i \in DOMAIN f :
    f[i].psid # NoPsid /\ (i \in DOMAIN Profiles => OwnerOf[f[i].psid] = Profiles[i])

\* One block for each account
Distinct ==
  \A f \in Files : \A i, j \in DOMAIN f :
    OwnerOf[f[i].psid] = OwnerOf[f[j].psid] => i = j

LiveJars == [psid : Psids, ts : Nat]

Clients == [psid : Psids, ts : Nat, up : BOOLEAN]

Typed ==
  /\ file \in Seq(LiveJars) /\ file # <<>> /\ client \in Seq(Clients)
  /\ chrome \in [DOMAIN Profiles -> LiveJars \cup {NoJar}] /\ fresh \in LiveJars \cup {NoJar}
  /\ newest \in [Psids -> Nat] /\ saved \in [Psids -> Nat] /\ slot \in Nat \ {0}

Owner(jar) == OwnerOf[jar.psid]

\* Block, profile and client of a place are of one account, and so is the client
\* being initialised for it.
Aligned ==
  /\ \A i \in DOMAIN file \cap DOMAIN Profiles : Owner(file[i]) = Profiles[i]
  /\ \A i \in DOMAIN Profiles : chrome[i] # NoJar => Owner(chrome[i]) = Profiles[i]
  /\ client # <<>> => Len(client) = Len(file)
  /\ \A s \in DOMAIN client : Owner(client[s]) = Owner(file[s]) /\ origin[s] = Owner(file[s])
  /\ task = "building" => /\ slot \in DOMAIN client \cap DOMAIN Profiles
                          /\ fresh # NoJar /\ Owner(fresh) = Profiles[slot]

Accounts == Typed /\ Aligned

LEMMA JarFacts ==
  /\ \A j \in LiveJars : j # NoJar /\ j.psid \in Psids /\ j.ts \in Nat
  /\ NoJar.psid = NoPsid /\ NoPsid \notin Psids
  /\ DOMAIN Profiles = 1..Len(Profiles) /\ Len(Profiles) \in Nat
BY JarsAssumption DEF LiveJars, NoJar

-----------------------------------------------------------------------------
(* What the two file functions return *)

\* One block changes, and it had the content looked for.
LEMMA ReplacesOne ==
  ASSUME NEW T, NEW b \in Seq(T), NEW old, NEW new \in T
  PROVE  \/ ReplaceFirst(b, old, new) = b /\ \A i \in DOMAIN b : b[i] # old
         \/ \E k \in DOMAIN b : b[k] = old /\ ReplaceFirst(b, old, new) = [b EXCEPT ![k] = new]
<1> DEFINE at == {i \in DOMAIN b : b[i] = old}
           k == CHOOSE i \in at : \A j \in at : i <= j
<1>1. CASE at = {}
  BY <1>1 DEF ReplaceFirst
<1>2. CASE at # {}
  <2>1. at \in SUBSET Nat
    OBVIOUS
  <2>2. \E i \in at : \A j \in at : i <= j
    <3> HIDE DEF at
    <3> QED BY <1>2, <2>1, LeastNatural
  <2>3. k \in at
    <3> HIDE DEF at
    <3> QED BY <2>2
  <2>4. ReplaceFirst(b, old, new) = [b EXCEPT ![k] = new]
    BY <1>2 DEF ReplaceFirst
  <2> HIDE DEF k
  <2> QED BY <2>3, <2>4
<1> QED BY <1>1, <1>2

Passed(f, readable, i) ==
  IF i = 0 THEN file
  ELSE IF i \in readable /\ chrome[i] # NoJar /\ chrome[i] # file[i]
  THEN ReplaceFirst(f[i - 1], file[i], chrome[i]) ELSE f[i - 1]

\* The recursive function in Refreshed exists.
LEMMA PassedExists ==
  ASSUME NEW readable
  PROVE  \A n \in Nat : \E f : f = [i \in 0..n |-> Passed(f, readable, i)]
<1> DEFINE Upto(n, f) == f = [i \in 0..n |-> Passed(f, readable, i)]
           P == {n \in Nat : \E f : Upto(n, f)}
<1>1. 0 \in P
  <2>1. Upto(0, [i \in 0..0 |-> file])
    BY DEF Passed
  <2> QED BY <2>1
<1>2. ASSUME NEW n \in Nat, n \in P PROVE n + 1 \in P
  <2>1. PICK f : Upto(n, f)
    BY <1>2
  <2> DEFINE g == [i \in 0..(n + 1) |-> IF i <= n THEN f[i] ELSE Passed(f, readable, n + 1)]
  <2>2. ASSUME NEW i \in 0..(n + 1) PROVE g[i] = Passed(g, readable, i)
    <3>1. CASE i = 0
      BY <2>1, <3>1 DEF Passed
    <3>2. CASE i # 0
      <4>1. g[i - 1] = f[i - 1]
        BY <3>2
      <4>2. g[i] = Passed(f, readable, i)
        <5>1. CASE i = n + 1
          BY <5>1
        <5>2. CASE i # n + 1
          <6>1. i \in 0..n
            BY <5>2
          <6>2. f[i] = Passed(f, readable, i)
            BY <2>1, <6>1
          <6> QED BY <6>1, <6>2
        <5> QED BY <5>1, <5>2
      <4> HIDE DEF g
      <4> QED BY <3>2, <4>1, <4>2 DEF Passed
    <3> QED BY <3>1, <3>2
  <2>3. Upto(n + 1, g)
    BY <2>2
  <2> HIDE DEF g
  <2> QED BY <2>3
<1>3. \A n \in Nat : n \in P
  <2> HIDE DEF P
  <2> QED BY <1>1, <1>2, Induction
<1> QED BY <1>3

LEMMA PairedIs ==
  ASSUME Typed
  PROVE  /\ Paired \in Nat /\ DOMAIN file = 1..Len(file) /\ Len(file) \in Nat
         /\ 1..Paired = DOMAIN file \cap DOMAIN Profiles
<1>1. /\ Len(file) \in Nat /\ DOMAIN file = 1..Len(file)
      /\ Len(Profiles) \in Nat /\ DOMAIN Profiles = 1..Len(Profiles)
  BY JarFacts DEF Typed
<1> QED BY <1>1 DEF Paired

\* Refreshed goes through the profiles one by one.
LEMMA RefreshedByPlace ==
  ASSUME Typed, NEW readable
  PROVE  \E f : /\ f[0] = file /\ Refreshed(readable) = f[Paired]
                /\ \A i \in 1..Paired : f[i] = Passed(f, readable, i)
<1> DEFINE after == CHOOSE f : f = [i \in 0..Paired |-> Passed(f, readable, i)]
<1>1. Paired \in Nat
  BY PairedIs
<1>2. after = [i \in 0..Paired |-> Passed(after, readable, i)]
  BY <1>1, PassedExists
<1>3. Refreshed(readable) = after[Paired]
  BY DEF Refreshed, Passed
<1> HIDE DEF after
<1>4. after[0] = file
  BY <1>1, <1>2 DEF Passed
<1>5. \A i \in 1..Paired : after[i] = Passed(after, readable, i)
  BY <1>1, <1>2
<1> QED BY <1>3, <1>4, <1>5

\* The same number of blocks, each of the account it was of
SameOwners(b) ==
  b \in Seq(LiveJars) /\ Len(b) = Len(file) /\ \A j \in 1..Len(file) : Owner(b[j]) = Owner(file[j])

\* A replaced block takes a jar of the same account.
LEMMA PassedKeeps ==
  ASSUME Accounts, NEW readable, NEW f, NEW i \in 1..Paired, SameOwners(f[i - 1])
  PROVE  SameOwners(Passed(f, readable, i))
<1> DEFINE b == f[i - 1]
<1> HIDE DEF b
<1>1. SameOwners(b) /\ i \in DOMAIN file /\ i \in DOMAIN Profiles /\ i # 0
  BY PairedIs DEF b, Accounts
<1>2. CASE ~(i \in readable /\ chrome[i] # NoJar /\ chrome[i] # file[i])
  BY <1>1, <1>2 DEF Passed, b
<1>3. CASE i \in readable /\ chrome[i] # NoJar /\ chrome[i] # file[i]
  <2>1. Passed(f, readable, i) = ReplaceFirst(b, file[i], chrome[i])
    BY <1>1, <1>3 DEF Passed, b
  <2>2. chrome[i] \in LiveJars /\ b \in Seq(LiveJars)
    BY <1>1, <1>3 DEF Accounts, Typed, SameOwners
  <2>3. Owner(chrome[i]) = Owner(file[i])
    BY <1>1, <1>3 DEF Accounts, Aligned
  <2> DEFINE r == ReplaceFirst(b, file[i], chrome[i])
  <2>4. r = b \/ \E k \in DOMAIN b : b[k] = file[i] /\ r = [b EXCEPT ![k] = chrome[i]]
    BY <2>2, ReplacesOne
  <2> HIDE DEF r
  <2>5. CASE r = b
    BY <1>1, <2>1, <2>5 DEF r
  <2>6. CASE \E k \in DOMAIN b : b[k] = file[i] /\ r = [b EXCEPT ![k] = chrome[i]]
    <3>1. PICK k \in DOMAIN b : b[k] = file[i] /\ r = [b EXCEPT ![k] = chrome[i]]
      BY <2>6
    <3>2. r \in Seq(LiveJars) /\ Len(r) = Len(b)
      BY <2>2, <3>1
    <3>3. DOMAIN b = 1..Len(file) /\ Len(b) = Len(file)
      BY <1>1 DEF SameOwners
    <3>4. ASSUME NEW j \in 1..Len(file) PROVE Owner(r[j]) = Owner(file[j])
      <4>1. Owner(b[j]) = Owner(file[j])
        BY <1>1 DEF SameOwners
      <4>2. CASE j = k
        BY <2>3, <3>1, <3>3, <4>1, <4>2
      <4>3. CASE j # k
        BY <3>1, <3>3, <4>1, <4>3
      <4> QED BY <4>2, <4>3
    <3> QED BY <2>1, <3>2, <3>3, <3>4 DEF SameOwners, r
  <2> QED BY <2>4, <2>5, <2>6
<1> QED BY <1>2, <1>3

LEMMA RefreshedKeeps ==
  ASSUME Accounts, NEW readable
  PROVE  SameOwners(Refreshed(readable))
<1>0. Typed
  BY DEF Accounts
<1>1. PICK f : /\ f[0] = file /\ Refreshed(readable) = f[Paired]
               /\ \A i \in 1..Paired : f[i] = Passed(f, readable, i)
  BY <1>0, RefreshedByPlace
<1>2. Paired \in Nat
  BY <1>0, PairedIs
<1> DEFINE P == {n \in Nat : n <= Paired => SameOwners(f[n])}
<1>3. 0 \in P
  BY <1>0, <1>1 DEF SameOwners, Typed
<1>4. ASSUME NEW n \in Nat, n \in P PROVE n + 1 \in P
  <2>1. SUFFICES ASSUME n + 1 <= Paired PROVE SameOwners(f[n + 1])
    OBVIOUS
  <2>2. n + 1 \in 1..Paired /\ (n + 1) - 1 = n /\ n <= Paired
    BY <1>2, <2>1
  <2>3. SameOwners(f[(n + 1) - 1])
    BY <1>4, <2>2
  <2>4. SameOwners(Passed(f, readable, n + 1))
    BY <2>2, <2>3, PassedKeeps
  <2> QED BY <1>1, <2>2, <2>4
<1>5. \A n \in Nat : n \in P
  <2> HIDE DEF P
  <2> QED BY <1>3, <1>4, Induction
<1>6. Paired \in P
  BY <1>2, <1>5
<1> QED BY <1>1, <1>2, <1>6

\* The live jar of a login is that of a client that has it.
LEMMA LiveJarIs ==
  ASSUME Typed, NEW p \in Psids, NEW read \in SUBSET DOMAIN client
  PROVE  \/ LiveJar(p, read) = NoJar /\ \A s \in read : client[s].psid # p
         \/ \E s \in read :
              /\ client[s].psid = p /\ LiveJar(p, read) = [psid |-> p, ts |-> client[s].ts]
              /\ LiveJar(p, read) \in LiveJars /\ LiveJar(p, read) # NoJar
<1> DEFINE own == {s \in read : client[s].psid = p}
           s == CHOOSE i \in own : \A j \in own : j <= i
<1>1. CASE own = {}
  BY <1>1 DEF LiveJar
<1>2. CASE own # {}
  <2>0. Len(client) \in Nat /\ DOMAIN client = 1..Len(client)
    BY DEF Typed
  <2> DEFINE ends == {Len(client) - i : i \in own}
  <2>1. ends \in SUBSET Nat /\ ends # {}
    BY <1>2, <2>0
  <2>2. PICK n \in ends : \A m \in ends : n <= m
    <3> HIDE DEF ends
    <3> QED BY <2>1, LeastNatural
  <2>3. PICK i \in own : n = Len(client) - i
    OBVIOUS
  <2>4. ASSUME NEW j \in own PROVE j <= i
    <3>1. Len(client) - j \in ends
      OBVIOUS
    <3>2. n <= Len(client) - j
      BY <2>2, <3>1
    <3> QED BY <2>0, <2>3, <3>2
  <2>5. s \in own
    <3> HIDE DEF own
    <3> QED BY <2>4
  <2>6. LiveJar(p, read) = [psid |-> p, ts |-> client[s].ts]
    BY <1>2 DEF LiveJar
  <2> HIDE DEF s
  <2>7. client[s] \in Clients
    BY <2>0, <2>5 DEF Typed
  <2>8. LiveJar(p, read) \in LiveJars
    BY <2>6, <2>7 DEF LiveJars, Clients
  <2> QED BY <2>5, <2>6, <2>8, JarFacts
<1> QED BY <1>1, <1>2

\* The file after the live values have gone over it.
LEMMA SyncedKeeps ==
  ASSUME Accounts, NEW read \in SUBSET DOMAIN client
  PROVE  SameOwners(Synced(file, read)) /\ \A i \in DOMAIN file : Synced(file, read)[i].psid = file[i].psid
<1>1. /\ file \in Seq(LiveJars) /\ DOMAIN file = 1..Len(file) /\ Len(file) \in Nat
  BY DEF Accounts, Typed
<1>2. ASSUME NEW i \in DOMAIN file
      PROVE  Synced(file, read)[i] \in LiveJars /\ Synced(file, read)[i].psid = file[i].psid
  <2>1. file[i] \in LiveJars /\ file[i].psid \in Psids
    BY <1>1, JarFacts
  <2>2. Synced(file, read)[i] = IF file[i].psid # NoPsid /\ LiveJar(file[i].psid, read) # NoJar
                          THEN LiveJar(file[i].psid, read) ELSE file[i]
    BY <1>1 DEF Synced
  <2>3. \/ LiveJar(file[i].psid, read) = NoJar
        \/ LiveJar(file[i].psid, read) \in LiveJars /\ LiveJar(file[i].psid, read).psid = file[i].psid
    BY <2>1, LiveJarIs DEF Accounts
  <2> QED BY <2>1, <2>2, <2>3
<1>3. DOMAIN Synced(file, read) = 1..Len(file)
  BY <1>1 DEF Synced
<1>4. Synced(file, read) \in Seq(LiveJars) /\ Len(Synced(file, read)) = Len(file)
  <2>1. Synced(file, read) = [i \in 1..Len(file) |-> Synced(file, read)[i]]
    BY <1>1 DEF Synced
  <2> QED BY <1>1, <1>2, <1>3, <2>1
<1> QED BY <1>1, <1>2, <1>4 DEF SameOwners, Owner

LEMMA SavedNowIs ==
  ASSUME Typed, NEW read \in SUBSET DOMAIN client
  PROVE  /\ SavedNow(file, read) \in [Psids -> Nat]
         /\ \A p \in Psids :
              \/ SavedNow(file, read)[p] = saved[p]
              \/ \E s \in DOMAIN client : client[s].psid = p /\ SavedNow(file, read)[p] = client[s].ts
<1>1. ASSUME NEW p \in Psids
      PROVE  \/ SavedNow(file, read)[p] = saved[p]
             \/ \E s \in DOMAIN client : client[s].psid = p /\ SavedNow(file, read)[p] = client[s].ts
  <2>1. CASE \E i \in DOMAIN file : file[i].psid = p /\ LiveJar(p, read) # NoJar
    <3>1. SavedNow(file, read)[p] = LiveJar(p, read).ts
      BY <2>1 DEF SavedNow
    <3>2. PICK s \in DOMAIN client : client[s].psid = p /\ LiveJar(p, read) = [psid |-> p, ts |-> client[s].ts]
      BY <2>1, LiveJarIs
    <3> QED BY <3>1, <3>2
  <2>2. CASE ~(\E i \in DOMAIN file : file[i].psid = p /\ LiveJar(p, read) # NoJar)
    BY <2>2 DEF SavedNow
  <2> QED BY <2>1, <2>2
<1>2. \A s \in DOMAIN client : client[s].ts \in Nat
  <2>1. \A s \in DOMAIN client : client[s] \in Clients
    BY DEF Typed
  <2> QED BY <2>1 DEF Clients
<1>3. \A p \in Psids : saved[p] \in Nat
  BY DEF Typed
<1>4. SavedNow(file, read) = [p \in Psids |-> SavedNow(file, read)[p]]
  BY DEF SavedNow
<1> QED BY <1>1, <1>2, <1>3, <1>4

\* A pass of the live values, over all clients or some of them.
LEMMA LivePassIs ==
  ASSUME LivePass
  PROVE  \E read \in SUBSET DOMAIN client :
           /\ file' = Synced(file, read) /\ saved' = SavedNow(file, read)
           /\ torn' = (torn /\ read # DOMAIN client)
BY DEF LivePass

\* With a login in every block a boot makes a client of each.
LEMMA BootsEach ==
  ASSUME Typed
  PROVE  Among(file, {j \in Range(file) : j.psid # NoPsid}) = file
<1> DEFINE S == {j \in Range(file) : j.psid # NoPsid}
<1>1. /\ file \in Seq(LiveJars) /\ Len(file) \in Nat /\ DOMAIN file = 1..Len(file)
  BY DEF Typed
<1>2. ASSUME NEW i \in 1..Len(file) PROVE file[i] \in S
  <2>1. file[i] \in Range(file) /\ file[i] \in LiveJars
    BY <1>1 DEF Range
  <2> QED BY <2>1, JarFacts
<1> HIDE DEF S
<1>3. QED BY <1>1, <1>2, AmongAll DEF S

-----------------------------------------------------------------------------
LEMMA AccountsInit ==
  ASSUME Matched, Init
  PROVE  Accounts
<1>1. file \in Seq([psid : Psids \cup {NoPsid}, ts : {0}]) /\ file # <<>> /\ file \in Files
  BY JarsAssumption DEF Init
<1>2. \A i \in DOMAIN file : file[i] \in LiveJars
  <2> SUFFICES ASSUME NEW i \in DOMAIN file PROVE file[i] \in LiveJars
    OBVIOUS
  <2>1. file[i] \in [psid : Psids \cup {NoPsid}, ts : {0}]
    <3> DEFINE Old == [psid : Psids \cup {NoPsid}, ts : {0}]
    <3> HIDE DEF Old
    <3>1. file \in Seq(Old)
      BY <1>1 DEF Old
    <3>2. file[i] \in Old
      BY <3>1
    <3> QED BY <3>2 DEF Old
  <2>2. file[i].psid # NoPsid
    BY <1>1 DEF Matched
  <2> QED BY <2>1, <2>2 DEF LiveJars
<1>3. file \in Seq(LiveJars)
  BY <1>1, <1>2
<1>4. \A i \in DOMAIN Profiles :
        chrome[i] \in LiveJars /\ Owner(chrome[i]) = Profiles[i]
  BY DEF Init, LiveJars, Owner
<1>5. client \in Seq(Clients) /\ client = <<>> /\ DOMAIN client = {}
  <2>1. client = <<>> /\ <<>> \in Seq(Clients)
    BY DEF Init
  <2> QED BY <2>1
<1>6. Typed
  BY <1>1, <1>3, <1>4, <1>5 DEF Init, Typed
<1>7. Aligned
  BY <1>1, <1>4, <1>5 DEF Init, Aligned, Matched, Owner
<1> QED BY <1>6, <1>7 DEF Accounts

\* Blocks of the same owners stay aligned with profiles and clients.
LEMMA FileChanges ==
  ASSUME Accounts, SameOwners(file'), UNCHANGED <<chrome, newest, origin>>,
         client' = client \/ client' = <<>>, saved' \in [Psids -> Nat], slot' \in Nat \ {0},
         fresh' = NoJar \/ fresh' = fresh, task' # "building"
  PROVE  Accounts'
<1>1. /\ file' \in Seq(LiveJars) /\ Len(file') = Len(file) /\ Len(file) \in Nat /\ Len(file) # 0
      /\ DOMAIN file = 1..Len(file) /\ DOMAIN file' = 1..Len(file)
      /\ \A i \in DOMAIN file : Owner(file'[i]) = Owner(file[i])
  BY DEF Accounts, Typed, SameOwners
<1>2. client' \in Seq(Clients) /\ (client' = <<>> => DOMAIN client' = {})
  <2>1. <<>> \in Seq(Clients) /\ DOMAIN <<>> = {}
    OBVIOUS
  <2>2. client \in Seq(Clients)
    BY DEF Accounts, Typed
  <2> QED BY <2>1, <2>2
<1>3. Typed'
  BY <1>1, <1>2 DEF Accounts, Typed
<1>4. ASSUME NEW s \in DOMAIN client'
      PROVE  Owner(client'[s]) = Owner(file'[s]) /\ origin'[s] = Owner(file'[s])
  <2>1. client' = client /\ s \in DOMAIN client /\ client # <<>>
    BY <1>2, <1>4
  <2>2. s \in DOMAIN file
    BY <1>1, <2>1 DEF Accounts, Aligned, Typed
  <2> QED BY <1>1, <2>1, <2>2 DEF Accounts, Aligned
<1>5. Aligned'
  BY <1>1, <1>2, <1>4 DEF Accounts, Aligned, Owner
<1> QED BY <1>3, <1>5 DEF Accounts

\* The file, the profiles and what a slot was booted with stay; clients keep owners.
LEMMA ClientChanges ==
  ASSUME Accounts, UNCHANGED <<file, chrome, newest, origin>>, saved' \in [Psids -> Nat],
         client' \in Seq(Clients), Len(client') = Len(client),
         \A s \in DOMAIN client : Owner(client'[s]) = Owner(client[s]),
         slot' \in Nat \ {0}, fresh' \in LiveJars \cup {NoJar},
         task' = "building" => /\ slot' \in DOMAIN client \cap DOMAIN Profiles
                               /\ fresh' # NoJar /\ Owner(fresh') = Profiles[slot']
  PROVE  Accounts'
<1>1. DOMAIN client' = DOMAIN client /\ Len(client) \in Nat /\ (client' # <<>> => client # <<>>)
  BY DEF Accounts, Typed
<1>2. Typed'
  BY DEF Accounts, Typed
<1>3. Aligned'
  BY <1>1 DEF Accounts, Aligned, Owner
<1> QED BY <1>2, <1>3 DEF Accounts

LEMMA AccountsBoot ==
  ASSUME Accounts, Boot
  PROVE  Accounts' /\ Len(client') = Len(file) /\ \A s \in DOMAIN file :
           client'[s].psid = file[s].psid /\ client'[s].ts = file[s].ts
<1>1. Among(file, {j \in Range(file) : j.psid # NoPsid}) = file
  BY BootsEach DEF Accounts
<1>2. /\ file \in Seq(LiveJars) /\ Len(file) \in Nat /\ DOMAIN file = 1..Len(file)
  BY DEF Accounts, Typed
<1>3. PICK up \in [DOMAIN file -> BOOLEAN] :
        client' = [s \in DOMAIN file |-> [psid |-> file[s].psid, ts |-> file[s].ts, up |-> up[s]]]
  BY <1>1 DEF Boot
<1>4. origin' = [s \in DOMAIN file |-> OwnerOf[file[s].psid]]
  BY <1>1 DEF Boot
<1>5. ASSUME NEW s \in DOMAIN file
      PROVE  client'[s] \in Clients /\ client'[s].psid = file[s].psid /\ client'[s].ts = file[s].ts
  <2>1. client'[s] = [psid |-> file[s].psid, ts |-> file[s].ts, up |-> up[s]] /\ up[s] \in BOOLEAN
    BY <1>3
  <2>2. file[s] \in LiveJars
    BY <1>2
  <2> QED BY <2>1, <2>2 DEF Clients, LiveJars
<1>6. client' \in Seq(Clients) /\ Len(client') = Len(file) /\ DOMAIN client' = DOMAIN file
  BY <1>2, <1>3, <1>5
<1>7. task' = "chrome" /\ UNCHANGED <<file, chrome, newest, slot, fresh, saved>>
  BY DEF Boot
<1>8. Typed'
  BY <1>6, <1>7 DEF Accounts, Typed
<1>9. Aligned'
  BY <1>4, <1>5, <1>6, <1>7 DEF Accounts, Aligned, Owner
<1> QED BY <1>2, <1>5, <1>6, <1>8, <1>9 DEF Accounts

LEMMA SlotFacts ==
  ASSUME Typed
  PROVE  /\ slot + 1 \in Nat \ {0} /\ 1 \in Nat \ {0} /\ DOMAIN client = 1..Len(client) /\ Len(client) \in Nat
         /\ HealMore => slot \in DOMAIN client /\ slot \in DOMAIN Profiles
<1>1. /\ slot \in Nat \ {0} /\ DOMAIN client = 1..Len(client) /\ Len(client) \in Nat
      /\ DOMAIN Profiles = 1..Len(Profiles) /\ Len(Profiles) \in Nat
  BY JarFacts DEF Typed
<1> QED BY <1>1 DEF HealMore

LEMMA AccountsSwap ==
  ASSUME Accounts, HealSwap
  PROVE  Accounts'
<1>1. /\ slot \in DOMAIN client /\ slot \in DOMAIN Profiles /\ fresh \in LiveJars
      /\ Owner(fresh) = Profiles[slot] /\ client \in Seq(Clients) /\ client # <<>>
  BY DEF Accounts, Typed, Aligned, HealSwap
<1>2. /\ file \in Seq(LiveJars) /\ Len(client) = Len(file) /\ DOMAIN client = 1..Len(client)
      /\ DOMAIN file = 1..Len(file)
  BY <1>1 DEF Accounts, Typed, Aligned
<1>3. Owner(client[slot]) = Profiles[slot]
  BY <1>1, <1>2 DEF Accounts, Aligned
<1> DEFINE new == [psid |-> fresh.psid, ts |-> fresh.ts, up |-> TRUE]
<1>4. new \in Clients /\ Owner(new) = Owner(fresh)
  BY <1>1 DEF Clients, LiveJars, Owner
<1>5. client' = [client EXCEPT ![slot] = new]
  BY DEF HealSwap
<1> HIDE DEF new
<1>6. client' \in Seq(Clients) /\ Len(client') = Len(client)
  BY <1>1, <1>4, <1>5
<1>7. ASSUME NEW s \in DOMAIN client PROVE Owner(client'[s]) = Owner(client[s])
  <2>1. CASE s = slot
    BY <1>1, <1>3, <1>4, <1>5, <2>1
  <2>2. CASE s # slot
    BY <1>5, <2>2
  <2> QED BY <2>1, <2>2
<1>8. saved' \in [Psids -> Nat]
  BY DEF HealSwap, Accounts, Typed
<1>9. slot' \in Nat \ {0} /\ fresh' = NoJar /\ task' # "building" /\ UNCHANGED <<file, chrome, newest, origin>>
  BY SlotFacts DEF Accounts, HealSwap
<1> QED BY <1>6, <1>7, <1>8, <1>9, ClientChanges

LEMMA AccountsClients ==
  ASSUME Accounts, NEW s \in DOMAIN client, Rotate(s) \/ SetStatus(s)
  PROVE  Accounts'
<1>1. /\ client \in Seq(Clients) /\ client # <<>> /\ DOMAIN client = 1..Len(client)
      /\ client[s] \in Clients
  BY DEF Accounts, Typed
<1>2. client[s].psid \in Psids /\ newest \in [Psids -> Nat] /\ newest[client[s].psid] \in Nat
  BY <1>1 DEF Accounts, Typed, Clients
<1>3. PICK c \in Clients : client' = [client EXCEPT ![s] = c] /\ Owner(c) = Owner(client[s])
  <2>1. CASE Rotate(s)
    <3> DEFINE c == [client[s] EXCEPT !.ts = newest[client[s].psid] + 1]
    <3>1. c \in Clients /\ c.psid = client[s].psid
      BY <1>1, <1>2 DEF Clients
    <3>2. client' = [client EXCEPT ![s] = c]
      BY <2>1 DEF Rotate
    <3> HIDE DEF c
    <3> QED BY <3>1, <3>2 DEF Owner
  <2>2. CASE SetStatus(s)
    <3> DEFINE c == [client[s] EXCEPT !.up = ~@]
    <3>1. c \in Clients /\ c.psid = client[s].psid
      BY <1>1 DEF Clients
    <3>2. client' = [client EXCEPT ![s] = c]
      BY <2>2 DEF SetStatus
    <3> HIDE DEF c
    <3> QED BY <3>1, <3>2 DEF Owner
  <2> QED BY <2>1, <2>2
<1>4. client' \in Seq(Clients) /\ Len(client') = Len(client) /\ DOMAIN client' = DOMAIN client
  BY <1>1, <1>3
<1>5. ASSUME NEW i \in DOMAIN client PROVE Owner(client'[i]) = Owner(client[i])
  BY <1>1, <1>3
<1>6. newest' \in [Psids -> Nat]
  BY <1>2 DEF Rotate, Minted, SetStatus
<1>7. UNCHANGED <<file, chrome, origin, saved, slot, fresh, task>>
  BY DEF Rotate, SetStatus, history
<1>8. Typed'
  BY <1>4, <1>6, <1>7 DEF Accounts, Typed
<1>9. Aligned'
  BY <1>1, <1>4, <1>5, <1>7 DEF Accounts, Aligned, Owner
<1> QED BY <1>8, <1>9 DEF Accounts

\* What a browser puts into a profile: nothing, or a newer jar of its account.
Browsed(i) ==
  /\ chrome' = [chrome EXCEPT ![i] = NoJar] /\ newest' = newest
  \/ \E p \in Psids :
       /\ OwnerOf[p] = Profiles[i] /\ newest' = [newest EXCEPT ![p] = newest[p] + 1]
       /\ chrome' = [chrome EXCEPT ![i] = [psid |-> p, ts |-> newest[p] + 1]]

LEMMA Browses ==
  ASSUME Accounts, NEW i \in DOMAIN chrome, Browse(i) \/ Login(i)
  PROVE  Browsed(i) /\ UNCHANGED <<file, client, proc, task, slot, fresh, boots, history>>
<1>1. CASE Browse(i)
  <2>1. i \in DOMAIN Profiles /\ chrome[i] # NoJar
    BY <1>1 DEF Browse, Accounts, Typed
  <2>2. chrome[i] \in LiveJars /\ Owner(chrome[i]) = Profiles[i]
    BY <2>1 DEF Accounts, Typed, Aligned
  <2> DEFINE p == chrome[i].psid
  <2>3. p \in Psids /\ OwnerOf[p] = Profiles[i]
    BY <2>2 DEF LiveJars, Owner
  <2>4. [chrome[i] EXCEPT !.ts = newest[p] + 1] = [psid |-> p, ts |-> newest[p] + 1]
    BY <2>2 DEF LiveJars
  <2>5. /\ newest' = [newest EXCEPT ![p] = newest[p] + 1]
        /\ chrome' = [chrome EXCEPT ![i] = [chrome[i] EXCEPT !.ts = newest[p] + 1]]
    BY <1>1 DEF Browse, Minted
  <2> HIDE DEF p
  <2>6. Browsed(i)
    BY <2>3, <2>4, <2>5 DEF Browsed
  <2> QED BY <1>1, <2>6 DEF Browse
<1>2. CASE Login(i)
  BY <1>2 DEF Login, Minted, Browsed
<1> QED BY <1>1, <1>2

LEMMA AccountsBrowses ==
  ASSUME Accounts, NEW i \in DOMAIN chrome, Browsed(i),
         UNCHANGED <<file, client, proc, task, slot, fresh, boots, history>>
  PROVE  Accounts'
<1>1. i \in DOMAIN Profiles /\ newest \in [Psids -> Nat]
  BY DEF Accounts, Typed
<1>2. PICK j \in LiveJars \cup {NoJar} :
        chrome' = [chrome EXCEPT ![i] = j] /\ (j # NoJar => Owner(j) = Profiles[i])
  BY <1>1 DEF Browsed, LiveJars, Owner
<1>3. newest' \in [Psids -> Nat]
  BY <1>1 DEF Browsed
<1>4. Typed'
  BY <1>2, <1>3 DEF Accounts, Typed, history
<1>5. \A k \in DOMAIN Profiles : chrome'[k] # NoJar => Owner(chrome'[k]) = Profiles[k]
  BY <1>2 DEF Accounts, Typed, Aligned
<1>6. Aligned'
  BY <1>5 DEF Accounts, Aligned, Owner, history
<1> QED BY <1>4, <1>6 DEF Accounts

\* Every step keeps them, and the owners of the blocks.
LEMMA AccountsStep ==
  ASSUME Accounts, [Next]_vars
  PROVE  Accounts' /\ SameOwners(file')
<1>1. /\ slot + 1 \in Nat \ {0} /\ 1 \in Nat \ {0}
      /\ HealMore => slot \in DOMAIN client /\ slot \in DOMAIN Profiles
  BY SlotFacts DEF Accounts
<1>2. /\ SameOwners(file) /\ saved \in [Psids -> Nat] /\ slot \in Nat \ {0}
      /\ fresh \in LiveJars \cup {NoJar} /\ NoJar \in LiveJars \cup {NoJar}
      /\ client \in Seq(Clients)
  BY DEF Accounts, Typed, SameOwners
<1>3. CASE UNCHANGED vars
  <2>1. Accounts'
    BY <1>3 DEF vars, Accounts, Typed, Aligned, Owner
  <2>2. file' = file
    BY <1>3 DEF vars
  <2> QED BY <1>2, <2>1, <2>2
<1>4. CASE Boot
  <2>1. file' = file
    BY <1>4 DEF Boot
  <2> QED BY <1>2, <1>4, <2>1, AccountsBoot
<1>5. CASE ChromeRefresh
  <2>1. PICK readable \in SUBSET DOMAIN chrome : file' = Refreshed(readable)
    BY <1>5 DEF ChromeRefresh
  <2>2. SameOwners(file')
    BY <2>1, RefreshedKeeps
  <2>3. /\ UNCHANGED <<chrome, newest, origin>> /\ client' = client /\ fresh' = fresh
        /\ saved' \in [Psids -> Nat] /\ slot' \in Nat \ {0} /\ task' # "building"
    BY <1>1, <1>2, <1>5 DEF ChromeRefresh
  <2> QED BY <2>2, <2>3, FileChanges
<1>6. CASE HealSkip \/ HealDrop \/ HealDone \/ Wake
  <2>1. /\ UNCHANGED <<file, chrome, newest, client, origin, saved>> /\ task' # "building"
        /\ slot' \in Nat \ {0} /\ fresh' \in LiveJars \cup {NoJar}
    BY <1>1, <1>2, <1>6 DEF HealSkip, HealMore, HealDrop, HealDone, Wake, history
  <2>2. SameOwners(file') /\ client' \in Seq(Clients) /\ saved' \in [Psids -> Nat]
    BY <1>2, <2>1
  <2> QED BY <2>1, <2>2, ClientChanges
<1>7. CASE HealBuild
  <2>1. /\ UNCHANGED <<file, chrome, newest, client, origin, saved, slot>>
        /\ fresh' = chrome[slot] /\ fresh' # NoJar
    BY <1>7 DEF HealBuild, HealJar, history
  <2>2. slot \in DOMAIN client \cap DOMAIN Profiles
    BY <1>1, <1>7 DEF HealBuild
  <2>3. fresh' \in LiveJars \cup {NoJar} /\ Owner(fresh') = Profiles[slot']
    BY <2>1, <2>2 DEF Accounts, Typed, Aligned, Owner
  <2>4. /\ SameOwners(file') /\ client' \in Seq(Clients) /\ saved' \in [Psids -> Nat]
        /\ slot' \in Nat \ {0} /\ slot' \in DOMAIN client \cap DOMAIN Profiles
    BY <1>2, <2>1, <2>2
  <2> QED BY <2>1, <2>3, <2>4, ClientChanges
<1>8. CASE HealSwap
  <2>1. file' = file
    BY <1>8 DEF HealSwap
  <2> QED BY <1>2, <1>8, <2>1, AccountsSwap
<1>9. CASE LiveSync \/ Shutdown
  <2>1. PICK read \in SUBSET DOMAIN client :
          file' = Synced(file, read) /\ saved' = SavedNow(file, read)
    BY <1>9, LivePassIs DEF LiveSync, Shutdown
  <2>2. SameOwners(file')
    BY <2>1, SyncedKeeps
  <2>3. saved' \in [Psids -> Nat]
    BY <2>1, SavedNowIs DEF Accounts
  <2>4. /\ UNCHANGED <<chrome, newest, origin>> /\ (client' = client \/ client' = <<>>)
        /\ (fresh' = NoJar \/ fresh' = fresh) /\ slot' \in Nat \ {0} /\ task' # "building"
    BY <1>1, <1>2, <1>9 DEF LiveSync, Shutdown, Down
  <2> QED BY <2>2, <2>3, <2>4, FileChanges
<1>10. CASE Stop
  <2>1. /\ UNCHANGED <<file, chrome, newest, client, origin, saved>> /\ task' # "building"
        /\ slot' \in Nat \ {0} /\ fresh' \in LiveJars \cup {NoJar}
    BY <1>1, <1>2, <1>10 DEF Stop, history
  <2>2. SameOwners(file') /\ client' \in Seq(Clients) /\ saved' \in [Psids -> Nat]
    BY <1>2, <2>1
  <2> QED BY <2>1, <2>2, ClientChanges
<1>11. CASE Kill
  <2>1. /\ UNCHANGED <<file, chrome, newest, origin, saved>> /\ client' = <<>> /\ fresh' = NoJar
        /\ slot' = 1 /\ task' # "building"
    BY <1>11 DEF Kill, Down, history
  <2>2. SameOwners(file') /\ saved' \in [Psids -> Nat] /\ slot' \in Nat \ {0}
    BY <1>1, <1>2, <2>1
  <2> QED BY <2>1, <2>2, FileChanges
<1>12. ASSUME NEW s \in DOMAIN client, Rotate(s) \/ SetStatus(s) PROVE Accounts' /\ SameOwners(file')
  <2>1. file' = file
    BY <1>12 DEF Rotate, SetStatus
  <2> QED BY <1>2, <1>12, <2>1, AccountsClients
<1>13. ASSUME NEW i \in DOMAIN chrome, Browse(i) \/ Login(i) PROVE Accounts' /\ SameOwners(file')
  <2>1. Browsed(i) /\ UNCHANGED <<file, client, proc, task, slot, fresh, boots, history>>
    BY <1>13, Browses
  <2>2. Accounts'
    BY <2>1, AccountsBrowses
  <2> QED BY <1>2, <2>1, <2>2
<1> QED
  BY <1>3, <1>4, <1>5, <1>6, <1>7, <1>8, <1>9, <1>10, <1>11, <1>12, <1>13 DEF Next, Loop

\* What the logins of slots, blocks and profiles are aligned to holds in every state:
\* the accounts of the blocks never move, and slots and profiles follow them.
THEOREM AccountsAligned ==
  ASSUME Matched
  PROVE  Spec => []Accounts
<1>1. Init => Accounts
  BY AccountsInit
<1>2. Accounts /\ [Next]_vars => Accounts'
  BY AccountsStep
<1> QED BY <1>1, <1>2, PTL DEF Spec

\* SlotsKeepTheirAccount, whatever the heal puts into a slot.
THEOREM SlotsKeepAccounts ==
  ASSUME Matched
  PROVE  Spec => []SlotsKeepTheirAccount
<1>1. Accounts => SlotsKeepTheirAccount
  BY DEF Accounts, Aligned, SlotsKeepTheirAccount, Owner
<1> QED BY <1>1, AccountsAligned, PTL

\* BlocksKeepTheirAccount: no pass of Chrome, of the live values or of a shutdown
\* writes the cookies of one account into the block of another.
THEOREM BlocksKeepAccounts ==
  ASSUME Matched
  PROVE  Spec => BlocksKeepTheirAccount
<1>1. Accounts /\ [Next]_vars =>
        [\A i \in DOMAIN file :
           file[i].psid # NoPsid => OwnerOf[file'[i].psid] = OwnerOf[file[i].psid]]_file
  <2> SUFFICES ASSUME Accounts, [Next]_vars, NEW i \in DOMAIN file
               PROVE  OwnerOf[file'[i].psid] = OwnerOf[file[i].psid]
    OBVIOUS
  <2>1. SameOwners(file') /\ DOMAIN file = 1..Len(file)
    BY AccountsStep DEF Accounts, Typed
  <2> QED BY <2>1 DEF SameOwners, Owner
<1> QED BY <1>1, AccountsAligned, PTL DEF Spec, BlocksKeepTheirAccount

-----------------------------------------------------------------------------
(* One block for each account *)

Single == \A i, j \in DOMAIN file : Owner(file[i]) = Owner(file[j]) => i = j

\* Block i when a pass has been through the first n profiles
Block(readable, n, i) ==
  IF i <= n /\ i \in readable /\ chrome[i] # NoJar THEN chrome[i] ELSE file[i]

LEMMA PassedAt ==
  ASSUME Accounts, Single, NEW readable, NEW f, NEW i \in 1..Paired, SameOwners(f[i - 1]),
         \A j \in 1..Len(file) : f[i - 1][j] = Block(readable, i - 1, j)
  PROVE  \A j \in 1..Len(file) : Passed(f, readable, i)[j] = Block(readable, i, j)
<1> DEFINE b == f[i - 1]
<1>1. /\ i \in DOMAIN file /\ i \in DOMAIN Profiles /\ DOMAIN file = 1..Len(file)
      /\ Len(file) \in Nat /\ i \in Nat /\ i # 0
  BY PairedIs DEF Accounts
<1>2. SameOwners(b) /\ \A j \in 1..Len(file) : b[j] = Block(readable, i - 1, j)
  OBVIOUS
<1> HIDE DEF b
<1>3. b[i] = file[i] /\ \A j \in 1..Len(file) : j # i => b[j] = Block(readable, i, j)
  BY <1>1, <1>2 DEF Block
<1>4. CASE ~(i \in readable /\ chrome[i] # NoJar /\ chrome[i] # file[i])
  <2>1. Passed(f, readable, i) = b
    BY <1>1, <1>4 DEF Passed, b
  <2>2. Block(readable, i, i) = file[i]
    BY <1>4 DEF Block
  <2> QED BY <1>3, <2>1, <2>2
<1>5. CASE i \in readable /\ chrome[i] # NoJar /\ chrome[i] # file[i]
  <2>1. Passed(f, readable, i) = ReplaceFirst(b, file[i], chrome[i])
    BY <1>1, <1>5 DEF Passed, b
  <2>2. chrome[i] \in LiveJars /\ b \in Seq(LiveJars) /\ DOMAIN b = 1..Len(file)
    BY <1>1, <1>2, <1>5 DEF Accounts, Typed, SameOwners
  <2> DEFINE r == ReplaceFirst(b, file[i], chrome[i])
  <2>3. \/ r = b /\ \A k \in DOMAIN b : b[k] # file[i]
        \/ \E k \in DOMAIN b : b[k] = file[i] /\ r = [b EXCEPT ![k] = chrome[i]]
    <3> DEFINE old == file[i]
               new == chrome[i]
    <3> HIDE DEF old, new
    <3>1. b \in Seq(LiveJars) /\ new \in LiveJars
      BY <2>2 DEF new
    <3>2. \/ ReplaceFirst(b, old, new) = b /\ \A k \in DOMAIN b : b[k] # old
          \/ \E k \in DOMAIN b : b[k] = old /\ ReplaceFirst(b, old, new) = [b EXCEPT ![k] = new]
      BY <3>1, ReplacesOne
    <3> QED BY <3>2 DEF old, new
  <2> HIDE DEF r
  <2>4. PICK k \in DOMAIN b : b[k] = file[i] /\ r = [b EXCEPT ![k] = chrome[i]]
    BY <1>1, <1>3, <2>2, <2>3
  <2>5. k = i
    <3>1. Owner(b[k]) = Owner(file[k])
      BY <1>2, <2>2 DEF SameOwners
    <3> QED BY <1>1, <2>2, <2>4, <3>1 DEF Single
  <2>6. Block(readable, i, i) = chrome[i]
    BY <1>1, <1>5 DEF Block
  <2> QED BY <1>1, <1>3, <2>1, <2>2, <2>4, <2>5, <2>6 DEF r
<1> QED BY <1>4, <1>5

\* A pass puts what Chrome holds where it belongs, and nowhere else.
LEMMA RefreshedIs ==
  ASSUME Accounts, Single, NEW readable
  PROVE  \A i \in DOMAIN file : Refreshed(readable)[i] = Block(readable, Paired, i)
<1>0. Typed
  BY DEF Accounts
<1>1. PICK f : /\ f[0] = file /\ Refreshed(readable) = f[Paired]
               /\ \A i \in 1..Paired : f[i] = Passed(f, readable, i)
  BY <1>0, RefreshedByPlace
<1>2. Paired \in Nat /\ Len(file) \in Nat /\ DOMAIN file = 1..Len(file)
  BY <1>0, PairedIs
<1> DEFINE Good(n) == SameOwners(f[n]) /\ \A j \in 1..Len(file) : f[n][j] = Block(readable, n, j)
           P == {n \in Nat : n <= Paired => Good(n)}
<1>3. 0 \in P
  <2>1. SameOwners(f[0])
    BY <1>0, <1>1 DEF SameOwners, Typed
  <2>2. \A j \in 1..Len(file) : f[0][j] = Block(readable, 0, j)
    BY <1>1, <1>2 DEF Block
  <2> QED BY <2>1, <2>2
<1>4. ASSUME NEW n \in Nat, n \in P PROVE n + 1 \in P
  <2>1. SUFFICES ASSUME n + 1 <= Paired PROVE Good(n + 1)
    OBVIOUS
  <2>2. n + 1 \in 1..Paired /\ (n + 1) - 1 = n /\ n <= Paired
    BY <1>2, <2>1
  <2>3. SameOwners(f[(n + 1) - 1]) /\ \A j \in 1..Len(file) : f[(n + 1) - 1][j] = Block(readable, (n + 1) - 1, j)
    BY <1>4, <2>2
  <2>4. SameOwners(Passed(f, readable, n + 1))
    BY <2>2, <2>3, PassedKeeps
  <2>5. \A j \in 1..Len(file) : Passed(f, readable, n + 1)[j] = Block(readable, n + 1, j)
    BY <2>2, <2>3, PassedAt
  <2> QED BY <1>1, <2>2, <2>4, <2>5
<1>5. \A n \in Nat : n \in P
  <2> HIDE DEF P
  <2> QED BY <1>3, <1>4, Induction
<1>6. Paired \in P
  BY <1>2, <1>5
<1> QED BY <1>1, <1>2, <1>6

\* The client of a place is the only one that can have the login of its block.
LEMMA LiveAt ==
  ASSUME Accounts, Single, client # <<>>, NEW i \in DOMAIN file, NEW read \in SUBSET DOMAIN client
  PROVE  IF i \in read /\ client[i].psid = file[i].psid
         THEN LiveJar(file[i].psid, read) = [psid |-> file[i].psid, ts |-> client[i].ts]
              /\ LiveJar(file[i].psid, read) # NoJar
         ELSE LiveJar(file[i].psid, read) = NoJar
<1>1. /\ file[i] \in LiveJars /\ DOMAIN client = DOMAIN file
  BY DEF Accounts, Typed, Aligned
<1>2. file[i].psid \in Psids
  BY <1>1, JarFacts
<1>3. ASSUME NEW s \in DOMAIN client, client[s].psid = file[i].psid PROVE s = i
  BY <1>1, <1>3 DEF Accounts, Aligned, Owner, Single
<1>4. Typed
  BY DEF Accounts
<1> QED BY <1>1, <1>2, <1>3, <1>4, LiveJarIs

\* What the live values do to the block of a place, and to what it must keep.
LEMMA SyncedAt ==
  ASSUME Accounts, Single, client # <<>>, NEW i \in DOMAIN file, NEW read \in SUBSET DOMAIN client
  PROVE  /\ Synced(file, read)[i].psid = file[i].psid
         /\ IF i \in read /\ client[i].psid = file[i].psid
            THEN Synced(file, read)[i].ts = client[i].ts /\ SavedNow(file, read)[file[i].psid] = client[i].ts
            ELSE Synced(file, read)[i] = file[i] /\ SavedNow(file, read)[file[i].psid] = saved[file[i].psid]
<1> DEFINE p == file[i].psid
<1>1. p \in Psids /\ p # NoPsid
  BY JarFacts DEF Accounts, Typed
<1>2. Synced(file, read)[i] = IF LiveJar(p, read) # NoJar THEN LiveJar(p, read) ELSE file[i]
  BY <1>1 DEF Synced
<1>3. SavedNow(file, read)[p] = IF LiveJar(p, read) # NoJar THEN LiveJar(p, read).ts ELSE saved[p]
  BY <1>1 DEF SavedNow
<1>4. IF i \in read /\ client[i].psid = p
      THEN LiveJar(p, read) = [psid |-> p, ts |-> client[i].ts] /\ LiveJar(p, read) # NoJar
      ELSE LiveJar(p, read) = NoJar
  BY LiveAt
<1> HIDE DEF p
<1>5. Synced(file, read)[i].psid = p
  BY <1>2, <1>4 DEF p
<1> QED BY <1>2, <1>3, <1>4, <1>5 DEF p

\* Only a login that is both in the file and live gets a new value to keep.
LEMMA SavedOnlyLive ==
  ASSUME Accounts, Single, client # <<>>, NEW p \in Psids, NEW read \in SUBSET DOMAIN client,
         SavedNow(file, read)[p] # saved[p]
  PROVE  \E i \in DOMAIN file :
           file[i].psid = p /\ client[i].psid = p /\ SavedNow(file, read)[p] = client[i].ts
<1>1. PICK i \in DOMAIN file : file[i].psid = p /\ LiveJar(p, read) # NoJar
  BY DEF SavedNow
<1>2. i \in read /\ client[i].psid = p
  BY <1>1, LiveAt
<1> QED BY <1>1, <1>2, SyncedAt

-----------------------------------------------------------------------------
(* The inductive invariant of the rotations *)

Phases ==
  /\ task \in {"off", "chrome", "heal", "building", "sync", "sleep", "ended"}
  /\ proc = "down" <=> client = <<>>
  /\ proc = "down" <=> task = "off"

\* No jar, and nothing the file must keep, is past the last rotation of its login.
Bounded ==
  /\ \A p \in Psids : saved[p] <= newest[p]
  /\ \A i \in DOMAIN file : file[i].ts <= newest[file[i].psid]
  /\ \A s \in DOMAIN client : client[s].ts <= newest[client[s].psid]
  /\ \A i \in DOMAIN Profiles : chrome[i] # NoJar => chrome[i].ts <= newest[chrome[i].psid]
  /\ fresh # NoJar => fresh.ts <= newest[fresh.psid]

\* What the next pass of Chrome may put over a block without the live pass
\* putting the client's jar back is not behind what the file must keep.
ChromeKept ==
  \A i \in DOMAIN file \cap DOMAIN Profiles :
    /\ chrome[i] # NoJar
    /\ chrome[i].psid # file[i].psid \/ (client # <<>> /\ chrome[i].psid # client[i].psid)
    => chrome[i].ts >= saved[chrome[i].psid]

Kept(i) == file[i].ts >= saved[file[i].psid]

\* A block that is behind has the login of its client; none is behind when no
\* live pass is due.
FileKept ==
  /\ ~torn => \A i \in DOMAIN file : Kept(i)
  /\ client # <<>> => \A i \in DOMAIN file : Kept(i) \/ client[i].psid = file[i].psid

Rotations == Accounts /\ Single /\ Phases /\ Bounded /\ ChromeKept /\ FileKept

LEMMA RotationsInit ==
  ASSUME Matched, Distinct, Init
  PROVE  Rotations
<1>1. Accounts
  BY AccountsInit
<1>2. /\ file \in Files /\ file \in Seq(LiveJars) /\ client = <<>> /\ DOMAIN client = {}
      /\ newest = [p \in Psids |-> 0] /\ saved = [p \in Psids |-> 0] /\ fresh = NoJar
      /\ proc = "down" /\ task = "off" /\ torn = FALSE
  <2>1. client = <<>> /\ DOMAIN <<>> = {}
    BY DEF Init
  <2> QED BY <1>1, <2>1 DEF Init, Accounts, Typed
<1>3. ASSUME NEW i \in DOMAIN file PROVE file[i].psid \in Psids /\ file[i].ts = 0
  <2> DEFINE Old == [psid : Psids \cup {NoPsid}, ts : {0}]
  <2> HIDE DEF Old
  <2>1. file \in Seq(Old)
    BY <1>2, JarsAssumption DEF Old
  <2>2. file[i] \in Old /\ file[i] \in LiveJars
    BY <1>2, <2>1
  <2> QED BY <2>2 DEF Old, LiveJars
<1>4. ASSUME NEW i \in DOMAIN Profiles PROVE chrome[i].psid \in Psids /\ chrome[i].ts = 0
  BY DEF Init
<1>5. Single
  BY <1>2 DEF Single, Distinct, Owner
<1>6. Phases /\ Bounded
  BY <1>2, <1>3, <1>4 DEF Phases, Bounded
<1>7. ChromeKept /\ FileKept
  BY <1>2, <1>3, <1>4 DEF ChromeKept, FileKept, Kept
<1> QED BY <1>1, <1>5, <1>6, <1>7 DEF Rotations

LEMMA SingleStep ==
  ASSUME Accounts, Single, SameOwners(file')
  PROVE  Single'
<1>1. DOMAIN file = 1..Len(file) /\ DOMAIN file' = 1..Len(file)
  BY DEF Accounts, Typed, SameOwners
<1> QED BY <1>1 DEF SameOwners, Single, Owner

\* A client that is changed or replaced leaves the others in place.
LEMMA ClientStays ==
  ASSUME Typed, NEW s \in DOMAIN client, NEW c, client' = [client EXCEPT ![s] = c]
  PROVE  client # <<>> /\ client' # <<>> /\ DOMAIN client' = DOMAIN client
<1>1. DOMAIN client' = DOMAIN client /\ s \in DOMAIN client /\ DOMAIN <<>> = {}
  OBVIOUS
<1> QED BY <1>1

LEMMA PhasesStep ==
  ASSUME Accounts, Phases, [Next]_vars
  PROVE  Phases'
<1>0. Typed
  BY DEF Accounts
<1>1. CASE UNCHANGED vars
  BY <1>1 DEF vars, Phases
<1>2. CASE Boot
  <2>1. Len(client') = Len(file) /\ file \in Seq(LiveJars) /\ file # <<>> /\ client' \in Seq(Clients)
    BY <1>2, AccountsBoot DEF Accounts, Typed
  <2>2. client' # <<>>
    BY <2>1
  <2> QED BY <1>2, <2>2 DEF Boot, Phases
<1>3. CASE ChromeRefresh \/ HealSkip \/ HealBuild \/ HealDrop \/ HealDone \/ LiveSync \/ Wake \/ Stop
  BY <1>3 DEF ChromeRefresh, HealSkip, HealMore, HealBuild, HealDrop, HealDone, LiveSync, Wake, Stop,
              history, Phases
<1>4. CASE Shutdown \/ Kill
  BY <1>4 DEF Shutdown, Kill, Down, Phases
<1>5. CASE HealSwap
  <2>1. slot \in DOMAIN client
    BY <1>5 DEF HealSwap, Accounts, Aligned
  <2>2. client # <<>> /\ client' # <<>>
    BY <1>0, <1>5, <2>1, ClientStays DEF HealSwap
  <2> QED BY <1>5, <2>2 DEF HealSwap, Phases
<1>6. ASSUME NEW s \in DOMAIN client, Rotate(s) \/ SetStatus(s) PROVE Phases'
  <2>1. client # <<>> /\ client' # <<>>
    BY <1>0, <1>6, ClientStays DEF Rotate, SetStatus
  <2> QED BY <1>6, <2>1 DEF Rotate, SetStatus, history, Phases
<1>7. ASSUME NEW i \in DOMAIN chrome, Browse(i) \/ Login(i) PROVE Phases'
  BY <1>7 DEF Browse, Login, history, Phases
<1> QED BY <1>1, <1>2, <1>3, <1>4, <1>5, <1>6, <1>7 DEF Next, Loop

LEMMA Numbers ==
  ASSUME Typed
  PROVE  /\ \A p \in Psids : newest[p] \in Nat /\ saved[p] \in Nat
         /\ \A i \in DOMAIN file : file[i].psid \in Psids /\ file[i].ts \in Nat
         /\ \A s \in DOMAIN client : client[s].psid \in Psids /\ client[s].ts \in Nat
         /\ \A i \in DOMAIN Profiles :
              chrome[i] # NoJar => chrome[i].psid \in Psids /\ chrome[i].ts \in Nat
         /\ fresh # NoJar => fresh.psid \in Psids /\ fresh.ts \in Nat
<1>1. /\ \A i \in DOMAIN file : file[i] \in LiveJars
      /\ \A s \in DOMAIN client : client[s] \in Clients
      /\ \A i \in DOMAIN Profiles : chrome[i] # NoJar => chrome[i] \in LiveJars
      /\ fresh # NoJar => fresh \in LiveJars
      /\ newest \in [Psids -> Nat] /\ saved \in [Psids -> Nat]
  BY DEF Typed
<1> QED BY <1>1 DEF LiveJars, Clients

LEMMA BoundedFile ==
  ASSUME Accounts, Single, Bounded, client # <<>>, NEW read \in SUBSET DOMAIN client,
         file' = Synced(file, read), saved' = SavedNow(file, read),
         UNCHANGED <<chrome, newest>>, client' = client \/ client' = <<>>, fresh' = NoJar \/ fresh' = fresh
  PROVE  Bounded'
<1>0. Typed
  BY DEF Accounts
<1>1. DOMAIN file' = DOMAIN file /\ DOMAIN <<>> = {} /\ DOMAIN client = DOMAIN file
  BY DEF Synced, Accounts, Typed, Aligned
<1>2. ASSUME NEW p \in Psids PROVE saved'[p] <= newest'[p]
  <2>1. CASE saved'[p] = saved[p]
    BY <2>1 DEF Bounded
  <2>2. CASE saved'[p] # saved[p]
    <3>1. PICK i \in DOMAIN file : client[i].psid = p /\ saved'[p] = client[i].ts
      BY <2>2, SavedOnlyLive
    <3> QED BY <1>1, <3>1 DEF Bounded
  <2> QED BY <2>1, <2>2
<1>3. ASSUME NEW i \in DOMAIN file PROVE file'[i].ts <= newest'[file'[i].psid]
  <2>1. CASE i \in read /\ client[i].psid = file[i].psid
    BY <1>1, <2>1, SyncedAt DEF Bounded
  <2>2. CASE ~(i \in read /\ client[i].psid = file[i].psid)
    BY <1>1, <2>2, SyncedAt DEF Bounded
  <2> QED BY <2>1, <2>2
<1>4. /\ \A s \in DOMAIN client' : client'[s].ts <= newest'[client'[s].psid]
      /\ \A i \in DOMAIN Profiles : chrome'[i] # NoJar => chrome'[i].ts <= newest'[chrome'[i].psid]
      /\ fresh' # NoJar => fresh'.ts <= newest'[fresh'.psid]
  BY <1>1 DEF Bounded
<1> QED BY <1>1, <1>2, <1>3, <1>4 DEF Bounded

\* A login has been rotated, by its client s or in profile i.
LEMMA BoundedMinted ==
  ASSUME Accounts, Bounded, UNCHANGED <<file, saved, fresh>>, NEW p \in Psids,
         newest' = [newest EXCEPT ![p] = newest[p] + 1],
         \/ chrome' = chrome /\ \E s \in DOMAIN client : \E c :
              /\ client' = [client EXCEPT ![s] = c] /\ c.psid = p /\ c.ts = newest[p] + 1
         \/ client' = client /\ \E i \in DOMAIN Profiles :
              chrome' = [chrome EXCEPT ![i] = [psid |-> p, ts |-> newest[p] + 1]]
  PROVE  Bounded'
<1>0. Typed
  BY DEF Accounts
<1>1. ASSUME NEW q \in Psids PROVE newest[q] \in Nat /\ newest[q] <= newest'[q]
  BY <1>0, Numbers DEF Accounts, Typed
<1>2. newest'[p] = newest[p] + 1 /\ newest[p] + 1 <= newest[p] + 1
  BY <1>0, Numbers DEF Typed
<1> DEFINE new == newest[p] + 1
<1>3. newest'[p] = new /\ new <= new
  BY <1>2
<1> HIDE DEF new
<1>4. \A q \in Psids : \A n \in Nat : n <= newest[q] => n <= newest'[q]
  <2> SUFFICES ASSUME NEW q \in Psids, NEW n \in Nat, n <= newest[q] PROVE n <= newest'[q]
    OBVIOUS
  <2>1. newest'[q] \in Nat
    BY <1>0, <1>1, Numbers DEF Typed
  <2> QED BY <1>1, <2>1
<1>5. \A s \in DOMAIN client' : client'[s].ts <= newest'[client'[s].psid]
  <2>1. CASE client' = client
    BY <1>0, <1>4, <2>1, Numbers DEF Bounded
  <2>2. CASE \E s \in DOMAIN client : \E c :
               client' = [client EXCEPT ![s] = c] /\ c.psid = p /\ c.ts = newest[p] + 1
    <3>0. PICK s \in DOMAIN client :
            \E c : client' = [client EXCEPT ![s] = c] /\ c.psid = p /\ c.ts = new
      BY <2>2 DEF new
    <3>1. PICK c : client' = [client EXCEPT ![s] = c] /\ c.psid = p /\ c.ts = new
      BY <3>0
    <3>2. DOMAIN client' = DOMAIN client /\ client'[s] = c
          /\ \A k \in DOMAIN client : k # s => client'[k] = client[k]
      BY <3>1
    <3>3. client'[s].ts <= newest'[client'[s].psid]
      BY <1>3, <3>1, <3>2
    <3>4. \A k \in DOMAIN client : client[k].ts <= newest'[client[k].psid]
      BY <1>0, <1>4, Numbers DEF Bounded
    <3> QED BY <3>2, <3>3, <3>4
  <2> QED BY <2>1, <2>2
<1>6. \A i \in DOMAIN Profiles : chrome'[i] # NoJar => chrome'[i].ts <= newest'[chrome'[i].psid]
  <2>0. \A i \in DOMAIN Profiles : chrome[i] # NoJar => chrome[i].ts <= newest'[chrome[i].psid]
    BY <1>0, <1>4, Numbers DEF Bounded
  <2>1. CASE chrome' = chrome
    BY <2>0, <2>1
  <2>2. CASE \E i \in DOMAIN Profiles : chrome' = [chrome EXCEPT ![i] = [psid |-> p, ts |-> newest[p] + 1]]
    <3>1. PICK i \in DOMAIN Profiles : chrome' = [chrome EXCEPT ![i] = [psid |-> p, ts |-> new]]
      BY <2>2 DEF new
    <3>2. DOMAIN chrome = DOMAIN Profiles
      BY <1>0 DEF Typed
    <3>3. /\ chrome'[i] = [psid |-> p, ts |-> new]
          /\ \A k \in DOMAIN Profiles : k # i => chrome'[k] = chrome[k]
      BY <3>1, <3>2
    <3>4. chrome'[i].ts <= newest'[chrome'[i].psid]
      BY <1>3, <3>3
    <3> QED BY <2>0, <3>3, <3>4
  <2> QED BY <2>1, <2>2
<1>7. /\ \A q \in Psids : saved'[q] <= newest'[q]
      /\ \A i \in DOMAIN file' : file'[i].ts <= newest'[file'[i].psid]
      /\ fresh' # NoJar => fresh'.ts <= newest'[fresh'.psid]
  BY <1>0, <1>4, Numbers DEF Bounded
<1> QED BY <1>5, <1>6, <1>7 DEF Bounded

\* A client takes the cookies of Chrome: both logins of the slot start anew.
LEMMA SwapIs ==
  ASSUME Accounts, HealSwap
  PROVE  /\ slot \in DOMAIN client /\ fresh \in LiveJars /\ client # <<>> /\ client' # <<>>
         /\ DOMAIN client' = DOMAIN client
         /\ client'[slot].psid = fresh.psid /\ client'[slot].ts = fresh.ts
         /\ \A s \in DOMAIN client : s # slot => client'[s] = client[s]
         /\ \A p \in Psids : saved'[p] = IF p \in {client[slot].psid, fresh.psid} THEN 0 ELSE saved[p]
<1>1. slot \in DOMAIN client /\ fresh \in LiveJars /\ Typed
  BY DEF HealSwap, Accounts, Aligned, Typed
<1>2. client[slot].psid \in Psids /\ fresh.psid \in Psids
  BY <1>1, Numbers, JarFacts
<1>3. client # <<>> /\ client' # <<>>
  BY <1>1, ClientStays DEF HealSwap
<1> DEFINE new == [psid |-> fresh.psid, ts |-> fresh.ts, up |-> TRUE]
<1>4. new.psid = fresh.psid /\ new.ts = fresh.ts /\ client' = [client EXCEPT ![slot] = new]
  BY DEF HealSwap
<1> HIDE DEF new
<1>5. saved' = [saved EXCEPT ![client[slot].psid] = 0, ![fresh.psid] = 0]
  BY DEF HealSwap
<1>6. saved \in [Psids -> Nat]
  BY <1>1 DEF Typed
<1> QED BY <1>1, <1>2, <1>3, <1>4, <1>5, <1>6

LEMMA BoundedStep ==
  ASSUME Accounts, Single, Phases, Bounded, [Next]_vars
  PROVE  Bounded'
<1>0. Typed
  BY DEF Accounts
<1>1. CASE UNCHANGED vars
  BY <1>1 DEF vars, Bounded
<1>2. CASE Boot
  <2>1. /\ \A s \in DOMAIN file : client'[s].psid = file[s].psid /\ client'[s].ts = file[s].ts
        /\ DOMAIN client' = DOMAIN file
    <3>1. Accounts' /\ Len(client') = Len(file) /\ file \in Seq(LiveJars)
      BY <1>0, <1>2, AccountsBoot DEF Typed
    <3>2. DOMAIN client' = 1..Len(client') /\ DOMAIN file = 1..Len(file)
      BY <3>1 DEF Accounts, Typed
    <3> QED BY <1>2, <3>1, <3>2, AccountsBoot
  <2>2. UNCHANGED <<file, chrome, newest, fresh, saved>>
    BY <1>2 DEF Boot
  <2> QED BY <2>1, <2>2 DEF Bounded
<1>3. CASE ChromeRefresh
  <2>1. PICK readable \in SUBSET DOMAIN chrome : file' = Refreshed(readable)
    BY <1>3 DEF ChromeRefresh
  <2>2. UNCHANGED <<chrome, newest, client, fresh, saved>>
    BY <1>3 DEF ChromeRefresh
  <2>3. DOMAIN file' = DOMAIN file
    BY <2>1, RefreshedKeeps DEF Accounts, Typed, SameOwners
  <2>4. ASSUME NEW i \in DOMAIN file PROVE file'[i].ts <= newest[file'[i].psid]
    <3>1. file'[i] = Block(readable, Paired, i)
      BY <2>1, RefreshedIs
    <3>2. DOMAIN chrome = DOMAIN Profiles
      BY <1>0 DEF Typed
    <3> QED BY <3>1, <3>2 DEF Block, Bounded
  <2> QED BY <2>2, <2>3, <2>4 DEF Bounded
<1>4. CASE HealSkip \/ HealDrop \/ HealDone \/ Wake \/ Stop
  <2>1. UNCHANGED <<file, chrome, newest, client, saved>> /\ (fresh' = fresh \/ fresh' = NoJar)
    BY <1>4 DEF HealSkip, HealMore, HealDrop, HealDone, Wake, Stop, history
  <2> QED BY <2>1 DEF Bounded
<1>5. CASE HealBuild
  <2>1. UNCHANGED <<file, chrome, newest, client, saved>> /\ fresh' = chrome[slot] /\ slot \in DOMAIN Profiles
    BY <1>0, <1>5, SlotFacts DEF HealBuild, HealJar, history
  <2> QED BY <2>1 DEF Bounded
<1>6. CASE HealSwap
  <2>1. UNCHANGED <<file, chrome, newest>> /\ fresh' = NoJar
    BY <1>6 DEF HealSwap
  <2>2. fresh # NoJar
    BY <1>6 DEF HealSwap, Accounts, Aligned
  <2>3. \A p \in Psids : saved'[p] <= newest[p]
    BY <1>0, <1>6, SwapIs, Numbers DEF Bounded
  <2>4. \A s \in DOMAIN client' : client'[s].ts <= newest[client'[s].psid]
    BY <1>6, <2>2, SwapIs DEF Bounded
  <2> QED BY <2>1, <2>3, <2>4 DEF Bounded
<1>7. CASE LiveSync \/ Shutdown
  <2>1. client # <<>>
    BY <1>7 DEF LiveSync, Shutdown, Phases
  <2>2. PICK read \in SUBSET DOMAIN client :
          file' = Synced(file, read) /\ saved' = SavedNow(file, read)
    BY <1>7, LivePassIs DEF LiveSync, Shutdown
  <2>3. UNCHANGED <<chrome, newest>> /\ (client' = client \/ client' = <<>>)
        /\ (fresh' = NoJar \/ fresh' = fresh)
    BY <1>7 DEF LiveSync, Shutdown, Down
  <2> QED BY <2>1, <2>2, <2>3, BoundedFile
<1>8. CASE Kill
  <2>1. UNCHANGED <<file, chrome, newest, saved>> /\ client' = <<>> /\ fresh' = NoJar /\ DOMAIN <<>> = {}
    BY <1>8 DEF Kill, Down, history
  <2> QED BY <2>1 DEF Bounded
<1>9. ASSUME NEW s \in DOMAIN client, Rotate(s) PROVE Bounded'
  <2> DEFINE p == client[s].psid
             c == [client[s] EXCEPT !.ts = newest[client[s].psid] + 1]
  <2>1. client[s] \in Clients
    BY <1>0 DEF Typed
  <2>2. p \in Psids /\ c.psid = p /\ c.ts = newest[p] + 1
    BY <2>1 DEF Clients
  <2>3. client' = [client EXCEPT ![s] = c] /\ newest' = [newest EXCEPT ![p] = newest[p] + 1]
    BY <1>9 DEF Rotate, Minted
  <2>4. UNCHANGED <<file, saved, fresh, chrome>>
    BY <1>9 DEF Rotate, history
  <2> HIDE DEF p, c
  <2>5. \E k \in DOMAIN client : \E d :
          client' = [client EXCEPT ![k] = d] /\ d.psid = p /\ d.ts = newest[p] + 1
    BY <2>2, <2>3
  <2> QED BY <2>2, <2>3, <2>4, <2>5, BoundedMinted
<1>10. ASSUME NEW s \in DOMAIN client, SetStatus(s) PROVE Bounded'
  <2>1. UNCHANGED <<file, chrome, newest, saved, fresh>>
    BY <1>10 DEF SetStatus, history
  <2>2. DOMAIN client' = DOMAIN client
        /\ \A k \in DOMAIN client : client'[k].psid = client[k].psid /\ client'[k].ts = client[k].ts
    <3>1. client[s] \in Clients
      BY <1>0 DEF Typed
    <3>2. client' = [client EXCEPT ![s] = [client[s] EXCEPT !.up = ~@]]
      BY <1>10 DEF SetStatus
    <3> DEFINE c == [client[s] EXCEPT !.up = ~@]
    <3>3. c.psid = client[s].psid /\ c.ts = client[s].ts /\ client' = [client EXCEPT ![s] = c]
      BY <3>1, <3>2 DEF Clients
    <3> HIDE DEF c
    <3> QED BY <3>3
  <2> QED BY <2>1, <2>2 DEF Bounded
<1>11. ASSUME NEW i \in DOMAIN chrome, Browse(i) \/ Login(i) PROVE Bounded'
  <2>1. Browsed(i) /\ UNCHANGED <<file, client, proc, task, slot, fresh, boots, history>>
    BY <1>11, Browses
  <2>2. i \in DOMAIN Profiles /\ DOMAIN chrome = DOMAIN Profiles
    BY <1>0 DEF Typed
  <2>3. CASE chrome' = [chrome EXCEPT ![i] = NoJar] /\ newest' = newest
    BY <2>1, <2>2, <2>3 DEF Bounded, history
  <2>4. CASE \E p \in Psids :
               /\ newest' = [newest EXCEPT ![p] = newest[p] + 1]
               /\ chrome' = [chrome EXCEPT ![i] = [psid |-> p, ts |-> newest[p] + 1]]
    <3>1. PICK p \in Psids :
             /\ newest' = [newest EXCEPT ![p] = newest[p] + 1]
             /\ chrome' = [chrome EXCEPT ![i] = [psid |-> p, ts |-> newest[p] + 1]]
      BY <2>4
    <3>2. UNCHANGED <<file, saved, fresh>> /\ client' = client
      BY <2>1 DEF history
    <3>3. \E k \in DOMAIN Profiles : chrome' = [chrome EXCEPT ![k] = [psid |-> p, ts |-> newest[p] + 1]]
      BY <2>2, <3>1
    <3> QED BY <3>1, <3>2, <3>3, BoundedMinted
  <2> QED BY <2>1, <2>3, <2>4 DEF Browsed
<1> QED
  BY <1>1, <1>2, <1>3, <1>4, <1>5, <1>6, <1>7, <1>8, <1>9, <1>10, <1>11 DEF Next, Loop

\* A pass of the live values, by the loop or by a shutdown.
LEMMA KeptSync ==
  ASSUME Accounts, Single, FileKept, ChromeKept, client # <<>>, NEW read \in SUBSET DOMAIN client,
         file' = Synced(file, read), saved' = SavedNow(file, read),
         torn' = (torn /\ read # DOMAIN client), chrome' = chrome,
         client' = client \/ client' = <<>>
  PROVE  ChromeKept' /\ FileKept'
<1>0. Typed /\ DOMAIN file' = DOMAIN file /\ DOMAIN client = DOMAIN file
  BY DEF Synced, Accounts, Typed, Aligned
<1>1. ASSUME NEW i \in DOMAIN file
      PROVE  /\ file'[i].psid = file[i].psid
             /\ \/ file'[i].ts >= saved'[file'[i].psid]
                \/ i \notin read /\ client[i].psid = file[i].psid /\ torn
  <2>1. CASE i \in read /\ client[i].psid = file[i].psid
    <3>1. file'[i].ts = client[i].ts /\ saved'[file'[i].psid] = client[i].ts /\ file'[i].psid = file[i].psid
      BY <2>1, SyncedAt
    <3>2. client[i].ts \in Nat
      BY <1>0, Numbers
    <3> QED BY <3>1, <3>2
  <2>2. CASE ~(i \in read /\ client[i].psid = file[i].psid)
    <3>1. file'[i] = file[i] /\ saved'[file[i].psid] = saved[file[i].psid]
      BY <2>2, SyncedAt
    <3>2. Kept(i) \/ (client[i].psid = file[i].psid /\ torn)
      BY DEF FileKept
    <3> QED BY <2>2, <3>1, <3>2 DEF Kept
  <2> QED BY <2>1, <2>2
<1>2. FileKept'
  <2>1. torn' => torn
    OBVIOUS
  <2>2. ASSUME ~torn', NEW i \in DOMAIN file PROVE file'[i].ts >= saved'[file'[i].psid]
    BY <1>0, <1>1, <2>2
  <2>3. ASSUME client' # <<>>, NEW i \in DOMAIN file
        PROVE  file'[i].ts >= saved'[file'[i].psid] \/ client'[i].psid = file'[i].psid
    BY <1>1, <2>3
  <2> QED BY <1>0, <2>2, <2>3 DEF FileKept, Kept
<1>3. ASSUME NEW i \in DOMAIN file \cap DOMAIN Profiles, chrome[i] # NoJar,
             chrome[i].psid # file[i].psid \/ chrome[i].psid # client[i].psid
      PROVE  chrome[i].ts >= saved'[chrome[i].psid]
  <2>1. chrome[i].psid \in Psids /\ chrome[i].ts >= saved[chrome[i].psid]
    BY <1>0, <1>3, Numbers DEF ChromeKept
  <2>2. ASSUME saved'[chrome[i].psid] # saved[chrome[i].psid] PROVE FALSE
    <3>1. PICK j \in DOMAIN file : file[j].psid = chrome[i].psid /\ client[j].psid = chrome[i].psid
      BY <2>1, <2>2, SavedOnlyLive
    <3>2. Owner(file[j]) = Owner(file[i])
      BY <1>3, <3>1 DEF Accounts, Aligned, Owner
    <3>3. j = i
      BY <3>2 DEF Single
    <3> QED BY <1>3, <3>1, <3>3
  <2> QED BY <2>1, <2>2
<1>4. ChromeKept'
  <2>1. ASSUME NEW i \in DOMAIN file \cap DOMAIN Profiles, chrome[i] # NoJar,
               chrome[i].psid # file'[i].psid \/ (client' # <<>> /\ chrome[i].psid # client'[i].psid)
        PROVE  chrome[i].ts >= saved'[chrome[i].psid]
    BY <1>1, <1>3, <2>1
  <2> QED BY <1>0, <2>1 DEF ChromeKept
<1> QED BY <1>2, <1>4

LEMMA KeptStep ==
  ASSUME Accounts, Single, Phases, Bounded, FileKept, ChromeKept, [Next]_vars
  PROVE  ChromeKept' /\ FileKept'
<1>0. Typed /\ DOMAIN chrome = DOMAIN Profiles
  BY DEF Accounts, Typed
<1>1. CASE UNCHANGED vars
  BY <1>1 DEF vars, ChromeKept, FileKept, Kept
<1>2. CASE Boot
  <2>1. /\ \A s \in DOMAIN file : client'[s].psid = file[s].psid
        /\ UNCHANGED <<file, chrome, saved, torn>> /\ client = <<>>
    BY <1>2, AccountsBoot DEF Boot, Phases
  <2>2. task = "off" /\ task' = "chrome"
    BY <1>2 DEF Boot, Phases
  <2> QED BY <2>1, <2>2 DEF ChromeKept, FileKept, Kept
<1>3. CASE ChromeRefresh
  <2>1. PICK readable \in SUBSET DOMAIN chrome : file' = Refreshed(readable)
    BY <1>3 DEF ChromeRefresh
  <2>2. /\ UNCHANGED <<chrome, client, saved>> /\ client # <<>>
        /\ ~torn' => ~torn /\ file' = file
    BY <1>3 DEF ChromeRefresh, Phases
  <2>3. DOMAIN file' = DOMAIN file
    BY <2>1, RefreshedKeeps DEF Accounts, Typed, SameOwners
  <2>4. ASSUME NEW i \in DOMAIN file
        PROVE  \/ file'[i] = file[i]
               \/ i \in DOMAIN Profiles /\ chrome[i] # NoJar /\ file'[i] = chrome[i]
    BY <1>0, <2>1, RefreshedIs DEF Block
  <2>5. ASSUME NEW i \in DOMAIN file
        PROVE  file'[i].ts >= saved[file'[i].psid] \/ client[i].psid = file'[i].psid
    <3>1. CASE file'[i] = file[i]
      BY <2>2, <3>1 DEF FileKept, Kept
    <3>2. CASE i \in DOMAIN Profiles /\ chrome[i] # NoJar /\ file'[i] = chrome[i]
      BY <2>2, <3>2 DEF ChromeKept
    <3> QED BY <2>4, <3>1, <3>2
  <2>6. FileKept'
    <3>1. ~torn' => \A i \in DOMAIN file : Kept(i)
      BY <2>2 DEF FileKept
    <3> QED BY <2>2, <2>3, <2>5, <3>1 DEF FileKept, Kept
  <2>7. ChromeKept'
    BY <2>2, <2>3, <2>4 DEF ChromeKept
  <2> QED BY <2>6, <2>7
<1>4. CASE HealSkip \/ HealBuild \/ HealDrop \/ HealDone
  <2>1. UNCHANGED <<file, chrome, client, saved, torn>>
    BY <1>4 DEF HealSkip, HealMore, HealBuild, HealDrop, HealDone, history
  <2> QED BY <2>1 DEF ChromeKept, FileKept, Kept
<1>5. CASE HealSwap
  <2>1. UNCHANGED <<file, chrome, torn>>
    BY <1>5 DEF HealSwap
  <2>2. /\ slot \in DOMAIN client /\ client # <<>> /\ client' # <<>>
        /\ client'[slot].psid = fresh.psid
        /\ \A s \in DOMAIN client : s # slot => client'[s] = client[s]
        /\ \A p \in Psids : saved'[p] = IF p \in {client[slot].psid, fresh.psid} THEN 0 ELSE saved[p]
    BY <1>5, SwapIs
  <2>3. DOMAIN client = DOMAIN file
    BY <2>2 DEF Accounts, Typed, Aligned
  <2>4. \A p \in Psids : saved'[p] = 0 \/ saved'[p] = saved[p]
    BY <2>2
  <2>5. ASSUME NEW i \in DOMAIN file
        PROVE  file[i].ts >= saved'[file[i].psid] \/ client'[i].psid = file[i].psid
    <3>1. file[i].psid \in Psids /\ file[i].ts \in Nat
      BY <1>0, Numbers
    <3>2. CASE Kept(i)
      BY <2>4, <3>1, <3>2 DEF Kept
    <3>3. CASE ~Kept(i)
      <4>1. client[i].psid = file[i].psid
        BY <2>2, <3>3 DEF FileKept
      <4>2. CASE i = slot
        BY <2>2, <3>1, <4>1, <4>2
      <4>3. CASE i # slot
        BY <2>2, <2>3, <4>1, <4>3
      <4> QED BY <4>2, <4>3
    <3> QED BY <3>2, <3>3
  <2>6. FileKept'
    <3>1. ASSUME ~torn, NEW i \in DOMAIN file PROVE file[i].ts >= saved'[file[i].psid]
      <4>1. file[i].psid \in Psids /\ file[i].ts \in Nat /\ Kept(i)
        BY <1>0, <3>1, Numbers DEF FileKept
      <4> QED BY <2>4, <4>1 DEF Kept
    <3> QED BY <2>1, <2>5, <3>1 DEF FileKept, Kept
  <2>7. ASSUME NEW i \in DOMAIN file \cap DOMAIN Profiles, chrome[i] # NoJar,
               chrome[i].psid # file[i].psid \/ chrome[i].psid # client'[i].psid
        PROVE  chrome[i].ts >= saved'[chrome[i].psid]
    <3>1. chrome[i].psid \in Psids /\ chrome[i].ts \in Nat
      BY <1>0, <2>7, Numbers
    <3>2. CASE chrome[i].psid # file[i].psid \/ chrome[i].psid # client[i].psid
      <4>1. chrome[i].ts >= saved[chrome[i].psid]
        BY <2>2, <2>7, <3>2 DEF ChromeKept
      <4> QED BY <2>4, <3>1, <4>1
    <3>3. CASE chrome[i].psid = file[i].psid /\ chrome[i].psid = client[i].psid
      <4>1. i = slot
        BY <2>2, <2>3, <2>7, <3>3
      <4>2. saved'[chrome[i].psid] = 0
        BY <2>2, <3>1, <3>3, <4>1
      <4> QED BY <3>1, <4>2
    <3> QED BY <3>2, <3>3
  <2>8. ChromeKept'
    BY <2>1, <2>7 DEF ChromeKept
  <2> QED BY <2>6, <2>8
<1>6. CASE LiveSync \/ Shutdown
  <2>1. client # <<>>
    BY <1>6 DEF LiveSync, Shutdown, Phases
  <2>2. PICK read \in SUBSET DOMAIN client :
          /\ file' = Synced(file, read) /\ saved' = SavedNow(file, read)
          /\ torn' = (torn /\ read # DOMAIN client)
    BY <1>6, LivePassIs DEF LiveSync, Shutdown
  <2>3. chrome' = chrome /\ (client' = client \/ client' = <<>>)
    BY <1>6 DEF LiveSync, Shutdown, Down
  <2> QED BY <2>1, <2>2, <2>3, KeptSync
<1>7. CASE Wake
  BY <1>7 DEF Wake, ChromeKept, FileKept, Kept, history
<1>8. CASE Stop
  <2>1. UNCHANGED <<file, chrome, client, saved, torn>>
    BY <1>8 DEF Stop, history
  <2> QED BY <2>1 DEF ChromeKept, FileKept, Kept
<1>9. CASE Kill
  <2>1. UNCHANGED <<file, chrome, saved, torn>> /\ client' = <<>>
    BY <1>9 DEF Kill, Down, history
  <2> QED BY <2>1 DEF ChromeKept, FileKept, Kept
<1>10. ASSUME NEW s \in DOMAIN client, Rotate(s) \/ SetStatus(s) PROVE ChromeKept' /\ FileKept'
  <2>1. UNCHANGED <<file, chrome, saved, torn>>
    BY <1>10 DEF Rotate, SetStatus, history
  <2>2. client # <<>> /\ client' # <<>> /\ DOMAIN client = DOMAIN file
    BY <1>0, <1>10, ClientStays DEF Rotate, SetStatus, Accounts, Typed, Aligned
  <2>3. \A k \in DOMAIN client : client'[k].psid = client[k].psid
    <3>1. client[s] \in Clients
      BY <1>0 DEF Typed
    <3>2. PICK c : client' = [client EXCEPT ![s] = c] /\ c.psid = client[s].psid
      BY <1>10, <3>1 DEF Rotate, SetStatus, Clients
    <3> QED BY <3>2
  <2> QED BY <2>1, <2>2, <2>3 DEF ChromeKept, FileKept, Kept
<1>11. ASSUME NEW i \in DOMAIN chrome, Browse(i) \/ Login(i) PROVE ChromeKept' /\ FileKept'
  <2>1. Browsed(i) /\ UNCHANGED <<file, client, proc, task, slot, fresh, boots, history>>
    BY <1>11, Browses
  <2>2. FileKept'
    BY <2>1 DEF FileKept, Kept, history
  <2>3. \/ chrome'[i] = NoJar
        \/ chrome'[i].psid \in Psids /\ chrome'[i].ts >= saved[chrome'[i].psid]
    <3>1. CASE chrome' = [chrome EXCEPT ![i] = NoJar]
      BY <3>1
    <3>2. CASE \E p \in Psids : chrome' = [chrome EXCEPT ![i] = [psid |-> p, ts |-> newest[p] + 1]]
      <4>1. PICK p \in Psids : chrome' = [chrome EXCEPT ![i] = [psid |-> p, ts |-> newest[p] + 1]]
        BY <3>2
      <4>2. chrome'[i].psid = p /\ chrome'[i].ts = newest[p] + 1
        BY <4>1
      <4>3. newest[p] \in Nat /\ saved[p] \in Nat /\ saved[p] <= newest[p]
        BY <1>0, Numbers DEF Bounded
      <4> QED BY <4>2, <4>3
    <3> QED BY <2>1, <3>1, <3>2 DEF Browsed
  <2>4. \A k \in DOMAIN chrome : k # i => chrome'[k] = chrome[k]
    BY <2>1 DEF Browsed
  <2>5. ChromeKept'
    BY <1>0, <2>1, <2>3, <2>4 DEF ChromeKept, history
  <2> QED BY <2>2, <2>5
<1> QED
  BY <1>1, <1>2, <1>3, <1>4, <1>5, <1>6, <1>7, <1>8, <1>9, <1>10, <1>11 DEF Next, Loop

\* The inductive invariant of RotationsKept: which rotations the file, the clients
\* and Chrome may hold in each phase of a pass.
THEOREM RotationsInvariant ==
  ASSUME Matched, Distinct
  PROVE  Spec => []Rotations
<1>1. Init => Rotations
  BY RotationsInit
<1>2. Rotations /\ [Next]_vars => Rotations'
  <2> SUFFICES ASSUME Rotations, [Next]_vars PROVE Rotations'
    OBVIOUS
  <2>1. Accounts' /\ SameOwners(file')
    BY AccountsStep DEF Rotations
  <2>2. Single'
    BY <2>1, SingleStep DEF Rotations
  <2>3. Phases' /\ Bounded' /\ ChromeKept' /\ FileKept'
    BY PhasesStep, BoundedStep, KeptStep DEF Rotations
  <2> QED BY <2>1, <2>2, <2>3 DEF Rotations
<1> QED BY <1>1, <1>2, PTL DEF Spec

\* RotationsKept: whatever Chrome holds, a rotation in the file stays there.
THEOREM RotationsStay ==
  ASSUME Matched, Distinct
  PROVE  Spec => []RotationsKept
<1>1. Rotations => RotationsKept
  BY DEF Rotations, FileKept, Kept, RotationsKept, RotationsInFile
<1> QED BY <1>1, RotationsInvariant, PTL

\* RefreshIsPositional: a pass of Chrome fills the block of every profile it reads.
THEOREM RefreshFillsBlocks ==
  ASSUME Matched, Distinct
  PROVE  Spec => RefreshIsPositional
<1>1. Rotations /\ [Next]_vars =>
        [\A i \in 1..Paired : (task = "chrome" /\ task' = "heal" /\ seen'[i] # NoJar) =>
           file'[i] = chrome[i]]_vars
  <2> SUFFICES ASSUME Rotations, [Next]_vars, NEW i \in 1..Paired,
                      task = "chrome", task' = "heal", seen'[i] # NoJar
               PROVE  file'[i] = chrome[i]
    OBVIOUS
  <2>1. /\ Accounts /\ Single /\ DOMAIN chrome = DOMAIN Profiles /\ Paired \in Nat
        /\ i \in DOMAIN file /\ i \in DOMAIN Profiles
    BY PairedIs DEF Rotations, Accounts, Typed
  <2>2. ChromeRefresh
    BY DEF Next, Loop, vars, history, Boot, HealSkip, HealMore, HealBuild, HealDrop, HealSwap, HealDone,
           LiveSync, Wake, Stop, Shutdown, Kill, Down, Rotate, SetStatus, Browse, Login
  <2>3. PICK readable \in SUBSET DOMAIN chrome :
          file' = Refreshed(readable) /\ seen' = [k \in DOMAIN chrome |-> IF k \in readable THEN chrome[k] ELSE NoJar]
    BY <2>2 DEF ChromeRefresh
  <2>4. i \in readable /\ chrome[i] # NoJar
    BY <2>1, <2>3
  <2>5. file'[i] = Block(readable, Paired, i)
    BY <2>1, <2>3, RefreshedIs
  <2> QED BY <2>1, <2>4, <2>5 DEF Block
<1> QED BY <1>1, RotationsInvariant, PTL DEF Spec, RefreshIsPositional
=============================================================================
