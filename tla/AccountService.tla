---------------------------- MODULE AccountService ----------------------------
(***************************************************************************)
(* What AccountPool promises of an account (accounts.py: "One coroutine     *)
(* holds an account at a time", lock_for, swap_client), without locks,      *)
(* turns, retries or files: an account serves one worker at a time, in the  *)
(* order in which they came, and its session is replaced between two of     *)
(* them by the keeper, who waits in the same line.                          *)
(***************************************************************************)
EXTENDS Sequences, SequencesExt

CONSTANTS
  Accounts,
  Workers,      \* whom an account serves
  Keeper,       \* who replaces sessions
  Sessions      \* what an account is served through

VARIABLES
  running,      \* whom each account is serving
  line,         \* who waits for each account, oldest first
  session       \* the session of each account

vars == <<running, line, session>>

Idle(a) == running[a] = {} /\ line[a] = <<>>

Outside(w) ==
  \A a \in Accounts : w \notin running[a] /\ \A i \in DOMAIN line[a] : line[a][i] # w

Join(w, a) == line' = [line EXCEPT ![a] = Append(@, w)]

NextInLine(w, a) ==
  /\ running[a] = {} /\ line[a] # <<>> /\ Head(line[a]) = w
  /\ line' = [line EXCEPT ![a] = Tail(@)]

\* Nobody overtakes: only an idle account serves a newcomer
Enter(w, a) ==
  /\ Outside(w) /\ Idle(a)
  /\ running' = [running EXCEPT ![a] = {w}]
  /\ UNCHANGED <<line, session>>

Queue(w, a) ==
  /\ Outside(w) /\ ~Idle(a)
  /\ Join(w, a)
  /\ UNCHANGED <<running, session>>

Serve(w, a) ==
  /\ NextInLine(w, a)
  /\ running' = [running EXCEPT ![a] = {w}]
  /\ UNCHANGED session

Finish(w, a) ==
  /\ w \in running[a]
  /\ running' = [running EXCEPT ![a] = {}]
  /\ UNCHANGED <<line, session>>

\* A worker that must try again goes to the end of the line
Again(w, a) ==
  /\ w \in running[a] /\ line[a] # <<>>
  /\ running' = [running EXCEPT ![a] = {}]
  /\ Join(w, a)
  /\ UNCHANGED session

Quit(w, a) ==
  /\ \E i \in DOMAIN line[a] :
       line[a][i] = w /\ line' = [line EXCEPT ![a] = RemoveAt(@, i)]
  /\ UNCHANGED <<running, session>>

\* The keeper's turn: between two workers, with a session no account has
Maintain(a) ==
  /\ \/ Outside(Keeper) /\ Idle(a) /\ UNCHANGED line
     \/ NextInLine(Keeper, a)
  /\ \/ UNCHANGED session
     \/ \E fresh \in Sessions :
          /\ \A b \in Accounts : session[b] # fresh
          /\ session' = [session EXCEPT ![a] = fresh]
  /\ UNCHANGED running

Init ==
  /\ running = [a \in Accounts |-> {}]
  /\ line = [a \in Accounts |-> <<>>]
  /\ session \in [Accounts -> Sessions]
  /\ \A a, b \in Accounts : session[a] = session[b] => a = b

Next ==
  \E a \in Accounts :
    \/ \E w \in Workers :
         Enter(w, a) \/ Queue(w, a) \/ Serve(w, a) \/ Finish(w, a) \/ Again(w, a) \/ Quit(w, a)
    \/ Queue(Keeper, a) \/ Maintain(a)

Spec == Init /\ [][Next]_vars

=============================================================================
