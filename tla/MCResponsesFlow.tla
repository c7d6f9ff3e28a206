--------------------------- MODULE MCResponsesFlow ---------------------------
(* Values for the constants of ResponsesFlow that a .cfg file cannot write. *)
EXTENDS ResponsesFlow

Using(api, input, by, conv) ==
  [api |-> api, input |-> input, by |-> by, conv |-> conv, stream |-> FALSE]

Streamed(s) == [s EXCEPT !.stream = TRUE]

FullHistory(v) == Using("responses", "full", "own", v)
NewItems(v) == Using("responses", "delta", "own", v)
ChainFull == Using("responses", "full", "prev", "")
Chain == Using("responses", "delta", "prev", "")
ChainText == Using("responses", "string", "prev", "")
ChatOf(v) == Using("chat", "full", "own", v)
ByReply == Using("responses", "delta", "reply", "")

Scene(a, b) == [c \in Clients |-> IF c = "c1" THEN a ELSE b]

\* Clients with conversations of their own, streamed and buffered, and
\* conversations that clients share who send only what is new
GoodScenes ==
  {Scene(Streamed(FullHistory("v")), ChainText), Scene(ChainFull, Streamed(Chain)),
   Scene(NewItems("v"), NewItems("v")), Scene(NewItems("v"), ChatOf("v"))}

SharedHistories ==
  {Scene(FullHistory("v"), FullHistory("v")), Scene(Using("both", "full", "own", "v"), Chain)}
HistoryBeside == {Scene(FullHistory("v"), Chain)}
FullChains == {Scene(ChainFull, Chain)}
NewItemsOrReplies == {Scene(NewItems("v"), Chain), Scene(ByReply, Chain)}
=============================================================================
