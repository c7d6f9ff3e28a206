------------------------------ MODULE MCChatFlow ------------------------------
(* Values for the constants of ChatFlow that a .cfg file cannot write.      *)
EXTENDS ChatFlow

TwoOpenings == [c \in Clients |-> IF c = "c1" THEN "hi" ELSE "hey"]
SameOpening == [c \in Clients |-> "hi"]

AllChain == {[c \in Clients |-> NoConv]}
OneConversation == {[c \in Clients |-> "v"]}
ChainOrConversation == AllChain \cup OneConversation

TwoAccounts == {<<"A", "B">>}
GrowingPool == {<<"A">>, <<"A", "B">>}
FirstJarRemoved == {<<"A", "B">>, <<"B">>}
=============================================================================
