----------------------------- MODULE MCCookieSync -----------------------------
(* Values for the constants of CookieSync that a .cfg file cannot write.    *)
EXTENDS CookieSync

\* Logins a1 and a2 are of account A, b1 of account B
Owners == [p \in Psids |-> IF p = "b1" THEN "B" ELSE "A"]

TwoProfiles == <<"A", "B">>
SameProfiles == <<"A", "A">>

Jar(p) == [psid |-> p, ts |-> 0]

BothBlocks == {<<Jar("a1"), Jar("b1")>>}
OddBlocks == {<<NoJar, Jar("b1")>>, <<Jar("a1"), Jar("a1")>>}

\* For SameProfiles: two logins of one account
SameBlocks == {<<Jar("a1"), Jar("a2")>>}
=============================================================================
