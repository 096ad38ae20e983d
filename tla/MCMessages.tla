----------------------------- MODULE MCMessages -----------------------------
(* Instance of Messages for TLC: the shortest and the longest action, and  *)
(* numbers of different bytes, so that no two orders look alike.           *)
EXTENDS Messages
MCContents == {[i \in 1..8 |-> i]}
MCActionLens == {4, 48}
=============================================================================
