--------------------------- MODULE MessageStream ---------------------------
(***************************************************************************)
(* What the receiving side of the channel promises: every message that the *)
(* controller has sent over a connection is handled once, whole and in     *)
(* order, until the connection is lost.                                    *)
(***************************************************************************)
EXTENDS Naturals, Sequences

CONSTANT Message

VARIABLES
    sent,     \* the messages of the current connection, in order
    handled   \* what was handed to the parser, in order

vars == <<sent, handled>>

Init == sent = <<>> /\ handled = <<>>

Send == \E m \in Message : sent' = Append(sent, m) /\ UNCHANGED handled

Handle ==
    /\ Len(handled) < Len(sent)
    /\ handled' = Append(handled, sent[Len(handled) + 1])
    /\ UNCHANGED sent

Lose == sent' = <<>> /\ handled' = <<>>

Next == Send \/ Handle \/ Lose

Spec == Init /\ [][Next]_vars
=============================================================================
