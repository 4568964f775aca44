----------------------------- MODULE MCChatRoom -----------------------------
(* Two visitors with a name each, and three sessions among them.           *)
EXTENDS ChatRoom

CONSTANTS p1, p2, alice, bob

MCPage == {p1, p2}
MCSid == 1..3
MCNameOf == [p \in MCPage |-> IF p = p1 THEN alice ELSE bob]
=============================================================================
