--------------------------- MODULE RoomMembership ---------------------------
(***************************************************************************)
(* What a room adapter promises: rooms are a relation between members and  *)
(* room names.  Joining adds one pair, leaving removes one pair, and       *)
(* nothing else ever changes.                                              *)
(***************************************************************************)
CONSTANTS Member, Room

VARIABLE members          \* the pairs <<member, room>> that are joined

Init == members = {}

Join(i, r) == members' = members \cup {<<i, r>>}

Leave(i, r) == members' = members \ {<<i, r>>}

Next == \E i \in Member, r \in Room : Join(i, r) \/ Leave(i, r)

Spec == Init /\ [][Next]_members

TypeOK == members \subseteq Member \X Room
=============================================================================
