------------------------------ MODULE MCRooms ------------------------------
(* Values for TLC. *)
EXTENDS Rooms, TLC

CONSTANTS rOld, rNew, rOther, main, other, ann

(* Two Room objects with the same name, and one with another. *)
MCRoomName == [r \in Room |-> IF r = rOther THEN other ELSE main]

(* The account of every user has the login ann: nicks collide. *)
MCLogin == [u \in Uid |-> IF u = Guest THEN NoNick ELSE ann]

(* The limit of a list that only administrators may extend. *)
Closed == -1

(* The sessions are alike, and so are the addresses and the rooms of one   *)
(* name.                                                                   *)
Symmetry == Permutations(Client) \cup Permutations(Ip) \cup Permutations({rOld, rNew} \cap Room)

=============================================================================
