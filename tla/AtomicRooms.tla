----------------------------- MODULE AtomicRooms -----------------------------
(***************************************************************************)
(* What the room server promises: joining, leaving and posting take one    *)
(* step each, and a message goes to the mail of exactly those who are in   *)
(* the room, in the same order for all of them.                            *)
(***************************************************************************)
EXTENDS Sequences

CONSTANTS Users, Rooms, Messages

VARIABLES
  members,  \* who is in each room
  mail      \* what each user was sent and the server has not yet taken out

vars == <<members, mail>>

Init ==
  /\ members = [r \in Rooms |-> {}]
  /\ mail = [u \in Users |-> << >>]

Join(u, r) ==
  /\ members' = [members EXCEPT ![r] = @ \cup {u}]
  /\ UNCHANGED mail

Leave(u, rooms) ==
  /\ members' = [r \in Rooms |-> IF r \in rooms THEN members[r] \ {u} ELSE members[r]]
  /\ UNCHANGED mail

Post(r, m) ==
  /\ mail' = [u \in Users |-> IF u \in members[r] THEN Append(mail[u], m) ELSE mail[u]]
  /\ UNCHANGED members

Take(u) ==
  /\ mail[u] # << >>
  /\ mail' = [mail EXCEPT ![u] = Tail(@)]
  /\ UNCHANGED members

Next ==
  \/ \E u \in Users, r \in Rooms : Join(u, r) \/ Leave(u, {r})
  \/ \E u \in Users : Leave(u, Rooms) \/ Take(u)
  \/ \E r \in Rooms, m \in Messages : Post(r, m)

Spec == Init /\ [][Next]_vars
=============================================================================
