-------------------------- MODULE RoomManagerProofs --------------------------
(***************************************************************************)
(* The room server implements AtomicRooms, for any users, rooms, workers   *)
(* and channel capacity.                                                   *)
(***************************************************************************)
EXTENDS RoomManager, SequenceTheorems, TLAPS

Places == {"away", "idle", "locking", "emit", "full", "pong", "gone"}

RoomsTypeOK ==
  /\ clients \in SUBSET Users
  /\ subscriptions \in [Rooms -> SUBSET Users]
  /\ own \in [Users -> SUBSET Rooms]
  /\ channel \in [Users -> Seq(Messages)]
  /\ targets \in SUBSET Users
  /\ message \in Messages
  /\ reader \in [Users -> Places]
  /\ job \in [Users -> Jobs]

\* Whoever is in a room has a channel and has the room in his own set: a
\* broadcast passes nobody over, and LeaveRooms finds every room.
MembersKnown ==
  \A r \in Rooms : \A u \in subscriptions[r] : u \in clients /\ r \in own[u]

\* A broadcast is under way exactly while its user has the Mutex.
OneBroadcast ==
  /\ \A u \in Users : reader[u] \in {"emit", "full"} => holder = u
  /\ holder = NoOne => targets = {}
  /\ \A u \in Users : reader[u] = "full" => awaiting \in targets

\* Nobody asks for anything but a connection before he has a channel.
AskersConnected ==
  \A u \in Users : u \notin clients =>
    reader[u] = "away" \/ (reader[u] = "locking" /\ job[u] = Connect)

RoomsInv == RoomsTypeOK /\ MembersKnown /\ OneBroadcast /\ AskersConnected

-----------------------------------------------------------------------------
LEMMA JobFields ==
  ASSUME NEW j \in Jobs
  PROVE  /\ j.type \in {"join", "leave"} => j.room \in Rooms
         /\ j.type = "send" => j.room \in Rooms /\ j.message \in Messages
         /\ j = Connect <=> j.type = "connect"
<1>1. CASE j \in [type : {"join", "leave"}, room : Rooms]
  <2>1. j.type \in {"join", "leave"} /\ j.room \in Rooms
    BY <1>1
  <2> QED BY <2>1 DEF Connect
<1>2. CASE j \in [type : {"send"}, room : Rooms, message : Messages]
  <2>1. j.type = "send" /\ j.room \in Rooms /\ j.message \in Messages
    BY <1>2
  <2> QED BY <2>1 DEF Connect
<1>3. CASE j \in [type : {"leave all"}]
  <2>1. j.type = "leave all"
    BY <1>3
  <2>2. Connect.type = "connect"
    BY DEF Connect
  <2> QED BY <2>1, <2>2
<1>4. CASE j = Connect
  BY <1>4 DEF Connect
<1> QED BY <1>1, <1>2, <1>3, <1>4 DEF Jobs

LEMMA ConnectIsJob == Connect \in Jobs
  BY DEF Jobs

LEMMA TailOfAppend ==
  ASSUME NEW S, NEW s \in Seq(S), NEW m \in S, s # << >>
  PROVE  /\ Append(s, m) # << >>
         /\ Tail(Append(s, m)) = Append(Tail(s), m)
  BY AppendProperties, HeadTailAppend

-----------------------------------------------------------------------------
LEMMA RoomsInit == Init => RoomsInv
  BY ConnectIsJob, RoomAssumption
  DEF Init, RoomsInv, RoomsTypeOK, MembersKnown, OneBroadcast, AskersConnected, Places

\* What is done with the Mutex keeps the invariant.
LEMMA DoInv ==
  ASSUME RoomsInv, NEW u \in Users, NEW j \in Jobs, holder = NoOne, Do(u, j),
         u \in clients \/ j = Connect, job' \in [Users -> Jobs],
         \A v \in Users \ {u} : job'[v] = job[v], channel' = channel
  PROVE  RoomsInv'
<1> USE RoomAssumption DEF RoomsInv, RoomsTypeOK, MembersKnown, OneBroadcast, AskersConnected, Places
<1>1. CASE Register(u)
  BY <1>1 DEF Register, broadcast
<1>2. CASE j.type = "join" /\ JoinRoom(u, j.room)
  <2>1. j.room \in Rooms /\ u \in clients
    BY <1>2, JobFields
  <2> QED BY <1>2, <2>1 DEF JoinRoom, broadcast
<1>3. CASE j.type = "leave" /\ LeaveRoom(u, j.room)
  <2>1. j.room \in Rooms /\ u \in clients
    BY <1>3, JobFields
  <2> QED BY <1>3, <2>1 DEF LeaveRoom, broadcast
<1>4. CASE j.type = "leave all" /\ LeaveRooms(u)
  BY <1>4, JobFields DEF LeaveRooms, broadcast
<1>5. CASE j.type = "send" /\ SendMessage(u, j.room, j.message)
  <2>1. j.room \in Rooms /\ j.message \in Messages /\ u \in clients
    BY <1>5, JobFields
  <2> QED BY <1>5, <2>1 DEF SendMessage, rooms
<1> QED BY <1>1, <1>2, <1>3, <1>4, <1>5 DEF Do

LEMMA StepInv == RoomsInv /\ [Next]_vars => RoomsInv'
<1> SUFFICES ASSUME RoomsInv, [Next]_vars PROVE RoomsInv'
  OBVIOUS
<1> USE RoomAssumption DEF RoomsInv, RoomsTypeOK, MembersKnown, OneBroadcast, AskersConnected, Places
<1>1. ASSUME NEW u \in Users, NEW j \in Jobs, Request(u, j) PROVE RoomsInv'
  <2>1. u \in clients \/ j = Connect
    BY <1>1 DEF Request, Asks
  <2> QED BY <1>1, <2>1, DoInv DEF Request
<1>2. ASSUME NEW u \in Users, NEW j \in Jobs, Block(u, j) PROVE RoomsInv'
  BY <1>2 DEF Block, Asks, rooms, broadcast
<1>3. ASSUME NEW u \in Users, Locked(u) PROVE RoomsInv'
  <2>1. job[u] \in Jobs /\ (u \in clients \/ job[u] = Connect)
    BY <1>3 DEF Locked
  <2>2. job' \in [Users -> Jobs] /\ \A v \in Users \ {u} : job'[v] = job[v]
    BY <1>3, ConnectIsJob DEF Locked
  <2> QED BY <1>3, <2>1, <2>2, DoInv DEF Locked
<1>4. ASSUME NEW u \in Users, NEW v \in Users, Emit(u, v) PROVE RoomsInv'
  <2>1. holder = u /\ holder # NoOne
    BY <1>4 DEF Emit
  <2>2. channel' \in [Users -> Seq(Messages)]
    BY <1>4, AppendProperties DEF Emit, Push
  <2> QED BY <1>4, <2>1, <2>2 DEF Emit, Push, rooms
<1>5. ASSUME NEW u \in Users, NEW v \in Users, Suspend(u, v) PROVE RoomsInv'
  BY <1>5 DEF Suspend, rooms
<1>6. ASSUME NEW u \in Users, Resume(u) PROVE RoomsInv'
  <2>1. holder = u /\ holder # NoOne /\ awaiting \in Users
    BY <1>6 DEF Resume
  <2>2. channel' \in [Users -> Seq(Messages)]
    BY <1>6, <2>1, AppendProperties DEF Resume, Push
  <2> QED BY <1>6, <2>1, <2>2 DEF Resume, Push, rooms
<1>7. ASSUME NEW u \in Users, EndBroadcast(u) PROVE RoomsInv'
  BY <1>7 DEF EndBroadcast, rooms
<1>8. ASSUME NEW u \in Users, Forward(u) PROVE RoomsInv'
  <2>1. channel' \in [Users -> Seq(Messages)]
    BY <1>8, HeadTailProperties DEF Forward
  <2> QED BY <1>8, <2>1 DEF Forward, rooms, broadcast
<1>9. ASSUME NEW u \in Users, Ping(u) \/ Ponged(u) \/ Disconnect(u) PROVE RoomsInv'
  <2>1. PICK next \in {"pong", "idle", "gone"} : reader' = [reader EXCEPT ![u] = next]
    <3>1. CASE Ping(u)
      BY <1>9, <3>1 DEF Ping
    <3>2. CASE Ponged(u)
      BY <1>9, <3>2 DEF Ponged
    <3>3. CASE Disconnect(u)
      BY <1>9, <3>3 DEF Disconnect
    <3> QED BY <1>9, <3>1, <3>2, <3>3
  <2>2. UNCHANGED <<rooms, channel, broadcast, job>> /\ u \in clients
    BY <1>9 DEF Ping, Ponged, Disconnect
  <2> QED BY <2>1, <2>2 DEF rooms, broadcast
<1>10. CASE UNCHANGED vars
  BY <1>10 DEF vars, rooms, broadcast
<1> QED BY <1>1, <1>2, <1>3, <1>4, <1>5, <1>6, <1>7, <1>8, <1>9, <1>10 DEF Next, Broadcast

-----------------------------------------------------------------------------
\* Every step is one of the abstract server, or leaves members and mail alone.
AtomicStep == [Atomic!Next]_(Atomic!vars)

LEMMA InitAtomic == Init => Atomic!Init
  BY DEF Init, Atomic!Init, Mail

\* A step of a broadcast moves a message from the pending ones to a channel.
LEMMA PushKeepsMail ==
  ASSUME RoomsInv, NEW v \in targets, Push(v), message' = message
  PROVE  Mail' = Mail
<1> USE DEF RoomsInv, RoomsTypeOK
<1>1. v \in Users /\ targets' = targets \ {v}
  BY DEF Push
<1>2. channel' = [channel EXCEPT ![v] = Append(@, message)]
  BY DEF Push
<1>3. ASSUME NEW u \in Users
      PROVE  (IF u \in targets' THEN Append(channel'[u], message) ELSE channel'[u])
               = IF u \in targets THEN Append(channel[u], message) ELSE channel[u]
  BY <1>1, <1>2
<1> QED BY <1>3 DEF Mail

LEMMA DoAtomic ==
  ASSUME RoomsInv, NEW u \in Users, NEW j \in Jobs, holder = NoOne, Do(u, j),
         channel' = channel
  PROVE  AtomicStep
<1> USE DEF RoomsInv, RoomsTypeOK, MembersKnown, OneBroadcast
<1>1. Mail = channel
  BY DEF Mail
<1>2. ASSUME UNCHANGED broadcast PROVE Mail' = Mail
  BY <1>2 DEF Mail, broadcast
<1>3. CASE Register(u)
  BY <1>2, <1>3 DEF Register, AtomicStep, Atomic!vars
<1>4. CASE j.type = "join" /\ JoinRoom(u, j.room)
  <2>1. j.room \in Rooms
    BY <1>4, JobFields
  <2>2. Atomic!Join(u, j.room)
    BY <1>2, <1>4 DEF JoinRoom, Atomic!Join
  <2> QED BY <2>1, <2>2 DEF AtomicStep, Atomic!Next
<1>5. CASE j.type = "leave" /\ LeaveRoom(u, j.room)
  <2>1. j.room \in Rooms
    BY <1>5, JobFields
  <2>2. subscriptions' = [r \in Rooms |-> IF r \in {j.room} THEN subscriptions[r] \ {u}
                                          ELSE subscriptions[r]]
    BY <1>5, <2>1 DEF LeaveRoom
  <2>3. Atomic!Leave(u, {j.room})
    BY <1>2, <1>5, <2>2 DEF LeaveRoom, Atomic!Leave
  <2> QED BY <2>1, <2>3 DEF AtomicStep, Atomic!Next
<1>6. CASE j.type = "leave all" /\ LeaveRooms(u)
  <2>1. \A r \in Rooms : r \notin own[u] => subscriptions[r] \ {u} = subscriptions[r]
    OBVIOUS
  <2>2. subscriptions' = [r \in Rooms |-> IF r \in Rooms THEN subscriptions[r] \ {u}
                                          ELSE subscriptions[r]]
    BY <1>6, <2>1 DEF LeaveRooms
  <2>3. Atomic!Leave(u, Rooms)
    BY <1>2, <1>6, <2>2 DEF LeaveRooms, Atomic!Leave
  <2> QED BY <2>3 DEF AtomicStep, Atomic!Next
<1>7. CASE j.type = "send" /\ SendMessage(u, j.room, j.message)
  <2>1. j.room \in Rooms /\ j.message \in Messages
    BY <1>7, JobFields
  <2>2. targets' = subscriptions[j.room] /\ message' = j.message
    BY <1>7, <2>1 DEF SendMessage
  <2>3. Atomic!Post(j.room, j.message)
    BY <1>1, <1>7, <2>2 DEF SendMessage, rooms, Mail, Atomic!Post
  <2> QED BY <2>1, <2>3 DEF AtomicStep, Atomic!Next
<1> QED BY <1>3, <1>4, <1>5, <1>6, <1>7 DEF Do

LEMMA StepAtomic == RoomsInv /\ [Next]_vars => AtomicStep
<1> SUFFICES ASSUME RoomsInv, [Next]_vars PROVE AtomicStep
  OBVIOUS
<1> USE DEF RoomsInv, RoomsTypeOK, OneBroadcast
<1>1. ASSUME Mail' = Mail, subscriptions' = subscriptions PROVE AtomicStep
  BY <1>1 DEF AtomicStep, Atomic!vars
<1>2. ASSUME UNCHANGED <<subscriptions, channel, targets, message>> PROVE AtomicStep
  BY <1>1, <1>2 DEF Mail
<1>3. ASSUME NEW u \in Users, NEW j \in Jobs, Request(u, j) PROVE AtomicStep
  BY <1>3, DoAtomic DEF Request
<1>4. ASSUME NEW u \in Users, Locked(u) PROVE AtomicStep
  <2>1. job[u] \in Jobs
    OBVIOUS
  <2> QED BY <1>4, <2>1, DoAtomic DEF Locked
<1>5. ASSUME NEW u \in Users, NEW v \in Users, Emit(u, v) PROVE AtomicStep
  BY <1>1, <1>5, PushKeepsMail DEF Emit, rooms
<1>6. ASSUME NEW u \in Users, Resume(u) PROVE AtomicStep
  BY <1>1, <1>6, PushKeepsMail DEF Resume, rooms
<1>7. ASSUME NEW u \in Users, Forward(u) PROVE AtomicStep
  <2>1. subscriptions' = subscriptions /\ targets' = targets /\ message' = message
        /\ channel[u] # << >> /\ channel' = [channel EXCEPT ![u] = Tail(@)]
    BY <1>7 DEF Forward, rooms, broadcast
  <2>2. Mail[u] # << >>
    BY <2>1, TailOfAppend DEF Mail
  <2>3. channel[u] \in Seq(Messages) /\ message \in Messages /\ u \in DOMAIN channel
    OBVIOUS
  <2>4. Tail(Append(channel[u], message)) = Append(Tail(channel[u]), message)
    BY <2>1, <2>3, TailOfAppend
  <2>5. ASSUME NEW v \in Users PROVE Mail'[v] = IF v = u THEN Tail(Mail[u]) ELSE Mail[v]
    <3>1. Mail[v] = IF v \in targets THEN Append(channel[v], message) ELSE channel[v]
      BY DEF Mail
    <3>2. Mail'[v] = IF v \in targets THEN Append(channel'[v], message) ELSE channel'[v]
      BY <2>1 DEF Mail
    <3>3. channel'[v] = IF v = u THEN Tail(channel[u]) ELSE channel[v]
      BY <2>1, <2>3
    <3> QED BY <2>4, <3>1, <3>2, <3>3
  <2>6. Mail' = [Mail EXCEPT ![u] = Tail(@)]
    <3>1. Mail' = [v \in Users |-> Mail'[v]]
      BY DEF Mail
    <3> QED BY <2>5, <3>1 DEF Mail
  <2> QED BY <2>1, <2>2, <2>6 DEF AtomicStep, Atomic!Next, Atomic!Take
<1>8. ASSUME NEW u \in Users, NEW v \in Users, Suspend(u, v) PROVE AtomicStep
  BY <1>2, <1>8 DEF Suspend, rooms
<1>9. ASSUME NEW u \in Users, NEW j \in Jobs, Block(u, j) PROVE AtomicStep
  BY <1>2, <1>9 DEF Block, rooms, broadcast
<1>10. ASSUME NEW u \in Users, EndBroadcast(u) \/ Ping(u) \/ Ponged(u) \/ Disconnect(u)
       PROVE  AtomicStep
  BY <1>2, <1>10 DEF EndBroadcast, Ping, Ponged, Disconnect, rooms, broadcast
<1>11. CASE UNCHANGED vars
  BY <1>2, <1>11 DEF vars, rooms, broadcast
<1> QED BY <1>3, <1>4, <1>5, <1>6, <1>7, <1>8, <1>9, <1>10, <1>11 DEF Next, Broadcast

-----------------------------------------------------------------------------
\* The step that leaves all rooms.
AllLeft == \A u \in Users : LeavesAll(u) => \A r \in Rooms : u \notin subscriptions'[r]

LEMMA LeavingStep == RoomsInv => AllLeft
<1> SUFFICES ASSUME RoomsInv, NEW u \in Users, LeavesAll(u), NEW r \in Rooms
             PROVE  u \notin subscriptions'[r]
  BY DEF AllLeft
<1>1. PICK j : j.type = "leave all" /\ Do(u, j)
  BY DEF LeavesAll, Request, Locked
<1>2. LeaveRooms(u)
  <2>1. Connect.type = "connect"
    BY DEF Connect
  <2>2. j # Connect
    BY <1>1, <2>1
  <2> QED BY <1>1, <2>2 DEF Do
<1>3. subscriptions'[r] = IF r \in own[u] THEN subscriptions[r] \ {u} ELSE subscriptions[r]
  BY <1>2 DEF LeaveRooms
<1>4. u \in subscriptions[r] => r \in own[u]
  BY DEF RoomsInv, MembersKnown
<1> QED BY <1>3, <1>4

-----------------------------------------------------------------------------
\* Type correctness, and with it that whoever is in a room can be reached.
THEOREM RoomsCorrect == Spec => []RoomsInv
  BY RoomsInit, StepInv, PTL DEF Spec

\* The room server, with broadcasts that suspend in the middle while they hold
\* the Mutex, implements the server whose broadcasts are one step.
THEOREM RoomsImplementAtomicRooms == Spec => ImplementsAtomicRooms
<1>1. Spec => []RoomsInv
  BY RoomsCorrect
<1> QED BY <1>1, InitAtomic, StepAtomic, PTL
        DEF Spec, ImplementsAtomicRooms, Atomic!Spec, AtomicStep

\* Whoever leaves all rooms is in none afterwards.
THEOREM LeavingCorrect == Spec => LeavingLeavesAll
<1>1. RoomsInv /\ [Next]_vars => [AllLeft]_vars
  BY LeavingStep
<1>2. Spec => [][AllLeft]_vars
  BY <1>1, RoomsInit, StepInv, PTL DEF Spec
<1> QED BY <1>2 DEF LeavingLeavesAll, AllLeft
=============================================================================
