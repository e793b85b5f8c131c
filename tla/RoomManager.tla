----------------------------- MODULE RoomManager -----------------------------
(***************************************************************************)
(* The room server of ws/src: one RoomManager behind one std Mutex, and    *)
(* per user a reader task, which handles what the user asks for, and a     *)
(* forwarder task, which empties the user's channel.  Both tasks run on    *)
(* the worker thread the connection came to.  A task keeps its thread      *)
(* until it awaits; a thread that waits for a Mutex runs nothing at all.   *)
(* A broadcast keeps the Mutex while it awaits room in a channel.          *)
(***************************************************************************)
EXTENDS Integers, Sequences

CONSTANTS Users, Rooms, Messages,
  Threads,  \* the worker threads
  Cap,      \* the capacity of a user's channel (32 in the code)
  NoOne

ASSUME RoomAssumption ==
  Cap \in Nat \ {0} /\ NoOne \notin Users

VARIABLES
  thread,         \* the worker each user's connection comes to
  clients,        \* RoomManager::clients, the users with a channel
  subscriptions,  \* RoomManager::subscriptions: who is in each room
  own,            \* User::subscriptions: the rooms a user once joined
  channel,        \* what is in each user's channel
  holder,         \* the user whose reader has the Mutex, or NoOne
  targets,        \* the users the broadcast under way has not yet emitted to
  message,        \* what it broadcasts
  awaiting,       \* the user in whose channel it awaits room
  reader,         \* where each reader is
  job,            \* what each reader is asked to do
  stuck           \* the users whose forwarder waits for the session's Mutex

rooms     == <<clients, subscriptions, own>>
broadcast == <<holder, targets, message, awaiting>>
vars      == <<thread, rooms, channel, broadcast, reader, job, stuck>>

Connect == [type |-> "connect"]
Jobs == [type : {"join", "leave"}, room : Rooms]
        \cup [type : {"send"}, room : Rooms, message : Messages]
        \cup [type : {"leave all"}] \cup {Connect}

\* A reader in one of these places has its thread for itself.
Running == {"locking", "emit"}

Free(w) == \A u \in Users : thread[u] = w => reader[u] \notin Running /\ u \notin stuck

-----------------------------------------------------------------------------
\* What is done with the Mutex, and how the reader goes on.
Register(u) ==
  /\ clients' = clients \cup {u}
  /\ reader' = [reader EXCEPT ![u] = "idle"]
  /\ UNCHANGED <<subscriptions, own, broadcast>>

\* Wrong on purpose: the user does not note which room he joined.
JoinUnrecorded(u, r) ==
  /\ subscriptions' = [subscriptions EXCEPT ![r] = @ \cup {u}]
  /\ reader' = [reader EXCEPT ![u] = "idle"]
  /\ UNCHANGED <<clients, own, broadcast>>

JoinRoom(u, r) ==
  /\ subscriptions' = [subscriptions EXCEPT ![r] = @ \cup {u}]
  /\ own' = [own EXCEPT ![u] = @ \cup {r}]
  /\ reader' = [reader EXCEPT ![u] = "idle"]
  /\ UNCHANGED <<clients, broadcast>>

\* The room stays in the user's own set.
LeaveRoom(u, r) ==
  /\ subscriptions' = [subscriptions EXCEPT ![r] = @ \ {u}]
  /\ reader' = [reader EXCEPT ![u] = "idle"]
  /\ UNCHANGED <<clients, own, broadcast>>

LeaveRooms(u) ==
  /\ subscriptions' = [r \in Rooms |-> IF r \in own[u] THEN subscriptions[r] \ {u}
                                       ELSE subscriptions[r]]
  /\ reader' = [reader EXCEPT ![u] = "idle"]
  /\ UNCHANGED <<clients, own, broadcast>>

SendMessage(u, r, m) ==
  /\ holder' = u /\ targets' = subscriptions[r] \cap clients /\ message' = m
  /\ reader' = [reader EXCEPT ![u] = "emit"]
  /\ UNCHANGED <<rooms, awaiting>>

Do(u, j) ==
  \/ j = Connect /\ Register(u)
  \/ j.type = "join" /\ JoinRoom(u, j.room)
  \/ j.type = "leave" /\ LeaveRoom(u, j.room)
  \/ j.type = "leave all" /\ LeaveRooms(u)
  \/ j.type = "send" /\ SendMessage(u, j.room, j.message)

Asks(u, j) ==
  /\ reader[u] = IF j = Connect THEN "away" ELSE "idle"
  /\ Free(thread[u])

\* The Mutex is free: the job is done at once.
Request(u, j) ==
  /\ Asks(u, j) /\ holder = NoOne /\ Do(u, j)
  /\ UNCHANGED <<thread, channel, job, stuck>>

\* It is not: lock() blocks the thread.
Block(u, j) ==
  /\ Asks(u, j) /\ holder # NoOne
  /\ reader' = [reader EXCEPT ![u] = "locking"]
  /\ job' = [job EXCEPT ![u] = j]
  /\ UNCHANGED <<thread, rooms, channel, broadcast, stuck>>

Locked(u) ==
  /\ reader[u] = "locking" /\ holder = NoOne /\ Do(u, job[u])
  /\ job' = [job EXCEPT ![u] = Connect]
  /\ UNCHANGED <<thread, channel, stuck>>

-----------------------------------------------------------------------------
\* broadcast goes through a HashSet: the users come in any order.
Push(v) ==
  /\ Len(channel[v]) < Cap
  /\ channel' = [channel EXCEPT ![v] = Append(@, message)]
  /\ targets' = targets \ {v}

\* Wrong on purpose: a user whose channel is full is passed over.
EmitOrSkip(u, v) ==
  /\ reader[u] = "emit" /\ v \in targets
  /\ targets' = targets \ {v}
  /\ channel' = IF Len(channel[v]) < Cap THEN [channel EXCEPT ![v] = Append(@, message)]
                ELSE channel
  /\ UNCHANGED <<thread, rooms, holder, message, awaiting, reader, job, stuck>>

Emit(u, v) ==
  /\ reader[u] = "emit" /\ v \in targets /\ Push(v)
  /\ UNCHANGED <<thread, rooms, holder, message, awaiting, reader, job, stuck>>

\* Wrong on purpose: the thread waits with the task.
SuspendBlocking(u, v) ==
  /\ reader[u] = "emit" /\ v \in targets /\ Len(channel[v]) = Cap
  /\ awaiting' = v
  /\ reader' = [reader EXCEPT ![u] = "locking"]
  /\ UNCHANGED <<thread, rooms, channel, holder, targets, message, job, stuck>>

\* No room: the task awaits, its thread goes on with others, and the Mutex
\* stays locked.
Suspend(u, v) ==
  /\ reader[u] = "emit" /\ v \in targets /\ Len(channel[v]) = Cap
  /\ awaiting' = v
  /\ reader' = [reader EXCEPT ![u] = "full"]
  /\ UNCHANGED <<thread, rooms, channel, holder, targets, message, job, stuck>>

Resume(u) ==
  /\ reader[u] = "full" /\ Free(thread[u]) /\ Push(awaiting)
  /\ awaiting' = NoOne
  /\ reader' = [reader EXCEPT ![u] = "emit"]
  /\ UNCHANGED <<thread, rooms, holder, message, job, stuck>>

EndBroadcast(u) ==
  /\ reader[u] = "emit" /\ targets = {}
  /\ holder' = NoOne
  /\ reader' = [reader EXCEPT ![u] = "idle"]
  /\ UNCHANGED <<thread, rooms, channel, targets, message, awaiting, job, stuck>>

-----------------------------------------------------------------------------
\* The forwarder takes a message out and locks the session.  What it calls
\* there is never awaited, so nothing leaves the server.
Forward(u) ==
  /\ channel[u] # << >> /\ Free(thread[u])
  /\ channel' = [channel EXCEPT ![u] = Tail(@)]
  /\ stuck' = IF reader[u] = "pong" THEN stuck \cup {u} ELSE stuck
  /\ UNCHANGED <<thread, rooms, broadcast, reader, job>>

\* The reader keeps the session locked while it awaits the pong.
Ping(u) ==
  /\ reader[u] = "idle" /\ Free(thread[u])
  /\ reader' = [reader EXCEPT ![u] = "pong"]
  /\ UNCHANGED <<thread, rooms, channel, broadcast, job, stuck>>

\* The reader ends when the pong fails.
Ponged(u) ==
  /\ reader[u] = "pong" /\ Free(thread[u])
  /\ \E next \in {"idle", "gone"} : reader' = [reader EXCEPT ![u] = next]
  /\ UNCHANGED <<thread, rooms, channel, broadcast, job, stuck>>

\* The reader ends; the user stays in clients and in the rooms.
Disconnect(u) ==
  /\ reader[u] = "idle" /\ Free(thread[u])
  /\ reader' = [reader EXCEPT ![u] = "gone"]
  /\ UNCHANGED <<thread, rooms, channel, broadcast, job, stuck>>

-----------------------------------------------------------------------------
Init ==
  /\ thread \in [Users -> Threads]
  /\ clients = {} /\ subscriptions = [r \in Rooms |-> {}] /\ own = [u \in Users |-> {}]
  /\ channel = [u \in Users |-> << >>]
  /\ holder = NoOne /\ targets = {} /\ message \in Messages /\ awaiting = NoOne
  /\ reader = [u \in Users |-> "away"] /\ job = [u \in Users |-> Connect]
  /\ stuck = {}

Broadcast(u) ==
  \/ \E v \in Users : Emit(u, v) \/ Suspend(u, v)
  \/ Resume(u) \/ EndBroadcast(u)

Next == \E u \in Users :
  \/ \E j \in Jobs : Request(u, j) \/ Block(u, j)
  \/ Locked(u) \/ Broadcast(u) \/ Forward(u)
  \/ Ping(u) \/ Ponged(u) \/ Disconnect(u)

\* The runtime polls a task that was woken; a pong can take for ever.
Fairness == \A u \in Users : WF_vars(Broadcast(u)) /\ WF_vars(Forward(u))

Spec == Init /\ [][Next]_vars /\ Fairness

-----------------------------------------------------------------------------
\* The mail of a user who has not yet had his turn in the broadcast already
\* ends with its message.
Mail == [u \in Users |-> IF u \in targets THEN Append(channel[u], message) ELSE channel[u]]

Atomic == INSTANCE AtomicRooms WITH members <- subscriptions, mail <- Mail

\* Broadcasts are atomic although they suspend in the middle: nobody joins,
\* leaves, posts or is passed over meanwhile.
ImplementsAtomicRooms == Atomic!Spec

LeavesAll(u) ==
  \/ Request(u, [type |-> "leave all"])
  \/ Locked(u) /\ job[u].type = "leave all"

\* Who leaves all rooms is in none, whatever rooms he joined, left and joined again
\* before, and however long he waited for the Mutex: LeaveRooms goes by the user's
\* own set, which LeaveRoom and LeaveRooms itself take nothing out of.
LeavingLeavesAll ==
  [][\A u \in Users : LeavesAll(u) => \A r \in Rooms : u \notin subscriptions'[r]]_vars

Blocked(w) == \E u \in Users : thread[u] = w /\ (reader[u] = "locking" \/ u \in stuck)

Hung(u) ==
  reader[u] = "full" /\ (Blocked(thread[u]) \/ Blocked(thread[awaiting]))

\* A broadcast ends, however full the channels are, unless a thread it depends
\* on, its own or that of the full channel, waits for a Mutex that is held
\* across an await; then the whole server stands still.
OnlyBlockedThreadsHang ==
  \A u \in Users : (holder = u) ~> (holder # u \/ Hung(u))
=============================================================================
