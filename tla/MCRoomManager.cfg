\* Two users on one worker or on two; a channel holds one message.
SPECIFICATION Spec
CONSTANTS
  u1 = u1  u2 = u2  w1 = w1  w2 = w2  r1 = r1  r2 = r2  m1 = m1  m2 = m2
  NoOne = NoOne
  Users = {u1, u2}
  Rooms = {r1, r2}
  Messages = {m1, m2}
  Threads = {w1, w2}
  Cap = 1
PROPERTIES ImplementsAtomicRooms LeavingLeavesAll OnlyBlockedThreadsHang
CHECK_DEADLOCK FALSE
