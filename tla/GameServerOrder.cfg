SPECIFICATION Spec
CONSTANTS
  c1 = c1  c2 = c2  c3 = c3  s1 = s1  s2 = s2  id1 = id1  id2 = id2
  Conns = {c1, c2}
  Slots = {s1, s2}
  NoConn = NoConn
  NoSlot = NoSlot
  NoEvent = NoEvent
  ZeroId = ZeroId
  NoTarget = NoTarget
  Ids = {ZeroId, id1}
  ConnId <- MCZeroId
  MaxSends = 2
  Packets = {"nameInvalid", "applyOk", "unknown"}
INVARIANTS
  EventsInArrivalOrder
PROPERTIES
  ImplementsEventLog
  RegisteredByOwnEvent
CHECK_DEADLOCK FALSE
