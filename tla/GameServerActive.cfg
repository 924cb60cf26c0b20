SPECIFICATION Spec
CONSTANTS
  c1 = c1  c2 = c2  c3 = c3  s1 = s1  s2 = s2  id1 = id1  id2 = id2
  Conns = {c1}
  Slots = {s1}
  NoConn = NoConn
  NoSlot = NoSlot
  NoEvent = NoEvent
  ZeroId = ZeroId
  NoTarget = NoTarget
  Ids = {ZeroId, id1}
  ConnId <- MCOneConn
  MaxSends = 1
  Packets = {"nameInvalid"}
INVARIANTS
  ActivePlayersPresent
CHECK_DEADLOCK FALSE
