SPECIFICATION FairSpec
CONSTANTS
  Fd = {f1, f2}
  Loop = {l1, l2}
  MaxMail = 2
  MaxPacket = 3
  None = None
  f1 = f1
  f2 = f2
  l1 = l1
  l2 = l2
INVARIANTS TypeOK MapsFollowPeers OneChannel
PROPERTIES ImplementsPeer EndIsTold
CHECK_DEADLOCK FALSE
