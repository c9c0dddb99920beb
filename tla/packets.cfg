SPECIFICATION FairSpec
CONSTANTS
  Packets <- MCPackets
  Modulus = 8
  GossipAnnounceType = 0
  GossipNotifyType = 1
  GossipNotificationType = 2
  GossipValidationType = 3
  CutAt = {1, 3}
  MaxFrames = 3
  MaxSpare = 1
INVARIANTS
  TypeOK
  HandedAsSent
  NotifiedAsAnnounced
PROPERTIES
  EndNoticed
\* The module has left, or has nothing more to send.
CHECK_DEADLOCK FALSE
