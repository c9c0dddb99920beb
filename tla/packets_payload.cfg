SPECIFICATION Spec
CONSTANTS
  Packets <- MCPackets
  Modulus = 8
  GossipAnnounceType = 0
  GossipNotifyType = 1
  GossipNotificationType = 2
  GossipValidationType = 3
  CutAt = {1, 3}
  MaxFrames = 3
  MaxSpare = 1
INVARIANT
  AnnouncedPayloadKept
CHECK_DEADLOCK FALSE
