SPECIFICATION EitherSpec
CONSTANTS
  DEPTH = 2
  TMO = 0
  Trigger <- Levels
  WORD = 8
  PAYLOAD_BASE = 2
  DTB_ADDR = 6
  BOOTMEM_ADDR = 5
  RAM_END = 7
  Images <- MCImages
  InMemory = {1, 3}
  RVBI_MAX_SEGS = 2
  QUIET = 2
  MaxStreams = 1
  MaxFaults = 1
  Framings <- MCFramings
  IDLE_BITS = 2
  Sent <- MCSent
INVARIANTS InPayload LoadedAsSent NoSilentLoss
PROPERTIES Recovers ReceivedAsSent EndAnnounced
