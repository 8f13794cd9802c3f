SPECIFICATION FairSpec
CONSTANTS
  plain = plain  long = long  big = big  empty = empty  refused = refused
  Message = {plain, long, big, empty, refused}
  NoMessage = NoMessage
  TextSize <- Texts
  Attachment <- Attachments
  FileSize <- Files
  MaxPayload = 2
  Resends = FALSE
  MaxSends = 2
  MaxSessions = 2
  MaxStrays = 1
CHECK_DEADLOCK FALSE
INVARIANTS TypeOK BufferHolds StaysInStep
PROPERTIES  MessagesArrive
