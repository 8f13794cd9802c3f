SPECIFICATION FairSpec
CONSTANTS
  Loops = {"main", "comm1", "comm2"}
  Serves <- MCServes
  Extra = {"comm2"}
  Listeners = {"bus", "port"}
  Handler = "sigchld"
  Interruptible = {"main"}
  Nobody = "nobody"
  Incoming = {"command", "event"}
  Notices = {"notice"}
  Replies <- MCReplies
  To <- MCTo
  NoMessage = "none"
CHECK_DEADLOCK FALSE
INVARIANTS TypeOK IInv
PROPERTIES MailboxSpec QueuedIsHandled
