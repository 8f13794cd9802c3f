----------------------------- MODULE MCChannels -----------------------------
(* The main thread, the first and the second loop of CommChannel, and the   *)
(* listeners of D-Bus and of the default port.  DbusChannel's own loop does *)
(* what CommChannel's first loop does and is left out of the instance.      *)
EXTENDS Channels

MCServes == [t \in Loops |-> IF t = "main" THEN "local" ELSE "comm"]

MCTo == [m \in {"command", "ack", "event", "notice"} |->
  IF m = "command" THEN "local" ELSE "comm"]

MCReplies == [m \in DOMAIN MCTo |-> IF m = "command" THEN {"ack"} ELSE {}]
=============================================================================
