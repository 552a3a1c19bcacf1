\* Start and a caller that share a client, late answers, a server that chatters,
\* reads nothing or dies; start, close and requests may be cancelled.
SPECIFICATION LiveSpec
CONSTANTS
  Caller = {"start", "probe", "call"}
  MaxRequests = 3
  MaxUnread = 2
PROPERTIES ImplementsRemoteCall CallsEndWithServer CloseReturns
CHECK_DEADLOCK FALSE
