\* DDS_calls.cfg
SPECIFICATION FairSpec
CONSTANTS
  Calls = {i1, i2}
  Malformed = Malformed
  Topics = {joint_states}
  MaxRetries = 2
  MaxConns = 2
  MaxInbox = 2
  MaxUnasked = 1
INVARIANT TypeOK
INVARIANT AnswerMatchesCall
INVARIANT LoopOutlivesCallbacks
PROPERTY CallsReturn
\* Connections run out (MaxConns) and calls end: the bridge may be idle.
CHECK_DEADLOCK FALSE
