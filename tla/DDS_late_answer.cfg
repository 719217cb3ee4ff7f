\* DDS_late_answer.cfg
SPECIFICATION Spec
CONSTANTS
  Calls = {i1}
  Malformed = Malformed
  Topics = {joint_states}
  MaxRetries = 3
  MaxConns = 1
  MaxInbox = 2
  MaxUnasked = 0
INVARIANT LoopEndsWithConnection
\* Connections run out (MaxConns) and calls end: the bridge may be idle.
CHECK_DEADLOCK FALSE
