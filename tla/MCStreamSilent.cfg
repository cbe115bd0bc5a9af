\* A stream that polls, and one status change.
SPECIFICATION StreamSpec
CONSTANTS
  maxReconnectAttempts = 1
  FinalVersion = 1
  PreferredModes = {"polling"}
INVARIANT SilentAfterStop
CHECK_DEADLOCK FALSE
