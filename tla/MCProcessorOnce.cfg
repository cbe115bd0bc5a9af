SPECIFICATION ProcessorSpec
CONSTANTS
  Caller = {c1, c2}
  Tracked = {c1, c2}
  failure_threshold = 1
  cooldown = 1
  max_retries = 1
  Key = {k1}
  key_of <- MCKeyOf
INVARIANT
  AtMostOnce
CHECK_DEADLOCK FALSE
