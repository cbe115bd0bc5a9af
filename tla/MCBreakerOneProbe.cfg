SPECIFICATION BreakerSpec
CONSTANTS
  Caller = {c1, c2, c3}
  failure_threshold = 1
  cooldown = 1
INVARIANT
  OneProbe
