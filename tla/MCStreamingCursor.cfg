\* One transaction with two statuses before the final one.
SPECIFICATION StreamingSpec
CONSTANTS
  TransactionId = {"t"}
  maxWatched = 1
  FinalStatus = 3
  MaxWatches = 1
PROPERTY NoStatusRepeated
CHECK_DEADLOCK FALSE
