SPECIFICATION TabSpec
CONSTANTS
  MaxDocs = 4
  MaxQueue = 2
  MaxMail = 2
  HistoryMax = 2
  RetryRejects = TRUE
INVARIANT RejectedDiscarded
CHECK_DEADLOCK FALSE
