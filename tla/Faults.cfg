SPECIFICATION FairSpec
CONSTANTS
  Threads = {t1, t2}
  NumericFaults = {"low", "high"}
  Refusals = {"depth", "syntax"}
  MaxItems = 2
  MaxCalls = 3
PROPERTIES FirstFaultWins EveryCallAnswers
CHECK_DEADLOCK FALSE
