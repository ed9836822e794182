SPECIFICATION FairSpec
CONSTANTS
  PORTS = {ts, go, rs}
  Ids = {abnf, bnf}
  Repo = abnf
  NoId = NoId
  Absent = Absent
  MaxEdits = 2
INVARIANT RegisterIsExact
PROPERTIES EveryDriftIsCaught AdviceEndsInOk
CHECK_DEADLOCK FALSE
