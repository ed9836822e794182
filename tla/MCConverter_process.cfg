SPECIFICATION FairSpec
CONSTANTS
  Words <- TextWords
  Productions <- Referring
  Comments <- NoComments
  Names <- LocalNames
  MemberNames <- Members
  MaxItems = 2
  MaxCalls = 2
  MaxWrites = 1
INVARIANTS CoreRulesAreReached OrderTellsDirectCore VerdictFollowsText CallersAreIsolated
PROPERTIES EveryCallAnswers
CHECK_DEADLOCK FALSE
