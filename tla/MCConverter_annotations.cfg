SPECIFICATION Spec
CONSTANTS
  Words <- TextWords
  Productions <- PlainAndIncremental
  Comments <- EveryComment
  Names <- TwoNames
  MemberNames <- Members
  MaxItems = 5
  MaxCalls = 1
  MaxWrites = 0
INVARIANTS TypeOK AnnotationsStay AlternativesGathered VerdictFollowsText
CHECK_DEADLOCK FALSE
