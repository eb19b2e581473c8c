SPECIFICATION Spec
CONSTANTS
  Ids <- MCIds
  TargetOf <- MCTargetOf
  ObjectOf <- MCObjectOf
  Actionable = {1, 2}
  Severities <- MCSeverities
  Times <- MCTimes
  Specs <- MCSpecs
  Limits = {1, 7}
  SizeMax = 7
  Budget = 2
  MaxTimeline = 2
  Saved <- MCSaved
  MaxChanges = 2
INVARIANT PagesAddUp
INVARIANT NothingMissed
INVARIANT TimelineComplete
INVARIANT ReportAgreesWithQuery
CHECK_DEADLOCK FALSE
