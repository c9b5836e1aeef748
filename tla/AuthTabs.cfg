CONSTANTS
  t1 = t1
  t2 = t2
  Tab = {t1, t2}
  NoTab = NoTab
  Locks = TRUE
  RaceDelays = 1
  MaxSid = 2
  MaxActs = 2
  Faults = {"lost", "failed", "odd", "race", "lookup", "fence"}
SPECIFICATION FairSpec
INVARIANTS
  TypeOK
  NoFalseReuse
  RejectionIsTrue
  SessionCanContinue
PROPERTY DeadSessionLeaves
CHECK_DEADLOCK FALSE
