SPECIFICATION ServiceSpec
CONSTANTS
  promo = promo
  r1 = r1
  r2 = r2
  r3 = r3
  CampaignTypes = {promo}
  RunIds = {r1, r2, r3}
  TriggerMax <- Triggers
  MaxDiscountPct = 25
  MaxSendsPer24h = 3
  Evaluations <- SmallEvaluations
  Reports <- SmallReports
  Challenges <- SmallChallenges
  Times <- SmallTimes
  Day = 24
  Ceilings = {1}
  Gate <- SmallGate
  CooldownRuns = 1
  MaxEntries = 7
  SendWindow = 1
  MaxClock = 1
  MaxCrashes = 1
INVARIANTS
  ServiceTypeOK
  SendsWhileTrusted
  TransitionChain
  InFlightIsRecorded
  NothingInFlightUntrusted
  StoresAgree
PROPERTIES
  DowngradesMakeUp
  BulkApprovalsAreRoutine
