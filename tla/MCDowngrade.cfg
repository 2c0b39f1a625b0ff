SPECIFICATION ServiceSpec
CONSTANTS
  promo = promo
  r1 = r1
  r2 = r2
  r3 = r3
  CampaignTypes = {promo}
  RunIds = {r1, r2, r3}
  TriggerMax <- Triggers
  MaxDiscountPct = 25
  MaxSendsPer24h = 3
  Evaluations <- SmallEvaluations
  Reports <- SmallReports
  Challenges <- SmallChallenges
  Times <- SmallTimes
  Day = 24
  Ceilings = {0, 1}
  Gate <- SmallGate
  CooldownRuns = 1
  MaxEntries = 5
  SendWindow = 1
  MaxClock = 0
  MaxCrashes = 1
PROPERTIES
  ImplementsLadder
  DemotionReachesInFlight
