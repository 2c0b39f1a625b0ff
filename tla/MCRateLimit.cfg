SPECIFICATION Spec
CONSTANTS
  promo = promo
  news = news
  r1 = r1
  CampaignTypes = {promo, news}
  RunIds = {r1}
  TriggerMax <- Triggers
  MaxDiscountPct = 25
  MaxSendsPer24h = 2
  Evaluations <- RateEvals
  Reports = {}
  Challenges = {}
  Times <- RateTimes
  Day = 1
  Ceilings = {1}
  Gate <- LadderGate
  CooldownRuns = 2
  MaxEntries = 7
INVARIANTS
  RateLimit
PROPERTIES
  TypesIndependent
SYMMETRY TypeSymmetry
