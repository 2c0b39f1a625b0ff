\* The ceiling is lowered to zero by a restart while a type holds a tier.
SPECIFICATION Spec
CONSTANTS
  promo = promo
  news = news
  r1 = r1
  CampaignTypes = {promo}
  RunIds = {r1}
  TriggerMax <- Triggers
  MaxDiscountPct = 25
  MaxSendsPer24h = 3
  Evaluations <- LadderEvals
  Reports <- LadderReports
  Challenges <- LadderChallenges
  Times = {0}
  Day = 24
  Ceilings = {0, 1}
  Gate <- LadderGate
  CooldownRuns = 2
  MaxEntries = 7
PROPERTIES
  NeverRaisedPastCeiling
