SPECIFICATION ConsoleSpec
CONSTANTS
  promo = promo
  old = old
  s0 = s0
  s1 = s1
  t1 = t1
  t2 = t2
  CampaignTypes = {promo}
  RunIds = {old, s0, s1}
  TriggerMax <- Triggers
  MaxDiscountPct = 25
  MaxSendsPer24h = 1
  Evaluations = {}
  Reports = {}
  Challenges = {}
  Times = {0}
  Day = 24
  Ceilings = {2}
  Gate <- SmallGate
  CooldownRuns = 1
  MaxEntries = 20
  SendWindow = 48
  Threads = {t1, t2}
  SimIds <- PromoIds
  Scenarios = {"degrading", "judge_blindspot"}
  Sizes <- SizesOf
  Noise <- Draws
  Clocks = {0, 49}
  Earlier <- Seeded
  MaxCalls = 2
  MaxRuns = 3
INVARIANTS
  PromotedWhileActive
CHECK_DEADLOCK FALSE
