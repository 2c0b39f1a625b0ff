SPECIFICATION Spec
CONSTANTS
  promo = promo
  news = news
  r1 = r1
  CampaignTypes = {promo}
  RunIds = {r1}
  TriggerMax <- Triggers
  MaxDiscountPct = 25
  MaxSendsPer24h = 3
  Evaluations <- LadderEvals
  Reports <- LadderReports
  Challenges <- LadderChallenges
  Times = {0}
  Day = 24
  Ceilings = {1, 2}
  Gate <- LadderGate
  CooldownRuns = 2
  MaxEntries = 7
INVARIANTS
  TypeOK
  ReplayIsFold
  SendsWhileTrusted
  TransitionChain
  CooldownServed
  NoSendAfterBreach
PROPERTIES
  ImplementsLadder
  GateMetPromotes
  ConstraintBlocksNeutral
