SPECIFICATION HarnessSpec
CONSTANTS
  promo = promo
  id = id
  CampaignTypes = {promo}
  RunIds = {id}
  TriggerMax <- Triggers
  MaxDiscountPct = 25
  MaxSendsPer24h = 3
  Briefs <- SmallBriefs
  Copies <- Texts
  DefectsOf <- Defects
  Goldens <- TwoGoldens
  Labels <- AllLabelled
  Answers <- ModelAnswers
  Verbatim = {"verbatim"}
  MaxFaults = 1
INVARIANTS
  MissingFixtureFailsGate
CHECK_DEADLOCK FALSE
