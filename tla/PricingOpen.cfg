SPECIFICATION Spec
CONSTANTS
  Models <- MCModels
  InitOptions <- OpaqueOptions
  RawTexts <- MCRawTexts
  DefaultRatio <- MCDefaultRatio
  Presets <- MCPresets
  TierPrices <- MCTierPrices
  LanePrices <- MCLanePrices
  MaxTiers = 3
  MaxGroups = 2
  MaxActs = 1
INVARIANTS
  OpenKeepsPrice
CHECK_DEADLOCK FALSE
