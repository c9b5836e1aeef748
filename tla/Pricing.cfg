SPECIFICATION FairSpec
CONSTANTS
  Models <- MCModels
  InitOptions <- MCInitOptions
  RawTexts <- MCRawTexts
  DefaultRatio <- MCDefaultRatio
  Presets <- MCPresets
  TierPrices <- MCTierPrices
  LanePrices <- MCLanePrices
  MaxTiers = 3
  MaxGroups = 2
  MaxActs = 4
INVARIANTS
  TypeOK
  ShownIsStaged
  ViewKeepsPrice
  StagedPricesReturn
  BaselineIsTrue
PROPERTIES
  Settles
CHECK_DEADLOCK FALSE
