SPECIFICATION PanelSpec
CONSTANTS
  apparel = apparel
  marketplace = marketplace
  kowloon = kowloon
  Industry = {apparel, marketplace}
  DEFAULT_INDUSTRY = apparel
  INDUSTRY_DEFAULTS <- MCPreset
  PLATFORM_RISK <- MCPlatformRisk
  DEFAULT_REVENUE = 5000
  DEFAULT_ORDERS = 20
  PARTS = 10
  MAX_REVENUE = 1250
  MAX_ORDERS = 50
  MAX_MONTHS = 600
  Typed <- MCTyped
  SeededMerchant <- MCSeeded
  Job = {j1, j2}
  NoJob = NoJob
  TIER_POLICY <- MCTierPolicy
  LINE_ABSOLUTE_CAP = 5000
  MIN_REVENUE = 100
  UNITS_PER_CENT = 1
  SCORE_VALIDITY = 900
  ISSUED_CLOCK_SKEW = 120
  Form <- MCForm
  Fixture <- MCFixture
  LlmOutput <- MCLlmOutput
INVARIANTS PanelTypeOK ValidFormResolves PreviewIsWhatIsScored FeaturesAreDeclared
PROPERTIES ScoringEnds
