CONSTANTS
  Apps <- MCApps
  NB_MBUF <- MCPools
  BURST = 3
  MaxPackets = 4
SPECIFICATION FairSpec
INVARIANTS GraphCustody StreamsFit FamilyOrder OnlyEnabledFeatures
PROPERTY LimitedAppsEnd
