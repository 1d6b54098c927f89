\* The channel is configured at any moment of the scan.
CONSTANTS
    Configs <- MCConfigs
    MaxVal = 2
    MaxDelay = 2
SPECIFICATION FairSpec
INVARIANTS
    BypassHasItsValue
PROPERTIES
    DebounceFilters
    BouncesNotCounted
    EdgesSeen
