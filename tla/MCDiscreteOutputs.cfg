\* One channel: the channels share nothing but the synchronous counter.
CONSTANTS
    Channels = {c1}
    Configs <- MCConfigs
    MaxTicks = 3
SPECIFICATION FairSpec
PROPERTIES
    BypassOverrides
    BlinkAlternates
