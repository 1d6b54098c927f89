\* Two workers and two pins, with commands of all kinds for one of them.
CONSTANTS
    Workers = {w1, w2}
    Pins <- MCPins
    InputConfigs <- MCInputConfigs
    OutputConfigs <- MCOutputConfigs
    StdIn = "IN_PU"
    StdOut = "OUT_OD_PU"
    Settings <- MCSettings
    InTicks <- MCInTicks
    Defaults <- MCDefaults
    Commands <- MCCommands
SYMMETRY Symmetry
SPECIFICATION PinsSpec
INVARIANTS
    SavedAsUsed
    CopyCurrent
