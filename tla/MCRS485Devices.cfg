SPECIFICATION DSpec
CONSTANTS
    avds = avds
    rosen = rosen
    NoTask = NoTask
    NoKind = NoKind
    NoRequest = NoRequest
    Tasks <- MCTasks
    Kinds <- MCKinds
    Tells <- MCTells
    Plain <- MCPlain
    Raw <- MCRaw
    TimerTicks = 2
    FifoTicks = 2
    ReadTicks = 2
    MaxReceived = 2
INVARIANTS NotCutOff AnswersOwn DriverReleased
PROPERTIES Reinitialised
