SPECIFICATION Spec
CONSTANTS
    r = r
    t = t
    in = in
    NoAnswer = NoAnswer
    NoCmd = NoCmd
    Relays <- MCRelays
    Temps <- MCTemps
    Addresses <- MCAddresses
    Inputs <- MCInputs
    Commands <- MCCommands
    Routings <- MCRoutings
    Full = 2
    Blocks = 3
INVARIANTS InputsFollowRequests GateRestored AnswerMeansDone OneWorkerPerBox
PROPERTIES BoxServed
