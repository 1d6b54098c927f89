\* Two remote tasks beside the startup task, two files, two descriptions.
\* No symmetry: two of the properties are about liveness.
CONSTANTS
    boot = boot
    r1 = r1
    r2 = r2
    f1 = f1
    f2 = f2
    i1 = i1
    i2 = i2
    NoFile = NoFile
    Empty = Empty
    NoInfo = NoInfo
    NoTask = NoTask
    InitTask = boot
    Remotes <- MCRemotes2
    Files <- MCFiles
    Infos <- MCInfos
    Commands <- MCCommands
    Loadable <- MCLoadable
SPECIFICATION FairSpec
INVARIANTS
    SingleHolder
    SemaphoreNotLost
    MountedOnlyInside
    RepliesFit
    StartupDevicesMatch
PROPERTIES
    RebootLockFreezesFlash
    NoTruncation
    StoreSpec
    OperationCompletes
    RebootHappens
