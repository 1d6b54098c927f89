\* A USB task preempts a worker in EEPROMProgram.
CONSTANTS
    main = main
    dio = dio
    mac = mac
    ip = ip
    debug = debug
    test = test
    w1 = w1
    u1 = u1
    Main = main
    Dio = dio
    Test = test
    Sections <- MCSections
    Base <- MCBase
    Size <- MCSize
    CheckWord = 2
    Last = 16
    Boot = boot
    Workers <- MCWorkers
    UsbTasks <- MCUsbTasks
    SectionsOf <- MCSectionsOf
    MaxSets = 3
    Erased = Erased
    Zero = Zero
    Default = Default
    Pattern = Pattern
    NoSection = NoSection
SPECIFICATION Spec
INVARIANTS
    ProgramStores
