\* The supervisor with two retries per command: ordering, retry budget and
\* cancellation properties, and termination after a signal.
CONSTANTS
    Controller = Controller
    Worker = Worker
    Storage = Storage
    Linux = Linux
    Windows = Windows
    Labels <- MCLabels
    OSes <- MCOSes
    ServerConfigs <- MCServerConfigs
    Commands <- MCCommands
    NodeLabels <- MCNodeLabels
    HostOS = Linux
    VIPConfigured <- MCVIPConfigured
    CommandRetries = 2
    KillTimeout = 2
    MaxChildren = 2
SPECIFICATION Spec
INVARIANTS
    TypeOK
    AttemptsAfterStopBounded
    RetryBudget
    SequentialDependency
    SetupFinishedWithoutSignal
PROPERTIES
    ShutdownTerminates
    LifecycleRefinement
\* The process ends (Run returns or log.Fatal exits): no step follows.
CHECK_DEADLOCK FALSE
