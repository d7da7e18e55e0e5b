\* violation: StartFailureCleanup
CONSTANTS
    Controller = Controller
    Worker = Worker
    Storage = Storage
    Linux = Linux
    Windows = Windows
    Labels <- MCLabels
    OSes <- MCOSes
    ServerConfigs <- MCServerConfigs
    Commands <- MCCommands
    NodeLabels <- MCNodeLabels
    HostOS = Linux
    VIPConfigured <- MCVIPConfigured
    CommandRetries = 2
    KillTimeout = 2
    MaxChildren = 2
SPECIFICATION Spec
INVARIANT StartFailureCleanup
CHECK_DEADLOCK FALSE
