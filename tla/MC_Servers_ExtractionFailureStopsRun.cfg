\* violation: ExtractionFailureStopsRun
CONSTANTS
    Controller = Controller
    Worker = Worker
    Storage = Storage
    Linux = Linux
    Windows = Windows
    Labels <- MCLabels
    OSes <- MCOSes
    ServerConfigs <- MCServerConfigs
    Commands <- MCCommands
    NodeLabels <- MCNodeLabels
    HostOS = Linux
    VIPConfigured <- MCVIPConfigured
    CommandRetries = 2
    KillTimeout = 2
    MaxChildren = 2
SPECIFICATION Spec
INVARIANT ExtractionFailureStopsRun
CHECK_DEADLOCK FALSE
