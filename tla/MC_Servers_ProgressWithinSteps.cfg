\* violation: ProgressWithinSteps. Every server config applies and both
\* VIP managers are added; Steps() does not count the VIP managers.
CONSTANTS
    Controller = Controller
    Worker = Worker
    Storage = Storage
    Linux = Linux
    Windows = Windows
    Labels <- MCLabels
    OSes <- MCOSes
    ServerConfigs <- MCAllServerConfigs
    Commands <- MCCommands
    NodeLabels <- MCNodeLabels
    HostOS = Linux
    VIPConfigured <- MCBothVIPs
    CommandRetries = 2
    KillTimeout = 2
    MaxChildren = 2
SPECIFICATION Spec
INVARIANT ProgressWithinSteps
CHECK_DEADLOCK FALSE
