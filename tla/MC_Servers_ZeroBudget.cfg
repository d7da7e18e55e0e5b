\* violation: SetupFinishedUnlessStopped.  With a retry budget of 0
\* runCommand makes no attempt and returns nil, so the goroutine reports the
\* setup finished without any signal and without running a command.
CONSTANTS
    Controller = Controller
    Worker = Worker
    Storage = Storage
    Linux = Linux
    Windows = Windows
    Labels <- MCLabels
    OSes <- MCOSes
    ServerConfigs <- MCServerConfigs
    Commands <- MCCommands
    NodeLabels <- MCNodeLabels
    HostOS = Linux
    VIPConfigured <- MCVIPConfigured
    CommandRetries = 0
    KillTimeout = 2
    MaxChildren = 2
SPECIFICATION Spec
INVARIANT SetupFinishedUnlessStopped
CHECK_DEADLOCK FALSE
