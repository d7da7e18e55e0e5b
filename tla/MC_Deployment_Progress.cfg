\* violation: DeployProgressComplete. Deployment.Steps reserves a step per
\* node and command; runBoostrapperCommands counts one per command.
CONSTANTS
    Bootstrapper = Bootstrapper
    Controller = Controller
    Storage = Storage
    Monitoring = Monitoring
    Labels <- MCLabels
    Features <- MCFeatures
    NumNodes = 2
    ImageFeatures <- MCImageFeatures
    SkipFeatures = {Monitoring}
    Commands <- MCCommands
    CommandRetries = 2
SPECIFICATION Spec
INVARIANTS
    DeployProgressComplete
\* Deploy returns: no step follows "done" or "failed".
CHECK_DEADLOCK FALSE
