\* The deployment pipeline, both flags free, two retries: phase order,
\* retry budget, what a nil result means, and termination.
CONSTANTS
    Bootstrapper = Bootstrapper
    Controller = Controller
    Storage = Storage
    Monitoring = Monitoring
    Labels <- MCLabels
    Features <- MCFeatures
    NumNodes = 2
    ImageFeatures <- MCImageFeatures
    SkipFeatures = {Monitoring}
    Commands <- MCCommands
    CommandRetries = 2
SPECIFICATION Spec
INVARIANTS
    TypeOK
    SetupPrecondition
    DeployRetryBudget
    DeploySuccessMeansDone
PROPERTIES
    DeployTerminates
    PipelineRefinement
\* Deploy returns: no step follows "done" or "failed".
CHECK_DEADLOCK FALSE
