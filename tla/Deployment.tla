----------------------------- MODULE Deployment -----------------------------
(***************************************************************************)
(* The deployment pipeline of k8s-tew (package deployment, type            *)
(* Deployment, src/deployment/deployment.go).  Deploy uploads the files to *)
(* every node in sorted-name order, then, unless setup is skipped, taints  *)
(* every node (each with a retry loop), pulls the images on every node     *)
(* (the pulls of one node run as parallel tasks, joined before the next    *)
(* node), and runs the bootstrapper commands locally, each through a       *)
(* retry loop.  The first error ends Deploy.                               *)
(*                                                                         *)
(* Nodes are 1..NumNodes in the order of GetSortedNodeKeys; images and     *)
(* commands are indices into ImageFeatures and Commands.  Every remote or  *)
(* shell call (UploadFiles, configureTaint, pullImage, ApplyTemplate,      *)
(* RunCommand) succeeds or fails nondeterministically.                     *)
(***************************************************************************)
EXTENDS Naturals, Sequences, FiniteSets

CONSTANTS
    Labels,          \* node labels
    Bootstrapper,    \* utils.NODE_BOOTSTRAPPER
    Features,        \* feature tags (storage, monitoring, ...)
    NumNodes,        \* number of entries of Config.Nodes
    ImageFeatures,   \* deployment.images: the features of each image
    SkipFeatures,    \* skipSetupFeatures built by NewDeployment
    Commands,        \* Config.Commands: sequence of [labels, features]
    CommandRetries   \* deployment.commandRetries

ASSUME DeploymentAssumption ==
    /\ Bootstrapper \in Labels
    /\ NumNodes \in Nat
    /\ ImageFeatures \in Seq(SUBSET Features)
    /\ SkipFeatures \subseteq Features
    /\ Commands \in Seq([labels : SUBSET Labels, features : SUBSET Features])
    /\ CommandRetries \in Nat

Nodes == 1 .. NumNodes
ImageIds == 1 .. Len(ImageFeatures)
CmdIds == 1 .. Len(Commands)

(***************************************************************************)
(* Helpers of package config (not under src/): HasFeatures and HasLabels   *)
(* are true when the two lists share an element.                           *)
(***************************************************************************)
HasFeatures(features, others) == features \cap others # {}

HasLabels(labels, others) == labels \cap others # {}

\* runPullImages: the task of an image with a skipped feature pulls nothing.
ImageSkipped(i) == HasFeatures(ImageFeatures[i], SkipFeatures)

\* runBoostrapperCommands: the commands it runs.
BootstrapCommand(c) ==
    /\ HasLabels(Commands[c].labels, {Bootstrapper})
    /\ ~HasFeatures(Commands[c].features, SkipFeatures)

VARIABLES
    skipSetup,     \* deployment.skipSetup
    pullImages,    \* deployment.pullImages
    phase,         \* where Deploy is
    nodeIdx,       \* index of the node being processed
    retries,       \* the retry counter of the current retry loop
    lastErr,       \* the retry loop's error variable is not nil
    pending,       \* pull tasks of the current node not yet finished
    pullErr,       \* some pull task of the current node failed
    cmdIdx,        \* index of the command being processed
    uploaded,      \* history: nodes whose files were uploaded
    tainted,       \* history: nodes whose taint was configured
    pulled,        \* history: <<node, image>> pairs pulled
    taintAttempts, \* history: configureTaint calls per node
    cmdAttempts,   \* history: RunCommand calls per command
    succeeded,     \* history: commands that ran successfully
    progress       \* utils.IncreaseProgressStep calls made by setup

vars == <<skipSetup, pullImages, phase, nodeIdx, retries, lastErr, pending,
          pullErr, cmdIdx, uploaded, tainted, pulled, taintAttempts,
          cmdAttempts, succeeded, progress>>

Returned == phase \in {"done", "failed"}

TypeOK ==
    /\ skipSetup \in BOOLEAN
    /\ pullImages \in BOOLEAN
    /\ phase \in {"upload", "taint", "pull", "pulling", "bootstrap",
                  "cmdretry", "done", "failed"}
    /\ nodeIdx \in 1 .. NumNodes + 1
    /\ retries \in Nat
    /\ lastErr \in BOOLEAN
    /\ pending \subseteq ImageIds
    /\ pullErr \in BOOLEAN
    /\ cmdIdx \in 1 .. Len(Commands) + 1
    /\ uploaded \subseteq Nodes
    /\ tainted \subseteq Nodes
    /\ pulled \subseteq Nodes \X ImageIds
    /\ taintAttempts \in [Nodes -> Nat]
    /\ cmdAttempts \in [CmdIds -> Nat]
    /\ succeeded \subseteq CmdIds
    /\ progress \in Nat

\* NewDeployment: both flags come from the command line.
Init ==
    /\ skipSetup \in BOOLEAN
    /\ pullImages \in BOOLEAN
    /\ phase = "upload"
    /\ nodeIdx = 1
    /\ retries = 0
    /\ lastErr = FALSE
    /\ pending = {}
    /\ pullErr = FALSE
    /\ cmdIdx = 1
    /\ uploaded = {}
    /\ tainted = {}
    /\ pulled = {}
    /\ taintAttempts = [n \in Nodes |-> 0]
    /\ cmdAttempts = [c \in CmdIds |-> 0]
    /\ succeeded = {}
    /\ progress = 0

-----------------------------------------------------------------------------
(***************************************************************************)
(* Plausible bugs of the code below, each checked to break a property.     *)
(***************************************************************************)

\* The upload loop without its bound.
UploadFilesNoBound ==
    /\ phase = "upload"
    /\ uploaded' = uploaded \cup {nodeIdx}
    /\ nodeIdx' = nodeIdx + 1
    /\ UNCHANGED <<skipSetup, pullImages, phase, retries, lastErr, pending, pullErr,
                   cmdIdx, tainted, pulled, taintAttempts, cmdAttempts, succeeded, progress>>

\* The taint retry loop written with <= instead of <.
TaintAttemptOffByOne ==
    /\ phase = "taint"
    /\ nodeIdx <= NumNodes
    /\ retries <= CommandRetries
    /\ taintAttempts' = [taintAttempts EXCEPT ![nodeIdx] = @ + 1]
    /\ \/ /\ tainted' = tainted \cup {nodeIdx}
          /\ lastErr' = FALSE
          /\ nodeIdx' = nodeIdx + 1
          /\ retries' = 0
          /\ progress' = progress + 1
       \/ /\ lastErr' = TRUE
          /\ retries' = retries + 1
          /\ UNCHANGED <<tainted, nodeIdx, progress>>
    /\ UNCHANGED <<skipSetup, pullImages, phase, pending, pullErr, cmdIdx, uploaded,
                   pulled, cmdAttempts, succeeded>>

\* A node whose taint retries are exhausted is passed over, error or not.
TaintExhaustedNoCheck ==
    /\ phase = "taint"
    /\ nodeIdx <= NumNodes
    /\ retries >= CommandRetries
    /\ nodeIdx' = nodeIdx + 1
    /\ retries' = 0
    /\ progress' = progress + 1
    /\ UNCHANGED <<skipSetup, pullImages, phase, lastErr, pending, pullErr, cmdIdx,
                   uploaded, tainted, pulled, taintAttempts, cmdAttempts, succeeded>>

\* runBoostrapperCommands without the skipped-feature check.
NextBootstrapCommandNoFeatureSkip ==
    /\ phase = "bootstrap"
    /\ cmdIdx <= Len(Commands)
    /\ \/ /\ ~HasLabels(Commands[cmdIdx].labels, {Bootstrapper})
          /\ cmdIdx' = cmdIdx + 1
          /\ progress' = progress + 1
          /\ UNCHANGED <<phase, retries, lastErr>>
       \/ /\ HasLabels(Commands[cmdIdx].labels, {Bootstrapper})
          /\ phase' = "cmdretry"
          /\ retries' = 0
          /\ lastErr' = FALSE
          /\ UNCHANGED <<cmdIdx, progress>>
    /\ UNCHANGED <<skipSetup, pullImages, nodeIdx, pending, pullErr, uploaded, tainted,
                   pulled, taintAttempts, cmdAttempts, succeeded>>

\* The join of a node's pull tasks that drops their errors.
PullJoinIgnoreErrors ==
    /\ phase = "pulling"
    /\ pending = {}
    /\ phase' = "pull"
    /\ nodeIdx' = nodeIdx + 1
    /\ UNCHANGED <<skipSetup, pullImages, retries, lastErr, pending, pullErr, cmdIdx,
                   uploaded, tainted, pulled, taintAttempts, cmdAttempts, succeeded, progress>>

\* The join that only returns once every task has succeeded.
PullJoinStuck ==
    /\ phase = "pulling"
    /\ pending = {}
    /\ ~pullErr
    /\ phase' = "pull"
    /\ nodeIdx' = nodeIdx + 1
    /\ UNCHANGED <<skipSetup, pullImages, retries, lastErr, pending, pullErr, cmdIdx,
                   uploaded, tainted, pulled, taintAttempts, cmdAttempts, succeeded, progress>>

-----------------------------------------------------------------------------
(***************************************************************************)
(* Deploy: the upload loop.                                                *)
(***************************************************************************)

\* nodeDeployment.UploadFiles for the next node in sorted order; an error
\* ends Deploy.
UploadFiles ==
    /\ phase = "upload"
    /\ nodeIdx <= NumNodes
    /\ \/ /\ uploaded' = uploaded \cup {nodeIdx}
          /\ nodeIdx' = nodeIdx + 1
          /\ UNCHANGED phase
       \/ /\ phase' = "failed"
          /\ UNCHANGED <<uploaded, nodeIdx>>
    /\ UNCHANGED <<skipSetup, pullImages, retries, lastErr, pending, pullErr, cmdIdx,
                   tainted, pulled, taintAttempts, cmdAttempts, succeeded, progress>>

\* All files uploaded: setup returns nil at once when setup is skipped, else
\* runConfigureTaints starts with the first node.
Setup ==
    /\ phase = "upload"
    /\ nodeIdx > NumNodes
    /\ \/ /\ skipSetup
          /\ phase' = "done"
          /\ UNCHANGED <<nodeIdx, retries>>
       \/ /\ ~skipSetup
          /\ phase' = "taint"
          /\ nodeIdx' = 1
          /\ retries' = 0
    /\ UNCHANGED <<skipSetup, pullImages, lastErr, pending, pullErr, cmdIdx, uploaded,
                   tainted, pulled, taintAttempts, cmdAttempts, succeeded, progress>>

-----------------------------------------------------------------------------
(***************************************************************************)
(* runConfigureTaints.  Its error variable is declared once, outside the   *)
(* node loop, and is not reset between nodes.                              *)
(***************************************************************************)

\* One configureTaint call: success breaks out to the next node, failure
\* sleeps and retries.
TaintAttempt ==
    /\ phase = "taint"
    /\ nodeIdx <= NumNodes
    /\ retries < CommandRetries
    /\ taintAttempts' = [taintAttempts EXCEPT ![nodeIdx] = @ + 1]
    /\ \/ /\ tainted' = tainted \cup {nodeIdx}
          /\ lastErr' = FALSE
          /\ nodeIdx' = nodeIdx + 1
          /\ retries' = 0
          /\ progress' = progress + 1
       \/ /\ lastErr' = TRUE
          /\ retries' = retries + 1
          /\ UNCHANGED <<tainted, nodeIdx, progress>>
    /\ UNCHANGED <<skipSetup, pullImages, phase, pending, pullErr, cmdIdx, uploaded,
                   pulled, cmdAttempts, succeeded>>

\* The retries of a node are used up: the progress step is counted, then
\* "Taint node failed" and Deploy returns the error, or, the error variable
\* being nil, the next node.
TaintExhausted ==
    /\ phase = "taint"
    /\ nodeIdx <= NumNodes
    /\ retries >= CommandRetries
    /\ \/ /\ lastErr
          /\ phase' = "failed"
          /\ UNCHANGED <<nodeIdx, retries>>
       \/ /\ ~lastErr
          /\ nodeIdx' = nodeIdx + 1
          /\ retries' = 0
          /\ UNCHANGED phase
    /\ progress' = progress + 1
    /\ UNCHANGED <<skipSetup, pullImages, lastErr, pending, pullErr, cmdIdx, uploaded,
                   tainted, pulled, taintAttempts, cmdAttempts, succeeded>>

\* Every node tainted: runPullImages returns nil at once unless images are
\* pulled, and runBoostrapperCommands starts.
TaintsDone ==
    /\ phase = "taint"
    /\ nodeIdx > NumNodes
    /\ \/ /\ pullImages
          /\ phase' = "pull"
          /\ nodeIdx' = 1
          /\ UNCHANGED cmdIdx
       \/ /\ ~pullImages
          /\ phase' = "bootstrap"
          /\ cmdIdx' = 1
          /\ UNCHANGED nodeIdx
    /\ UNCHANGED <<skipSetup, pullImages, retries, lastErr, pending, pullErr, uploaded,
                   tainted, pulled, taintAttempts, cmdAttempts, succeeded, progress>>

-----------------------------------------------------------------------------
(***************************************************************************)
(* runPullImages: one task per image for the current node, run by          *)
(* utils.RunParallelTasks, which returns the errors of all of them.        *)
(***************************************************************************)

StartPullTasks ==
    /\ phase = "pull"
    /\ nodeIdx <= NumNodes
    /\ phase' = "pulling"
    /\ pending' = ImageIds
    /\ pullErr' = FALSE
    /\ UNCHANGED <<skipSetup, pullImages, nodeIdx, retries, lastErr, cmdIdx, uploaded,
                   tainted, pulled, taintAttempts, cmdAttempts, succeeded, progress>>

\* One task finishes, in any order, counting its progress step (deferred): a
\* skipped image returns nil, else pullImage succeeds or fails.
PullTask ==
    /\ phase = "pulling"
    /\ \E i \in pending :
        /\ pending' = pending \ {i}
        /\ \/ /\ ImageSkipped(i)
              /\ UNCHANGED <<pulled, pullErr>>
           \/ /\ ~ImageSkipped(i)
              /\ pulled' = pulled \cup {<<nodeIdx, i>>}
              /\ UNCHANGED pullErr
           \/ /\ ~ImageSkipped(i)
              /\ pullErr' = TRUE
              /\ UNCHANGED pulled
    /\ progress' = progress + 1
    /\ UNCHANGED <<skipSetup, pullImages, phase, nodeIdx, retries, lastErr, cmdIdx,
                   uploaded, tainted, taintAttempts, cmdAttempts, succeeded>>

\* All tasks of the node returned: the first error ends Deploy, else the
\* next node.
PullJoin ==
    /\ phase = "pulling"
    /\ pending = {}
    /\ \/ /\ pullErr
          /\ phase' = "failed"
          /\ UNCHANGED nodeIdx
       \/ /\ ~pullErr
          /\ phase' = "pull"
          /\ nodeIdx' = nodeIdx + 1
    /\ UNCHANGED <<skipSetup, pullImages, retries, lastErr, pending, pullErr, cmdIdx,
                   uploaded, tainted, pulled, taintAttempts, cmdAttempts, succeeded, progress>>

PullsDone ==
    /\ phase = "pull"
    /\ nodeIdx > NumNodes
    /\ phase' = "bootstrap"
    /\ cmdIdx' = 1
    /\ UNCHANGED <<skipSetup, pullImages, nodeIdx, retries, lastErr, pending, pullErr,
                   uploaded, tainted, pulled, taintAttempts, cmdAttempts, succeeded, progress>>

-----------------------------------------------------------------------------
(***************************************************************************)
(* runBoostrapperCommands and Deployment.runCommand (no stop flag).        *)
(***************************************************************************)

\* The next command: skipped unless it is a bootstrapper command without a
\* skipped feature; ApplyTemplate may fail and end Deploy; else runCommand
\* starts with its error variable nil.
NextBootstrapCommand ==
    /\ phase = "bootstrap"
    /\ cmdIdx <= Len(Commands)
    /\ \/ /\ ~BootstrapCommand(cmdIdx)
          /\ cmdIdx' = cmdIdx + 1
          /\ progress' = progress + 1
          /\ UNCHANGED <<phase, retries, lastErr>>
       \/ /\ BootstrapCommand(cmdIdx)
          /\ phase' = "failed"
          /\ UNCHANGED <<cmdIdx, retries, lastErr, progress>>
       \/ /\ BootstrapCommand(cmdIdx)
          /\ phase' = "cmdretry"
          /\ retries' = 0
          /\ lastErr' = FALSE
          /\ UNCHANGED <<cmdIdx, progress>>
    /\ UNCHANGED <<skipSetup, pullImages, nodeIdx, pending, pullErr, uploaded, tainted,
                   pulled, taintAttempts, cmdAttempts, succeeded>>

\* One utils.RunCommand call of runCommand's retry loop.
CommandAttempt ==
    /\ phase = "cmdretry"
    /\ retries < CommandRetries
    /\ cmdAttempts' = [cmdAttempts EXCEPT ![cmdIdx] = @ + 1]
    /\ \/ /\ succeeded' = succeeded \cup {cmdIdx}
          /\ lastErr' = FALSE
          /\ phase' = "bootstrap"
          /\ cmdIdx' = cmdIdx + 1
          /\ progress' = progress + 1
          /\ UNCHANGED retries
       \/ /\ lastErr' = TRUE
          /\ retries' = retries + 1
          /\ UNCHANGED <<succeeded, phase, cmdIdx, progress>>
    /\ UNCHANGED <<skipSetup, pullImages, nodeIdx, pending, pullErr, uploaded, tainted,
                   pulled, taintAttempts>>

\* The retries are used up: runCommand returns its error variable.
CommandExhausted ==
    /\ phase = "cmdretry"
    /\ retries >= CommandRetries
    /\ \/ /\ lastErr
          /\ phase' = "failed"
          /\ UNCHANGED <<cmdIdx, progress>>
       \/ /\ ~lastErr
          /\ phase' = "bootstrap"
          /\ cmdIdx' = cmdIdx + 1
          /\ progress' = progress + 1
    /\ UNCHANGED <<skipSetup, pullImages, nodeIdx, retries, lastErr, pending, pullErr,
                   uploaded, tainted, pulled, taintAttempts, cmdAttempts, succeeded>>

\* All commands processed: Deploy returns nil.
BootstrapDone ==
    /\ phase = "bootstrap"
    /\ cmdIdx > Len(Commands)
    /\ phase' = "done"
    /\ UNCHANGED <<skipSetup, pullImages, nodeIdx, retries, lastErr, pending, pullErr,
                   cmdIdx, uploaded, tainted, pulled, taintAttempts, cmdAttempts,
                   succeeded, progress>>

-----------------------------------------------------------------------------
Next ==
    \/ UploadFiles \/ Setup
    \/ TaintAttempt \/ TaintExhausted \/ TaintsDone
    \/ StartPullTasks \/ PullTask \/ PullJoin \/ PullsDone
    \/ NextBootstrapCommand \/ CommandAttempt \/ CommandExhausted \/ BootstrapDone

\* Deploy runs on one goroutine (and the pull tasks on their own), which
\* the Go scheduler keeps running.
Spec == Init /\ [][Next]_vars /\ WF_vars(Next)

-----------------------------------------------------------------------------
(***************************************************************************)
(* Properties.                                                             *)
(***************************************************************************)

(* A bootstrapper command runs only once every node has its files and its   *)
(* taint and, when images are pulled, every image not skipped is on every   *)
(* node: the parallel pull tasks of a node are all joined, and any error    *)
(* among them stops Deploy, before the next phase starts.                   *)
SetupPrecondition ==
    \A c \in CmdIds :
        cmdAttempts[c] > 0 =>
            /\ uploaded = Nodes
            /\ tainted = Nodes
            /\ pullImages =>
                 \A n \in Nodes, i \in ImageIds : ~ImageSkipped(i) => <<n, i>> \in pulled

(* configureTaint is called at most commandRetries times per node and       *)
(* utils.RunCommand at most commandRetries times per bootstrapper command.  *)
DeployRetryBudget ==
    /\ \A n \in Nodes : taintAttempts[n] <= CommandRetries
    /\ \A c \in CmdIds : cmdAttempts[c] <= CommandRetries

(* When Deploy returns nil, every node has its files and, unless setup was  *)
(* skipped, every node its taint and every bootstrapper command has run     *)
(* successfully.                                                            *)
DeploySuccessMeansDone ==
    phase = "done" =>
        /\ uploaded = Nodes
        /\ ~skipSetup =>
             /\ tainted = Nodes
             /\ \A c \in CmdIds : BootstrapCommand(c) => c \in succeeded

(* Deployment.Steps sizes the progress bar: when Deploy returns nil after   *)
(* setup, the progress steps setup counted are the ones Steps reserved for *)
(* it (a taint per node, a pull per node and image, a step per node and    *)
(* command).                                                               *)
SetupSteps ==
    NumNodes
      + (IF pullImages THEN NumNodes * Len(ImageFeatures) ELSE 0)
      + NumNodes * Len(Commands)

DeployProgressComplete ==
    phase = "done" /\ ~skipSetup => progress = SetupSteps

(***************************************************************************)
(* The refinement mapping onto the abstract pipeline (DeployPipeline): the *)
(* retry loops, the pull tasks and the progress count are hidden; a node's *)
(* pulls become visible when its tasks are joined (nodeIdx passes it), and *)
(* a command counts as run when runCommand returns nil.                    *)
(***************************************************************************)
StageBar ==
    CASE phase = "pulling"  -> "pull"
      [] phase = "cmdretry" -> "bootstrap"
      [] OTHER              -> phase

PulledBar == {p \in pulled : p[1] < nodeIdx}

Pipeline == INSTANCE DeployPipeline WITH
    NumCommands <- Len(Commands),
    ToPull <- {i \in ImageIds : ~ImageSkipped(i)},
    ToRun <- {c \in CmdIds : BootstrapCommand(c)},
    stage <- StageBar,
    node <- nodeIdx,
    cmd <- cmdIdx,
    pulled <- PulledBar

(* Deploy implements the abstract pipeline: whatever the retries and the   *)
(* order in which a node's pull tasks finish, its visible effects are      *)
(* whole-node steps in sorted node order and commands in declared order,   *)
(* each phase starting only after the previous one ended, and it ends.     *)
PipelineRefinement == Pipeline!Spec

(* Deploy returns: every loop is bounded and the pull tasks all finish.     *)
DeployTerminates == <>Returned

=============================================================================
