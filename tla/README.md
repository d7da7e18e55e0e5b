# Formal models of k8s-tew's supervisor and deployment pipeline

This directory holds TLA+ models of the control flow of two parts of k8s-tew,
the TLC configurations that model-check them, and TLAPS proofs of their key
invariants. `PROJECT.json` lists the components, the runs, the mutants and
findings, the hazards, and the source lines each definition models.

## The system and its parts

| Part | Source | Module | Status |
|---|---|---|---|
| Servers supervisor (`Servers.Run`, `runCommand`, `addVIPManager`, `extractEmbeddedFiles`) | `src/unnamed/part_000` | `Servers`, proofs in `ServersProofs` | modelled |
| Deployment pipeline (`Deploy`, `setup`, taints, image pulls, bootstrapper commands, `Steps`) | `src/deployment/deployment.go` | `Deployment`, abstract `DeployPipeline`, proofs in `DeploymentProofs` | modelled |
| Process-tree killer (`utils.KillProcessChildren`) and progress counter | outside `src/`; called from both | `Servers`, `Deployment` | partly, killer spec-modelled |
| VIPManager election loop and floating IP | outside `src/` | none | planned, spec-modelled |
| Constants | `src/utils/constants.go` | none | pure data |
| Build image | `src/build/Dockerfile` | none | no runtime behaviour |

**Servers** has two goroutines that share the `stop` flag.

*Main goroutine.* Run does these steps in order:
1. Extract the embedded binaries.
2. Build one server per enabled configuration whose labels match the node.
3. Append the VIP managers for the roles the node has and has configured.
4. Start the servers in order. The first `Start` error returns from Run.
5. Register the deferred teardown: stop every server in order, then kill the children. The killer waits up to `killTimeout` seconds for them and then kills them by force.
6. Launch the command goroutine.
7. Block until a signal. On the signal, set `stop` and return, which runs the deferred teardown.

*Command goroutine.* It runs each applicable command through `runCommand`. That loop polls `stop` at the top of each iteration and retries up to `commandRetries` times. A failed command calls `log.Fatal`, which ends the whole process without running deferred functions.

**Deployment** runs on one goroutine:
1. Upload the files to each node in sorted order.
2. If setup is not skipped:
   - taint each node (a retry loop per node);
   - if images are pulled, pull every image on each node (the images of one node are parallel tasks, joined before the next node);
   - run the bootstrapper commands locally through `runCommand`, which has no stop flag.

The first error ends Deploy. The two components do not call each other: the CLI runs one or the other.

## The modules

**`Servers.tla`** has two groups of variables:
- `mainVars`: `pc`, `extractFailed`, `servers`, `buildIdx`, `startIdx`, `stopIdx`, `childrenKilled`, `stop`, and `killVars`: `children` (descendants still alive during the kill) and `killClock` (seconds waited).
- `cmdVars`: `cpc`, `cmdIdx`, `retries`, `cmdErr`, plus the history counters `attempts`, `succeeded` and `lateAttempts`.
- `progress`: the number of `IncreaseProgressStep` calls of both goroutines.

Each main-goroutine step is one action: `ExtractEmbeddedFiles`, `BuildServer`, `AddVIPManagers`, `StartServer`, `LaunchCommands`, `StopServer`, `KillChildren`. The killer, modelled from the spec (sections 5 and 6) because its code is not under `src/`, is `KillChildren` (signal the 0..`MaxChildren` remaining children), `KillWait` (one second passes), `KillReturn` (no child left, or `killTimeout` reached: force-kill and return) and `ChildExit` (a child exits). The signal is `Signal`. The command goroutine is `NextCommand`, `SetupFinished`, `RetryCheck` (the top of the retry loop, including the `stop` poll and the return) and `RunCommand` (one `utils.RunCommand` call).

How the code maps to the model:
- **External calls:** `NewServerWrapper`, `Start`, `ApplyTemplate` and `RunCommand` succeed or fail nondeterministically.
- **Data race on `stop`:** the write and the poll are read as atomic. That is the outcome the Go memory model allows in practice on the build's platforms.
- **`log.Fatal`:** modelled as `pc' = "exited"`. The process ends and the teardown does not run.
- **Progress:** `StartServer` counts a step per started server, and `NextCommand`, `RetryCheck` and `RunCommand` count one per command skipped, passed or run, as `Run` calls `IncreaseProgressStep`. `Steps` is `Servers.Steps`.

**`ServersLifecycle.tla`** is what `Servers.Run` promises (spec section 4.4), without the retry loop, the kill wait or the progress bar:
- the list of servers is made (`Register`, `Ready`); its servers then start one by one in list order (`StartNext`), or Run fails (`Fail`);
- only when every server has started does the command goroutine begin (`Launch`);
- the commands are taken in declared order. One that applies runs (`CommandRan`), fails for good and exits the process (`CommandFatal`), or is passed over (`CommandPassed`), which is allowed only after the signal or with a zero budget. One that does not apply is skipped (`CommandSkipped`);
- the signal (`Signal`) starts the stops in list order (`StopNext`) before Run returns (`Return`).

`Servers` defines `Life == INSTANCE ServersLifecycle WITH ...` under this refinement mapping:
- `life` is `LifeBar`: extraction and building are `"init"`, the stop loop and the kill are both `"stopping"`;
- `started` and `stopped` are `startIdx - 1` and `stopIdx - 1`;
- `cmdLife` is `CmdLifeBar`: the goroutine is `"active"` from its launch until it finishes or fails;
- `cmd` is `cmdIdx`, `ToRun` is the set of applicable commands, and `Budgeted` is `CommandRetries > 0`;
- the list bound `MaxServers` is `Len(ServerConfigs) + 2`, one server per config plus at most two VIP managers. A bound is needed so that TLC can evaluate `ENABLED Ready` for the fairness condition.

The extraction, a skipped config, the kill wait, a child's exit, entering the retry loop and a failed attempt are stutters of the abstraction.

**`Deployment.tla`** tracks:
- `phase`, `nodeIdx`, `cmdIdx`;
- one `retries`/`lastErr` pair for the active retry loop;
- `pending` and `pullErr` for the pull tasks of the current node;
- the history sets `uploaded`, `tainted`, `pulled`, `succeeded`;
- the per-node and per-command attempt counters;
- `progress`, the number of `IncreaseProgressStep` calls.

Each loop iteration, early return and join is an action:
- `UploadFiles` and `Setup`;
- `TaintAttempt`, `TaintExhausted`, `TaintsDone`;
- `StartPullTasks`, `PullTask` (any pending task finishes, in any order), `PullJoin`, `PullsDone`;
- `NextBootstrapCommand`, `CommandAttempt`, `CommandExhausted`, `BootstrapDone`.

The inputs are constants or a nondeterministic choice in `Init`:
- `skipSetup` and `pullImages` are free booleans in `Init`;
- the images' features and the skipped features are constants.

**`DeployPipeline.tla`** is what Deploy promises, without retries, parallel tasks or progress. The files go to every node in order. Then, unless setup is skipped, every node is tainted in order, every node receives all its images in one step when images are pulled, and the bootstrapper commands run in declared order. Any step may fail instead, which ends the pipeline. `Deployment` defines `Pipeline == INSTANCE DeployPipeline WITH ...` under this refinement mapping:
- `stage` is `StageBar`: `"pulling"` maps to `"pull"`, `"cmdretry"` to `"bootstrap"`, and every other phase to itself;
- `pulled` is `PulledBar`, the pulls of the nodes already joined;
- the abstract `node` and `cmd` are `nodeIdx` and `cmdIdx`;
- `ToPull` is the set of non-skipped images, and `ToRun` the set of bootstrapper commands.

A retry, a pull task and a start of tasks are stutters of the abstraction. A failed retry loop or join is `Fail`.

Data is abstracted:
- Labels, OSes and features are model values.
- Commands and servers are indices into the configuration sequences.
- Logging, sleeping and file contents are left out.

## Runs

| Run | Config | Expect | What it shows |
|---|---|---|---|
| `servers_safety` | `MC_Servers.cfg` | pass | `RetryBudget`: no command is attempted more than `commandRetries` times. `SequentialDependency`: a command runs only after every earlier applicable one succeeded. `AttemptsAfterStopBounded`: at most one attempt follows the stop flag. `SetupFinishedWithoutSignal`: without a signal and with a positive budget, "Cluster setup finished" means every applicable command ran. `ShutdownTerminates`: after the signal the process ends, even when children ignore the kill. `LifecycleRefinement`: Run implements `ServersLifecycle`, fairness included; its mutant launches the command goroutine before the start loop ends. |
| `servers_start_failure` | `MC_Servers_StartFailureCleanup.cfg` | violation | A `Start` error leaves the earlier servers running. |
| `servers_fatal_teardown` | `MC_Servers_TeardownCompletes.cfg` | violation | `log.Fatal` can cut the teardown short. |
| `servers_extract_error` | `MC_Servers_ExtractionFailureStopsRun.cfg` | violation | An extraction error is dropped. |
| `servers_setup_finished` | `MC_Servers_SetupFinishedMeansAllRan.cfg` | violation | "Cluster setup finished" is reported for commands that never ran, after the stop flag cut their retry loops short. |
| `servers_zero_budget` | `MC_Servers_ZeroBudget.cfg` | violation | `SetupFinishedUnlessStopped`: with a retry budget of 0 and no signal at all, "Cluster setup finished" is reported with no command run. |
| `servers_progress` | `MC_Servers_ProgressWithinSteps.cfg` | violation | `ProgressWithinSteps`: Run counts more progress steps than `Servers.Steps` reserves. |
| `deploy_safety` | `MC_Deployment.cfg` | pass | `SetupPrecondition`: a bootstrapper command runs only after every node is uploaded and tainted and every non-skipped image is pulled. `DeployRetryBudget`: the retry budgets hold. `DeploySuccessMeansDone`: a nil result means all the work succeeded. `DeployTerminates`: Deploy returns. `PipelineRefinement`: Deploy implements `DeployPipeline`, fairness included. |
| `deploy_progress` | `MC_Deployment_Progress.cfg` | violation | `Deployment.Steps` over-reserves one progress step per node and command. |

Each property of a passing run has a mutant in `PROJECT.json`: a plausible bug in one action, defined just before the actions. TLC finds each mutant violating its property.

**Bounds.**

`MC_Servers` uses:
- four server configurations: one disabled, one for a label the node lacks, and one matching two labels;
- four commands, covering a label mismatch and an OS mismatch;
- the controller VIP configured;
- a retry budget of 2;
- `killTimeout` 2 and up to 2 children left at the kill.

These bounds are enough because they make every branch happen: skip, build, a VIP manager, a start failure, a retry, exhaustion, a signal at every point, children that exit before the timeout and children that outlive it. The run reaches 2645 distinct states.

`servers_progress` makes both server configurations apply and both VIP managers present, the case where the count passes the total.

`MC_Deployment` uses:
- two nodes, so that a node follows a failed or a successful one;
- three images: one plain, one with a feature, one with a skipped feature, so the parallel tasks interleave;
- four commands: a bootstrapper command, a non-bootstrapper one, a skipped-feature one, and one with two labels;
- a retry budget of 2.

The run reaches 474 distinct states.

**Fairness.**
- Servers has weak fairness on each goroutine. The Go scheduler runs a runnable goroutine.
- The signal has no fairness. The operator may never send it, and every property about shutdown is conditional on it.
- A child's exit (`ChildExit`) has no fairness: a child may ignore SIGTERM. `ShutdownTerminates` holds because the killer's clock is under the main goroutine's fairness and the forced kill needs no cooperation from the children. Its mutant, a `KillReturn` that waits for the children with no timeout, makes TLC find a teardown that never ends.
- `ServersLifecycle` has weak fairness on Run's progress and on the command goroutine's progress, and none on the signal. TLC checks that the goroutine fairness of `Servers` implies it: the stutters that hide the kill wait and the retry loop are finitely many.
- Deployment has weak fairness on `Next`: it is one goroutine, and its pull tasks are all started.

Both passing configurations say `CHECK_DEADLOCK FALSE`, because the modelled functions really return: the process exits, or Deploy returns.

## Findings

1. **Start failure leaves servers running** (`part_000:168`). Run returns before the teardown is deferred, so the servers already started are never stopped.
2. **`log.Fatal` cuts the teardown short** (`part_000:203`). It can end the process while the teardown is still running. It is reached by a template error after the signal, or by `runCommand` returning the previous attempt's error when `stop` breaks the retry loop (lines 43-58).
3. **Extraction errors are dropped** (`part_000:128`). `extractEmbeddedFiles` always returns nil.
4. **Setup reported finished too early** (`part_000:43` and `:42`). `runCommand` returns nil without running anything in two cases:
   - when `stop` is set (`servers_setup_finished`);
   - when the budget is 0, with no signal needed (`servers_zero_budget`). Spec §4.4 step 4 and §7 make a failed command fatal so that a corrupt setup does not continue silently.
5. **Progress passes its total** (`part_000:171`). Run counts a step per started server, VIP managers included, but `Servers.Steps` (line 64) counts configured servers only. With both VIP managers, progress reaches 8 against a total of 7.
6. **Progress never completes** (`deployment.go:134`). `Deployment.Steps` counts `Nodes * Commands` for the bootstrapper commands, which run once each.

## Proofs

The proofs hold for every value of the constants allowed by the modules' `ASSUME`s. The provers reach Boolean and arithmetic facts separately: Booleans go to Zenon and arithmetic to Z3. The proofs therefore split each action into one case per disjunct.

`ServersProofs.tla`:
- **`TypeCorrect`:** `Spec => []TypeOK`.
  - `TypeOK` alone is not inductive: `RunCommand` indexes `attempts` by `cmdIdx`, which may be `Len(Commands)+1` outside the retry loop.
  - The strengthening `TypeInv` adds `cpc \in {"retry","exec"} => cmdIdx \in CmdIds`.
- **`StopBoundsAttempts`:** `Spec => []AttemptsAfterStopBounded`.
  - The strengthening is `LateInv`: once a late attempt has happened, `stop` holds and the goroutine is out of `exec`.
  - `RetryCheck` re-enters `exec` only while `stop` is false, and `stop` is never reset.
- **`RetryBudgetHolds`:** `Spec => []RetryBudget`. The strengthening `BudgetInv` says:
  - the commands past `cmdIdx` have no attempts;
  - inside the retry loop, `attempts[cmdIdx] = retries <= commandRetries`, with `<` in `exec`;
  - `cmdErr` is false in the loop and at the head of a command's retries;
  - no command goroutine exists before `LaunchCommands` (`NotLaunched`), since that action has no guard on it.
- **`OrderHolds`:** `Spec => []SequentialDependency`. The strengthening `OrderInv` adds to `BudgetInv`:
  - the command in the retry loop applies to the node;
  - the command about to run comes after every earlier applicable command succeeded (`EarlierSucceeded`);
  - so does the next command tried, but only while `stop` is unset and the budget is positive. Leaving the loop with a nil error before any call needs `stop` or a zero budget, and a zero budget allows no call at all.

- **`LifecycleImplemented`:** `Spec => Life!SafetySpec`, for every budget.
  - `LifeInit` maps the initial state to an initial state.
  - `LifeStep` maps every step to a step of `ServersLifecycle` or a stutter. It needs `OrderInv` and two more facts (`LifeFacts`):
    - `KillAfterStops`: the kill starts only after the stop loop has passed every server, so `KillReturn` is `Return`;
    - `ListBound`: while the list is being made it has at most one server per config examined, so the list is within `MaxServers`.
  - `OrderInv` supplies the rest. The command in the retry loop applies, so a fatal exit is `CommandFatal`. `ErrState` (no error means no attempt yet) makes a nil return from `RetryCheck` happen only with `stop` or a zero budget, which is `CommandPassed`.
- **`SetupFinishedHolds`:** `Spec => []SetupFinishedWithoutSignal`. The abstract invariant `LifecycleOrder` is proved once on `ServersLifecycle` and carried over through `LifecycleImplemented` (`LifecycleOrderHolds`). `SetupFinishedWithoutSignal` is `SetupFinishedUnlessStopped` under a positive budget. The run `servers_zero_budget` shows that the budget assumption cannot be dropped.

`ServersLifecycle.tla`:
- **`LifecycleSafe`:** `SafetySpec => []LifecycleOrder`, for every command count and list bound. `LifecycleOrder` says:
  - commands begin only after every server has started;
  - no server stops before the signal, and all have stopped when Run returns;
  - the signal is seen only in the stopping stages or before a fatal exit;
  - without a signal and with a positive budget, every applicable command before the cursor has run.
  It is inductive once it also says that the cursor is 1 before the goroutine begins.

`DeployPipeline.tla`:
- **`PipelineSafe`:** `SafetySpec => []PipelineInv`. Each stage implies its work:
  - the nodes before the cursor are uploaded, tainted or supplied with their images;
  - every earlier phase is complete on every node;
  - the commands before the cursor that must run have run.

`DeploymentProofs.tla`:
- **`DeployTypeCorrect`:** `Spec => []TypeOK`.
  - The Boolean part (`BoolOK`) and the data part (`DataInv`) are proved per action separately.
  - `DataInv` adds that `cmdIdx` and `nodeIdx` are real indices in the retry and pull phases.
  - `DataInv` is the control part `DataCtl` (phase, cursors, counters) and the data part `DataSets` (sets and attempt maps). No action sets a cursor from a set, so `CtlNext` and `SetsNext` are proved apart. Only five actions change a set; every other step leaves `DataSets` as it is.
- **`DeployBudgetHolds`:** `Spec => []DeployRetryBudget`.
  - `BudgetInv` says nodes and commands not reached yet have no attempts.
  - It also says the active loop's counter equals `retries`.
- **`PipelineImplemented`:** `CommandRetries > 0 => (Spec => Pipeline!SafetySpec)`.
  - `RefineInit` maps the initial state to an initial state.
  - `RefineStep` maps every step to a step of `DeployPipeline` or a stutter, under the invariant `RefInv`.
  - `RefInv` says `lastErr` is set exactly when the active loop has retried. With a positive budget an exhausted loop has retried, so it returns an error and maps to `Fail`, never to a silent success.
  - `RefInv` also says the pulls recorded for the current node are non-skipped images, and that with no error every finished task's pull is recorded. That is what lets `PullJoin` map to `PullNode`.
  - With a zero budget, `runConfigureTaints` returns nil without tainting, which is not a step of the pipeline. The spec claims retry behaviour only for budgets of at least 1, hence the assumption.
- **`DeploySuccessHolds`:** `CommandRetries > 0 => (Spec => []DeploySuccessMeansDone)`.
  - `PipelineSafe` is carried over through `PipelineImplemented` (`AbstractInvHolds`).
  - At stage `"done"`, the abstract invariant gives every node uploaded and, unless setup was skipped, tainted, with every bootstrapper command run.
  - With a zero budget the property fails. The taint loop at `deployment.go:195` makes no attempt, so `_error` stays nil and `runConfigureTaints` returns nil with nothing tainted. This is read from the code: no run checks it, because neither the spec (which leaves deployment out of scope) nor a comment in `deployment.go` states a claim about a zero budget. The supervisor's side of the same case is the run `servers_zero_budget`.
- **`SetupPreconditionHolds`:** `Spec => []SetupPrecondition`, for every budget. The proof splits on the budget:
  - with a zero budget, no command is ever attempted (`DeployBudgetHolds`);
  - with a positive budget, the phase of an attempt is the abstract bootstrap stage, where the abstract invariant gives the uploads, taints and pulls (`ReadyFromAbstract`);
  - from then on no step changes those sets (`HistoryFrozen`), and an attempt happens only in that phase (`SetupStep`).

Some checks stay with TLC:
- liveness: `ShutdownTerminates`, `DeployTerminates`, and the fairness parts of `PipelineRefinement` and `LifecycleRefinement`. The prover does not handle fairness and ENABLED.
- the violated properties of the violation runs, which are findings, not theorems.

Every invariant of the passing runs is proved.

## Not modelled

- The VIP manager's election loop: it is not under `src/`.
- SSH, file contents, templating output, logging and the progress display.
- The process tree as a tree: the killer sees a count of remaining children.

## Plan for later work

1. A spec-modelled `VIPManager`:
   - campaign, lease loss and resign;
   - an abstract single-holder specification;
   - a refinement proof that at most one node binds the floating IP.
2. The fairness part of `LifecycleRefinement` and `PipelineRefinement` stays with TLC. A proof would need reasoning about ENABLED that the installed provers lack.
