------------------------------ MODULE Servers ------------------------------
(***************************************************************************)
(* The local process supervisor of k8s-tew (package servers, type Servers, *)
(* src/unnamed/part_000).  Servers.Run runs on the main goroutine: it      *)
(* extracts the embedded host binaries, builds the list of servers         *)
(* (wrapped processes, then the controller and worker VIP managers),       *)
(* starts them in list order, launches a goroutine that runs the           *)
(* provisioning commands, waits for SIGINT/SIGTERM, sets the stop flag and *)
(* returns, running the deferred teardown: stop every server in list order *)
(* and kill the remaining child processes.  The command goroutine runs the *)
(* commands in declared order, each through runCommand's retry loop, which *)
(* polls the stop flag; a command that fails ends the process with         *)
(* log.Fatal.                                                              *)
(*                                                                         *)
(* A server is identified by its ServerConfig index (a wrapped process) or *)
(* by its role label (a VIP manager).  The outcome of every external call  *)
(* (file extraction, NewServerWrapper, Start, ApplyTemplate, RunCommand)   *)
(* is a nondeterministic success or failure.                               *)
(***************************************************************************)
EXTENDS Naturals, Sequences, FiniteSets

CONSTANTS
    Labels,          \* node labels (controller, worker, storage, ...)
    Controller,      \* the controller label
    Worker,          \* the worker label
    OSes,            \* operating system tags
    ServerConfigs,   \* Config.Servers: sequence of [enabled, labels]
    Commands,        \* Config.Commands: sequence of [labels, os]
    NodeLabels,      \* labels of this node (config.Node.Labels)
    HostOS,          \* the OS this process runs on
    VIPConfigured,   \* role -> virtual IP and its interface both non-empty
    CommandRetries,  \* the commandRetries argument of Run
    KillTimeout,     \* servers.killTimeout, in seconds
    MaxChildren      \* bound on the descendants left after the stop loop

Roles == {Controller, Worker}

ASSUME ConstantsAssumption ==
    /\ {Controller, Worker} \subseteq Labels
    /\ NodeLabels \subseteq Labels
    /\ HostOS \in OSes
    /\ ServerConfigs \in Seq([enabled : BOOLEAN, labels : SUBSET Labels])
    /\ Commands \in Seq([labels : SUBSET Labels, os : SUBSET OSes])
    /\ VIPConfigured \in [Roles -> BOOLEAN]
    /\ CommandRetries \in Nat
    /\ KillTimeout \in Nat
    /\ MaxChildren \in Nat

CmdIds == 1 .. Len(Commands)
ServerIds == (1 .. Len(ServerConfigs)) \cup Roles

(***************************************************************************)
(* Helpers of package config and utils (not under src/): CompareLabels is *)
(* true when the two label lists share a label, HasOS when the host OS is  *)
(* one of the command's OSes.                                              *)
(***************************************************************************)
CompareLabels(nodeLabels, labels) == nodeLabels \cap labels # {}

HasOS(os) == HostOS \in os

\* A command the goroutine does not skip (labels and OS match).
Applicable(c) == CompareLabels(NodeLabels, Commands[c].labels) /\ HasOS(Commands[c].os)

\* The servers added by addVIPManager for one role: none or one VIP manager.
AddVIPManager(role) ==
    IF role \in NodeLabels /\ VIPConfigured[role] THEN <<role>> ELSE <<>>

VARIABLES
    pc,             \* the main goroutine's position in Run
    extractFailed,  \* an embedded file could not be written
    servers,        \* servers.servers, in insertion (= start) order
    buildIdx,       \* index of the next ServerConfig examined
    startIdx,       \* servers[1..startIdx-1] have been started
    stopIdx,        \* servers[1..stopIdx-1] have been stopped
    childrenKilled, \* KillProcessChildren has been called
    stop,           \* servers.stop
    cpc,            \* the command goroutine's position
    cmdIdx,         \* index of the command being processed
    retries,        \* runCommand's retry counter
    cmdErr,         \* runCommand's error variable is not nil
    attempts,       \* history: RunCommand calls per command
    succeeded,      \* history: commands whose RunCommand returned nil
    lateAttempts,   \* history: RunCommand calls made while stop was TRUE
    progress,       \* utils.IncreaseProgressStep calls made by Run
    children,       \* descendants of the process still alive during the kill
    killClock       \* seconds KillProcessChildren has waited

killVars == <<children, killClock>>
mainVars == <<pc, extractFailed, servers, buildIdx, startIdx, stopIdx, childrenKilled, stop,
              killVars>>
cmdVars == <<cpc, cmdIdx, retries, cmdErr, attempts, succeeded, lateAttempts>>
vars == <<mainVars, cmdVars, progress>>

\* Run has returned (normally or with an error) or log.Fatal ended the process.
Terminated == pc \in {"returned", "failed", "exited"}

\* The command goroutine exists and the process is still alive.
Alive == pc \in {"wait", "stopping", "killing"}

Started == {servers[i] : i \in 1 .. startIdx - 1}
Stopped == {servers[i] : i \in 1 .. stopIdx - 1}

TypeOK ==
    /\ pc \in {"extract", "build", "start", "wait", "stopping", "killing",
               "returned", "failed", "exited"}
    /\ extractFailed \in BOOLEAN
    /\ servers \in Seq(ServerIds)
    /\ buildIdx \in 1 .. Len(ServerConfigs) + 1
    /\ startIdx \in 1 .. Len(servers) + 1
    /\ stopIdx \in 1 .. Len(servers) + 1
    /\ childrenKilled \in BOOLEAN
    /\ stop \in BOOLEAN
    /\ cpc \in {"off", "loop", "retry", "exec", "finished", "fatal"}
    /\ cmdIdx \in 1 .. Len(Commands) + 1
    /\ retries \in Nat
    /\ cmdErr \in BOOLEAN
    /\ attempts \in [CmdIds -> Nat]
    /\ succeeded \subseteq CmdIds
    /\ lateAttempts \in Nat
    /\ progress \in Nat
    /\ children \in 0 .. MaxChildren
    /\ killClock \in 0 .. KillTimeout

Init ==
    /\ pc = "extract"
    /\ extractFailed = FALSE
    /\ servers = <<>>
    /\ buildIdx = 1
    /\ startIdx = 1
    /\ stopIdx = 1
    /\ childrenKilled = FALSE
    /\ stop = FALSE
    /\ cpc = "off"
    /\ cmdIdx = 1
    /\ retries = 0
    /\ cmdErr = FALSE
    /\ attempts = [c \in CmdIds |-> 0]
    /\ succeeded = {}
    /\ lateAttempts = 0
    /\ progress = 0
    /\ children = 0
    /\ killClock = 0

-----------------------------------------------------------------------------
(***************************************************************************)
(* Plausible bugs of the code below, each checked to break a property.     *)
(***************************************************************************)

\* The stop loop without its bound.
StopServerNoBound ==
    /\ pc = "stopping"
    /\ stopIdx' = stopIdx + 1
    /\ UNCHANGED <<pc, extractFailed, servers, buildIdx, startIdx, childrenKilled, stop>>
    /\ UNCHANGED <<cmdVars, progress, killVars>>

\* The stop loop that never advances past a server.
StopServerStuck ==
    /\ pc = "stopping"
    /\ stopIdx <= Len(servers)
    /\ UNCHANGED <<stopIdx, pc, extractFailed, servers, buildIdx, startIdx, childrenKilled, stop>>
    /\ UNCHANGED <<cmdVars, progress, killVars>>

\* A process-tree kill that waits for the descendants and never sends SIGKILL.
KillReturnNoForce ==
    /\ pc = "killing"
    /\ children = 0
    /\ children' = 0
    /\ childrenKilled' = TRUE
    /\ pc' = "returned"
    /\ UNCHANGED <<extractFailed, servers, buildIdx, startIdx, stopIdx, stop, killClock>>
    /\ UNCHANGED <<cmdVars, progress>>

\* The command goroutine launched before the start loop has finished.
LaunchCommandsEarly ==
    /\ pc = "start"
    /\ pc' = "wait"
    /\ cpc' = "loop"
    /\ UNCHANGED <<extractFailed, servers, buildIdx, startIdx, stopIdx, childrenKilled, stop>>
    /\ UNCHANGED <<cmdIdx, retries, cmdErr, attempts, succeeded, lateAttempts, progress>>
    /\ UNCHANGED killVars

\* runCommand's retry loop without the servers.stop check.
RetryCheckNoStop ==
    /\ cpc = "retry"
    /\ Alive
    /\ \/ /\ retries < CommandRetries
          /\ cpc' = "exec"
          /\ UNCHANGED <<pc, cmdIdx, progress>>
       \/ /\ retries >= CommandRetries
          /\ cmdErr
          /\ pc' = "exited"
          /\ cpc' = "fatal"
          /\ UNCHANGED <<cmdIdx, progress>>
       \/ /\ retries >= CommandRetries
          /\ ~cmdErr
          /\ cpc' = "loop"
          /\ cmdIdx' = cmdIdx + 1
          /\ progress' = progress + 1
          /\ UNCHANGED pc
    /\ UNCHANGED <<extractFailed, servers, buildIdx, startIdx, stopIdx, childrenKilled, stop,
                   killVars>>
    /\ UNCHANGED <<retries, cmdErr, attempts, succeeded, lateAttempts>>

\* A failed command that is logged and skipped instead of ending the process.
RetryCheckNoFatal ==
    /\ cpc = "retry"
    /\ Alive
    /\ \/ /\ retries < CommandRetries
          /\ ~stop
          /\ cpc' = "exec"
          /\ UNCHANGED <<pc, cmdIdx, progress>>
       \/ /\ retries >= CommandRetries \/ stop
          /\ cpc' = "loop"
          /\ cmdIdx' = cmdIdx + 1
          /\ progress' = progress + 1
          /\ UNCHANGED pc
    /\ UNCHANGED <<extractFailed, servers, buildIdx, startIdx, stopIdx, childrenKilled, stop,
                   killVars>>
    /\ UNCHANGED <<retries, cmdErr, attempts, succeeded, lateAttempts>>

\* A failed RunCommand that does not count the retry.
RunCommandNoCount ==
    /\ cpc = "exec"
    /\ Alive
    /\ attempts' = [attempts EXCEPT ![cmdIdx] = @ + 1]
    /\ lateAttempts' = IF stop THEN lateAttempts + 1 ELSE lateAttempts
    /\ \/ /\ cmdErr' = FALSE
          /\ succeeded' = succeeded \cup {cmdIdx}
          /\ cmdIdx' = cmdIdx + 1
          /\ cpc' = "loop"
          /\ progress' = progress + 1
          /\ UNCHANGED retries
       \/ /\ cmdErr' = TRUE
          /\ cpc' = "retry"
          /\ UNCHANGED <<succeeded, cmdIdx, retries, progress>>
    /\ UNCHANGED mainVars

-----------------------------------------------------------------------------
(***************************************************************************)
(* The main goroutine: Servers.Run.                                        *)
(***************************************************************************)

\* extractEmbeddedFiles: writing a file may fail, but the error returned by
\* the callback is dropped and the function returns nil, so Run goes on.
ExtractEmbeddedFiles ==
    /\ pc = "extract"
    /\ extractFailed' \in BOOLEAN
    /\ pc' = "build"
    /\ UNCHANGED <<servers, buildIdx, startIdx, stopIdx, childrenKilled, stop>>
    /\ UNCHANGED <<cmdVars, progress, killVars>>

\* One iteration of the loop over Config.Servers: skip a disabled or
\* non-matching config, else wrap it (NewServerWrapper may fail, and Run
\* returns the error) and add it.
BuildServer ==
    /\ pc = "build"
    /\ buildIdx <= Len(ServerConfigs)
    /\ LET cfg == ServerConfigs[buildIdx] IN
       \/ /\ ~(cfg.enabled /\ CompareLabels(NodeLabels, cfg.labels))
          /\ buildIdx' = buildIdx + 1
          /\ UNCHANGED <<pc, servers>>
       \/ /\ cfg.enabled /\ CompareLabels(NodeLabels, cfg.labels)
          /\ servers' = Append(servers, buildIdx)
          /\ buildIdx' = buildIdx + 1
          /\ UNCHANGED pc
       \/ /\ cfg.enabled /\ CompareLabels(NodeLabels, cfg.labels)
          /\ pc' = "failed"
          /\ UNCHANGED <<servers, buildIdx>>
    /\ UNCHANGED <<extractFailed, startIdx, stopIdx, childrenKilled, stop>>
    /\ UNCHANGED <<cmdVars, progress, killVars>>

\* The two addVIPManager calls, controller first, then worker.
AddVIPManagers ==
    /\ pc = "build"
    /\ buildIdx > Len(ServerConfigs)
    /\ servers' = servers \o AddVIPManager(Controller) \o AddVIPManager(Worker)
    /\ pc' = "start"
    /\ UNCHANGED <<extractFailed, buildIdx, startIdx, stopIdx, childrenKilled, stop>>
    /\ UNCHANGED <<cmdVars, progress, killVars>>

\* One iteration of the start loop: server.Start() succeeds, or it fails and
\* Run returns the error before the teardown is deferred.
StartServer ==
    /\ pc = "start"
    /\ startIdx <= Len(servers)
    /\ \/ /\ startIdx' = startIdx + 1
          /\ progress' = progress + 1
          /\ UNCHANGED pc
       \/ /\ pc' = "failed"
          /\ UNCHANGED <<startIdx, progress>>
    /\ UNCHANGED <<extractFailed, servers, buildIdx, stopIdx, childrenKilled, stop>>
    /\ UNCHANGED <<cmdVars, killVars>>

\* All servers started: the teardown is deferred, the command goroutine is
\* launched and the signal handler registered.
LaunchCommands ==
    /\ pc = "start"
    /\ startIdx > Len(servers)
    /\ pc' = "wait"
    /\ cpc' = "loop"
    /\ UNCHANGED <<extractFailed, servers, buildIdx, startIdx, stopIdx, childrenKilled, stop>>
    /\ UNCHANGED <<cmdIdx, retries, cmdErr, attempts, succeeded, lateAttempts, progress>>
    /\ UNCHANGED killVars

\* SIGINT or SIGTERM arrives: Run sets servers.stop and returns.
Signal ==
    /\ pc = "wait"
    /\ pc' = "stopping"
    /\ stop' = TRUE
    /\ UNCHANGED <<extractFailed, servers, buildIdx, startIdx, stopIdx, childrenKilled>>
    /\ UNCHANGED <<cmdVars, progress, killVars>>

\* One iteration of the deferred stop loop (Stop has no error result).
StopServer ==
    /\ pc = "stopping"
    /\ stopIdx <= Len(servers)
    /\ stopIdx' = stopIdx + 1
    /\ UNCHANGED <<pc, extractFailed, servers, buildIdx, startIdx, childrenKilled, stop>>
    /\ UNCHANGED <<cmdVars, progress, killVars>>

(***************************************************************************)
(* utils.KillProcessChildren(pid, killTimeout) (not under src/; spec 5 and *)
(* 6): the descendants left after the stop loop are sent SIGTERM, waited   *)
(* for a second at a time up to killTimeout seconds, and the ones still    *)
(* alive are then killed; Run then returns nil.                            *)
(***************************************************************************)
KillChildren ==
    /\ pc = "stopping"
    /\ stopIdx > Len(servers)
    /\ pc' = "killing"
    /\ children' \in 0 .. MaxChildren
    /\ killClock' = 0
    /\ UNCHANGED <<extractFailed, servers, buildIdx, startIdx, stopIdx, childrenKilled, stop>>
    /\ UNCHANGED <<cmdVars, progress>>

\* A second passes with descendants still alive.
KillWait ==
    /\ pc = "killing"
    /\ children > 0
    /\ killClock < KillTimeout
    /\ killClock' = killClock + 1
    /\ UNCHANGED <<pc, extractFailed, servers, buildIdx, startIdx, stopIdx, childrenKilled,
                   stop, children>>
    /\ UNCHANGED <<cmdVars, progress>>

\* No descendant is left, or the timeout is up and the rest get SIGKILL.
KillReturn ==
    /\ pc = "killing"
    /\ children = 0 \/ killClock >= KillTimeout
    /\ children' = 0
    /\ childrenKilled' = TRUE
    /\ pc' = "returned"
    /\ UNCHANGED <<extractFailed, servers, buildIdx, startIdx, stopIdx, stop, killClock>>
    /\ UNCHANGED <<cmdVars, progress>>

\* A descendant honours SIGTERM and exits; one may also never do so.
ChildExit ==
    /\ pc = "killing"
    /\ children > 0
    /\ children' = children - 1
    /\ UNCHANGED <<pc, extractFailed, servers, buildIdx, startIdx, stopIdx, childrenKilled,
                   stop, killClock>>
    /\ UNCHANGED <<cmdVars, progress>>

-----------------------------------------------------------------------------
(***************************************************************************)
(* The command goroutine and runCommand.                                   *)
(***************************************************************************)

\* One iteration of the loop over Config.Commands: skip a command whose
\* labels or OS do not match; else ApplyTemplate, whose error makes
\* runCommand fail and the goroutine call log.Fatal; else enter the retry
\* loop with error = nil.
NextCommand ==
    /\ cpc = "loop"
    /\ Alive
    /\ cmdIdx <= Len(Commands)
    /\ \/ /\ ~Applicable(cmdIdx)
          /\ cmdIdx' = cmdIdx + 1
          /\ progress' = progress + 1
          /\ UNCHANGED <<pc, cpc, retries, cmdErr>>
       \/ /\ Applicable(cmdIdx)
          /\ pc' = "exited"
          /\ cpc' = "fatal"
          /\ UNCHANGED <<cmdIdx, retries, cmdErr, progress>>
       \/ /\ Applicable(cmdIdx)
          /\ cpc' = "retry"
          /\ retries' = 0
          /\ cmdErr' = FALSE
          /\ UNCHANGED <<pc, cmdIdx, progress>>
    /\ UNCHANGED <<extractFailed, servers, buildIdx, startIdx, stopIdx, childrenKilled, stop,
                   killVars>>
    /\ UNCHANGED <<attempts, succeeded, lateAttempts>>

\* The loop is over: "Cluster setup finished", HideProgress.
SetupFinished ==
    /\ cpc = "loop"
    /\ Alive
    /\ cmdIdx > Len(Commands)
    /\ cpc' = "finished"
    /\ UNCHANGED mainVars
    /\ UNCHANGED <<cmdIdx, retries, cmdErr, attempts, succeeded, lateAttempts, progress>>

\* The head of runCommand's retry loop: go on while retries < commandRetries
\* and stop is not set; else leave the loop and return the error variable:
\* log.Fatal if it is set, the next command if it is nil.
RetryCheck ==
    /\ cpc = "retry"
    /\ Alive
    /\ \/ /\ retries < CommandRetries
          /\ ~stop
          /\ cpc' = "exec"
          /\ UNCHANGED <<pc, cmdIdx, progress>>
       \/ /\ retries >= CommandRetries \/ stop
          /\ cmdErr
          /\ pc' = "exited"
          /\ cpc' = "fatal"
          /\ UNCHANGED <<cmdIdx, progress>>
       \/ /\ retries >= CommandRetries \/ stop
          /\ ~cmdErr
          /\ cpc' = "loop"
          /\ cmdIdx' = cmdIdx + 1
          /\ progress' = progress + 1
          /\ UNCHANGED pc
    /\ UNCHANGED <<extractFailed, servers, buildIdx, startIdx, stopIdx, childrenKilled, stop,
                   killVars>>
    /\ UNCHANGED <<retries, cmdErr, attempts, succeeded, lateAttempts>>

\* utils.RunCommand: success breaks out of the retry loop and runCommand
\* returns nil; failure sleeps a second and increments retries.
RunCommand ==
    /\ cpc = "exec"
    /\ Alive
    /\ attempts' = [attempts EXCEPT ![cmdIdx] = @ + 1]
    /\ lateAttempts' = IF stop THEN lateAttempts + 1 ELSE lateAttempts
    /\ \/ /\ cmdErr' = FALSE
          /\ succeeded' = succeeded \cup {cmdIdx}
          /\ cmdIdx' = cmdIdx + 1
          /\ cpc' = "loop"
          /\ progress' = progress + 1
          /\ UNCHANGED retries
       \/ /\ cmdErr' = TRUE
          /\ retries' = retries + 1
          /\ cpc' = "retry"
          /\ UNCHANGED <<succeeded, cmdIdx, progress>>
    /\ UNCHANGED mainVars

-----------------------------------------------------------------------------
MainStep ==
    \/ ExtractEmbeddedFiles \/ BuildServer \/ AddVIPManagers \/ StartServer
    \/ LaunchCommands \/ StopServer \/ KillChildren \/ KillWait \/ KillReturn

CommandStep == NextCommand \/ SetupFinished \/ RetryCheck \/ RunCommand

Next == MainStep \/ Signal \/ ChildExit \/ CommandStep

\* The Go scheduler runs both goroutines; the signal may never come, and a
\* child may ignore SIGTERM.
Spec == Init /\ [][Next]_vars /\ WF_vars(MainStep) /\ WF_vars(CommandStep)

-----------------------------------------------------------------------------
(***************************************************************************)
(* Properties.                                                             *)
(***************************************************************************)

(* Once the stop flag is set, runCommand makes at most one more call of     *)
(* utils.RunCommand: the one whose retry-loop check passed just before the  *)
(* signal handler set servers.stop (the flag is polled, not pushed).        *)
AttemptsAfterStopBounded == lateAttempts <= 1

(* runCommand calls utils.RunCommand at most commandRetries times per       *)
(* command, and a command that makes the goroutine call log.Fatal without   *)
(* a shutdown having cut its retry loop short was tried exactly             *)
(* commandRetries times.                                                    *)
RetryBudget ==
    /\ \A c \in CmdIds : attempts[c] <= CommandRetries
    /\ (cpc = "fatal" /\ cmdErr /\ ~stop) => attempts[cmdIdx] = CommandRetries

(* The command goroutine runs a command only when it applies to this node,  *)
(* and only after every earlier applicable command has succeeded (later     *)
(* commands depend on earlier ones, e.g. cluster init before join).         *)
SequentialDependency ==
    \A c \in CmdIds :
        attempts[c] > 0 =>
            /\ Applicable(c)
            /\ \A d \in 1 .. c - 1 : Applicable(d) => d \in succeeded

(* Spec 4.4 and 8: Steps() = servers + commands + 1 is the total of the     *)
(* progress bar, and Run counts a step per server started and per command  *)
(* processed, so the count never passes the total.                         *)
Steps == Len(ServerConfigs) + Len(Commands) + 1

ProgressWithinSteps == progress <= Steps

(* After SIGINT/SIGTERM the process eventually ends: Run's deferred         *)
(* teardown finishes, or the command goroutine's log.Fatal ends it first.   *)
ShutdownTerminates == stop ~> Terminated

(* Spec 4.4 step 3: when a server's Start fails, the servers started before *)
(* it must still be stopped by the deferred shutdown.                       *)
StartFailureCleanup == pc = "failed" => Started \subseteq Stopped

(* Spec 4.1 and 7: after a shutdown signal the process ends only when every *)
(* started server has been stopped and the child processes killed (the     *)
(* stop flag exists so that a command does not hold up the teardown).       *)
TeardownCompletes == (Terminated /\ stop) => (Started \subseteq Stopped /\ childrenKilled)

(* Spec 4.4 step 1 and 8: a failure to extract the embedded host binaries   *)
(* makes Run return an error before any server is started.                  *)
ExtractionFailureStopsRun == extractFailed => Started = {}

(* "Cluster setup finished" is logged only when every command that applies *)
(* to this node has run successfully.                                       *)
SetupFinishedMeansAllRan ==
    cpc = "finished" => \A c \in CmdIds : Applicable(c) => c \in succeeded


(* Spec 4.4 step 4 and 7: a command that fails after its retries is fatal, *)
(* so that a corrupt cluster setup does not continue silently; only the     *)
(* stop flag may cut the retry loop short (4.1).  So "Cluster setup         *)
(* finished" with no shutdown signal means that every command that applies  *)
(* to this node has run successfully.                                       *)
SetupFinishedUnlessStopped ==
    (cpc = "finished" /\ ~stop) => \A c \in CmdIds : Applicable(c) => c \in succeeded

(* The same with at least one attempt allowed per command: runCommand then  *)
(* leaves the retry loop with a nil error without a successful attempt only *)
(* when servers.stop is set (compare SetupFinishedMeansAllRan).             *)
SetupFinishedWithoutSignal == CommandRetries > 0 => SetupFinishedUnlessStopped

(***************************************************************************)
(* The refinement mapping onto the abstract lifecycle (ServersLifecycle):  *)
(* the extraction, the retry loop, the kill wait and the progress count    *)
(* are hidden; the main goroutine's position gives the stage, the two loop *)
(* indices the number of servers started and stopped, and the command      *)
(* goroutine is working from its launch until it finishes or fails.        *)
(***************************************************************************)
LifeBar ==
    CASE pc \in {"extract", "build"}   -> "init"
      [] pc = "start"                  -> "starting"
      [] pc = "wait"                   -> "running"
      [] pc \in {"stopping", "killing"} -> "stopping"
      [] pc = "returned"               -> "stopped"
      [] OTHER                         -> pc

CmdLifeBar ==
    CASE cpc = "off"                        -> "idle"
      [] cpc \in {"loop", "retry", "exec"}  -> "active"
      [] OTHER                              -> cpc

Life == INSTANCE ServersLifecycle WITH
    MaxServers <- Len(ServerConfigs) + 2,
    NumCommands <- Len(Commands),
    ToRun <- {c \in CmdIds : Applicable(c)},
    Budgeted <- CommandRetries > 0,
    life <- LifeBar,
    started <- startIdx - 1,
    stopped <- stopIdx - 1,
    cmdLife <- CmdLifeBar,
    cmd <- cmdIdx

(* Run implements the lifecycle of spec 4.4: servers start in list order   *)
(* and the commands begin only once all have started; commands are taken   *)
(* in declared order, one that applies being passed over only after the    *)
(* signal or with a zero budget; after the signal the servers stop in list *)
(* order before Run returns; and both goroutines keep going until they end. *)
LifecycleRefinement == Life!Spec

=============================================================================
