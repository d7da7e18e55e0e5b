-------------------------- MODULE DeploymentProofs --------------------------
(***************************************************************************)
(* Proofs about the deployment pipeline (module Deployment) for every      *)
(* value of the constants allowed by DeploymentAssumption.                 *)
(***************************************************************************)
EXTENDS Deployment, TLAPS

LEMMA ConstantFacts ==
    /\ NumNodes \in Nat
    /\ Len(ImageFeatures) \in Nat
    /\ Len(Commands) \in Nat
    /\ CommandRetries \in Nat
  BY DeploymentAssumption

(***************************************************************************)
(* TypeOK is not inductive: CommandAttempt indexes cmdAttempts by cmdIdx   *)
(* and PullTask records <<nodeIdx, i>>, which are a command and a node     *)
(* (not one past the last) only inside runCommand's loop and inside the    *)
(* pull tasks of a node.  The invariant is split into its Boolean flags,   *)
(* which Zenon handles, and the rest, which the SMT solver handles.        *)
(***************************************************************************)
BoolOK ==
    /\ skipSetup \in BOOLEAN
    /\ pullImages \in BOOLEAN
    /\ lastErr \in BOOLEAN
    /\ pullErr \in BOOLEAN

\* The phase, the cursors and the counters.
DataCtl ==
    /\ phase \in {"upload", "taint", "pull", "pulling", "bootstrap",
                  "cmdretry", "done", "failed"}
    /\ nodeIdx \in 1 .. NumNodes + 1
    /\ retries \in Nat
    /\ cmdIdx \in 1 .. Len(Commands) + 1
    /\ progress \in Nat
    /\ phase = "cmdretry" => cmdIdx \in CmdIds
    /\ phase = "pulling" => nodeIdx \in Nodes

\* What has been done to which node, image and command.
DataSets ==
    /\ pending \subseteq ImageIds
    /\ uploaded \subseteq Nodes
    /\ tainted \subseteq Nodes
    /\ pulled \subseteq Nodes \X ImageIds
    /\ taintAttempts \in [Nodes -> Nat]
    /\ cmdAttempts \in [CmdIds -> Nat]
    /\ succeeded \subseteq CmdIds

DataInv == DataCtl /\ DataSets

TypeInv == BoolOK /\ DataInv

LEMMA TypeInvTypeOK == TypeInv => TypeOK
  BY Zenon DEF TypeInv, BoolOK, DataInv, DataCtl, DataSets, TypeOK

LEMMA TypeInvInit == Init => TypeInv
  <1> SUFFICES ASSUME Init PROVE TypeInv
    OBVIOUS
  <1>1. BoolOK
    BY Zenon DEF Init, BoolOK
  <1>2. DataInv
    BY ConstantFacts DEF Init, DataInv, DataCtl, DataSets, Nodes, CmdIds, ImageIds
  <1>3. QED
    BY <1>1, <1>2 DEF TypeInv

\* The flags are constant or set to TRUE, FALSE or a Boolean.
LEMMA BoolNext == BoolOK /\ [Next]_vars => BoolOK'
  <1> SUFFICES ASSUME BoolOK, [Next]_vars PROVE BoolOK'
    OBVIOUS
  <1> USE DEF BoolOK
  <1>1. CASE UploadFiles       BY <1>1, Zenon DEF UploadFiles
  <1>2. CASE Setup             BY <1>2, Zenon DEF Setup
  <1>3. CASE TaintAttempt      BY <1>3, Zenon DEF TaintAttempt
  <1>4. CASE TaintExhausted    BY <1>4, Zenon DEF TaintExhausted
  <1>5. CASE TaintsDone        BY <1>5, Zenon DEF TaintsDone
  <1>6. CASE StartPullTasks    BY <1>6, Zenon DEF StartPullTasks
  <1>7. CASE PullTask          BY <1>7, Zenon DEF PullTask
  <1>8. CASE PullJoin          BY <1>8, Zenon DEF PullJoin
  <1>9. CASE PullsDone         BY <1>9, Zenon DEF PullsDone
  <1>10. CASE NextBootstrapCommand BY <1>10, Zenon DEF NextBootstrapCommand
  <1>11. CASE CommandAttempt   BY <1>11, Zenon DEF CommandAttempt
  <1>12. CASE CommandExhausted BY <1>12, Zenon DEF CommandExhausted
  <1>13. CASE BootstrapDone    BY <1>13, Zenon DEF BootstrapDone
  <1>14. CASE UNCHANGED vars   BY <1>14, Zenon DEF vars
  <1>15. QED
    BY <1>1, <1>2, <1>3, <1>4, <1>5, <1>6, <1>7, <1>8, <1>9, <1>10,
       <1>11, <1>12, <1>13, <1>14 DEF Next
\* The positions stay in range, and a command or node is indexed only in
\* the phases where it exists.
(* The control part needs nothing of the sets: no action sets a cursor  *)
(* or a counter from one.                                                 *)
LEMMA CtlNext == DataCtl /\ [Next]_vars => DataCtl'
  <1> SUFFICES ASSUME DataCtl, [Next]_vars PROVE DataCtl'
    OBVIOUS
  <1> USE ConstantFacts DEF DataCtl, Nodes, CmdIds
  <1>1. CASE UploadFiles          BY <1>1 DEF UploadFiles
  <1>2. CASE Setup                BY <1>2 DEF Setup
  <1>3. CASE TaintAttempt         BY <1>3 DEF TaintAttempt
  <1>4. CASE TaintExhausted       BY <1>4 DEF TaintExhausted
  <1>5. CASE TaintsDone           BY <1>5 DEF TaintsDone
  <1>6. CASE StartPullTasks       BY <1>6 DEF StartPullTasks
  <1>7. CASE PullTask             BY <1>7 DEF PullTask
  <1>8. CASE PullJoin             BY <1>8 DEF PullJoin
  <1>9. CASE PullsDone            BY <1>9 DEF PullsDone
  <1>10. CASE NextBootstrapCommand BY <1>10 DEF NextBootstrapCommand
  <1>11. CASE CommandAttempt      BY <1>11 DEF CommandAttempt
  <1>12. CASE CommandExhausted    BY <1>12 DEF CommandExhausted
  <1>13. CASE BootstrapDone       BY <1>13 DEF BootstrapDone
  <1>14. CASE UNCHANGED vars      BY <1>14 DEF vars
  <1>15. QED
    BY <1>1, <1>2, <1>3, <1>4, <1>5, <1>6, <1>7, <1>8, <1>9, <1>10,
       <1>11, <1>12, <1>13, <1>14 DEF Next

(* The sets change in five actions only; every other step leaves them.    *)
\* Counting one more attempt of x keeps a map of attempt counts.
LEMMA CountUp ==
  ASSUME NEW S, NEW f \in [S -> Nat], NEW x \in S
  PROVE  [f EXCEPT ![x] = @ + 1] \in [S -> Nat]
  OBVIOUS

LEMMA SetsNext == DataCtl /\ DataSets /\ [Next]_vars => DataSets'
  <1> SUFFICES ASSUME DataCtl, DataSets, [Next]_vars PROVE DataSets'
    OBVIOUS
  <1> USE ConstantFacts DEF DataCtl, Nodes, CmdIds, ImageIds
  <1>1. CASE UploadFiles
    <2>1. nodeIdx \in Nodes /\ uploaded' \in {uploaded, uploaded \cup {nodeIdx}}
      BY <1>1 DEF UploadFiles
    <2>2. UNCHANGED <<pending, tainted, pulled, taintAttempts, cmdAttempts, succeeded>>
      BY <1>1 DEF UploadFiles
    <2>3. QED
      BY <2>1, <2>2, Zenon DEF DataSets
  <1>2. CASE TaintAttempt
    <2>1. nodeIdx \in Nodes /\ tainted' \in {tainted, tainted \cup {nodeIdx}}
      BY <1>2 DEF TaintAttempt
    <2>2. taintAttempts' \in [Nodes -> Nat]
      <3>1. taintAttempts \in [Nodes -> Nat]
        BY DEF DataSets
      <3>2. taintAttempts' = [taintAttempts EXCEPT ![nodeIdx] = @ + 1]
        BY <1>2 DEF TaintAttempt
      <3>3. QED
        BY <2>1, <3>1, <3>2, CountUp
    <2>3. UNCHANGED <<pending, uploaded, pulled, cmdAttempts, succeeded>>
      BY <1>2 DEF TaintAttempt
    <2>4. QED
      BY <2>1, <2>2, <2>3, Zenon DEF DataSets
  <1>3. CASE StartPullTasks
    <2>1. pending' = ImageIds
      BY <1>3 DEF StartPullTasks
    <2>2. UNCHANGED <<uploaded, tainted, pulled, taintAttempts, cmdAttempts, succeeded>>
      BY <1>3 DEF StartPullTasks
    <2>3. QED
      BY <2>1, <2>2, Zenon DEF DataSets
  <1>4. CASE PullTask
    <2>1. nodeIdx \in Nodes
      BY <1>4 DEF PullTask
    <2>2. PICK i \in pending : /\ pending' = pending \ {i}
                               /\ pulled' \in {pulled, pulled \cup {<<nodeIdx, i>>}}
      BY <1>4, Zenon DEF PullTask
    <2>3. UNCHANGED <<uploaded, tainted, taintAttempts, cmdAttempts, succeeded>>
      BY <1>4 DEF PullTask
    <2>4. pulled' \subseteq Nodes \X ImageIds /\ pending' \subseteq ImageIds
      <3>1. pulled \subseteq Nodes \X ImageIds /\ pending \subseteq ImageIds
        BY DEF DataSets
      <3>2. QED
        BY <2>1, <2>2, <3>1
    <2>5. QED
      BY <2>3, <2>4, Zenon DEF DataSets
  <1>5. CASE CommandAttempt
    <2>1. cmdIdx \in CmdIds /\ succeeded' \in {succeeded, succeeded \cup {cmdIdx}}
      BY <1>5 DEF CommandAttempt
    <2>2. cmdAttempts' \in [CmdIds -> Nat]
      <3>1. cmdAttempts \in [CmdIds -> Nat]
        BY DEF DataSets
      <3>2. cmdAttempts' = [cmdAttempts EXCEPT ![cmdIdx] = @ + 1]
        BY <1>5 DEF CommandAttempt
      <3>3. QED
        BY <2>1, <3>1, <3>2, CountUp
    <2>3. UNCHANGED <<pending, uploaded, tainted, pulled, taintAttempts>>
      BY <1>5 DEF CommandAttempt
    <2>4. QED
      BY <2>1, <2>2, <2>3, Zenon DEF DataSets
  <1>6. CASE ~UploadFiles /\ ~TaintAttempt /\ ~StartPullTasks /\ ~PullTask /\ ~CommandAttempt
    <2>1. UNCHANGED <<pending, uploaded, tainted, pulled, taintAttempts, cmdAttempts, succeeded>>
      BY <1>6, Zenon DEF Next, vars, Setup, TaintExhausted, TaintsDone, PullJoin, PullsDone,
                         NextBootstrapCommand, CommandExhausted, BootstrapDone
    <2>2. QED
      BY <2>1, Zenon DEF DataSets
  <1>7. QED
    BY <1>1, <1>2, <1>3, <1>4, <1>5, <1>6

LEMMA DataNext == DataInv /\ [Next]_vars => DataInv'
  BY CtlNext, SetsNext DEF DataInv

LEMMA TypeInvNext == TypeInv /\ [Next]_vars => TypeInv'
  BY BoolNext, DataNext DEF TypeInv

(***************************************************************************)
(* DeployRetryBudget is not inductive either: a retry loop's counter       *)
(* `retries' is the attempt count of the node or command it works on, and  *)
(* the nodes and commands the loops have not reached have no attempts.     *)
(***************************************************************************)
\* Node n has not been reached by runConfigureTaints.
TaintUnreached(n) == phase = "upload" \/ (phase = "taint" /\ n > nodeIdx)

TaintCounted ==
    /\ \A n \in Nodes : TaintUnreached(n) => taintAttempts[n] = 0
    /\ phase = "taint" /\ nodeIdx \in Nodes => taintAttempts[nodeIdx] = retries

\* Command c has not been reached by runBoostrapperCommands.
CmdUnreached(c) ==
    \/ phase \in {"upload", "taint", "pull", "pulling"}
    \/ phase = "bootstrap" /\ c >= cmdIdx
    \/ phase = "cmdretry" /\ c > cmdIdx

CmdCounted ==
    /\ \A c \in CmdIds : CmdUnreached(c) => cmdAttempts[c] = 0
    /\ phase = "cmdretry" => cmdAttempts[cmdIdx] = retries

TaintBudget == (\A n \in Nodes : taintAttempts[n] <= CommandRetries) /\ TaintCounted

CmdBudget == (\A c \in CmdIds : cmdAttempts[c] <= CommandRetries) /\ CmdCounted

BudgetInv == TypeInv /\ TaintBudget /\ CmdBudget

\* Outside the taint phases, with the attempt counts of the nodes left
\* alone, the taint budget carries over.
LEMMA TaintFrame ==
    ASSUME TaintBudget, UNCHANGED taintAttempts,
           phase' \notin {"upload", "taint"}
    PROVE  TaintBudget'
  BY DEF TaintBudget, TaintCounted, TaintUnreached

\* configureTaint is called at most commandRetries times per node, and the
\* node runConfigureTaints works on has had exactly `retries' calls.
LEMMA TaintNext == TypeInv /\ TaintBudget /\ [Next]_vars => TaintBudget'
  <1> SUFFICES ASSUME TypeInv, TaintBudget, [Next]_vars PROVE TaintBudget'
    OBVIOUS
  <1> USE ConstantFacts DEF TypeInv, DataInv, DataCtl, DataSets, Nodes, CmdIds, ImageIds
  <1>1. CASE UploadFiles
    <2>1. phase = "upload" /\ phase' \in {"upload", "failed"} /\ UNCHANGED taintAttempts
      BY <1>1, Zenon DEF UploadFiles
    <2>2. QED
      BY <2>1 DEF TaintBudget, TaintCounted, TaintUnreached
  <1>2. CASE Setup
    <2>1. phase = "upload" /\ UNCHANGED taintAttempts
      BY <1>2 DEF Setup
    <2>2. CASE phase' = "done"
      BY <2>1, <2>2, TaintFrame
    <2>3. CASE phase' = "taint" /\ nodeIdx' = 1 /\ retries' = 0
      BY <2>1, <2>3 DEF TaintBudget, TaintCounted, TaintUnreached
    <2>4. QED
      BY <1>2, <2>2, <2>3, Zenon DEF Setup
  <1>3. CASE TaintAttempt
    <2>1. phase = "taint" /\ nodeIdx \in Nodes /\ retries < CommandRetries /\ phase' = phase
      BY <1>3 DEF TaintAttempt
    <2>2. taintAttempts' = [taintAttempts EXCEPT ![nodeIdx] = @ + 1]
      BY <1>3 DEF TaintAttempt
    <2>3. CASE nodeIdx' = nodeIdx + 1 /\ retries' = 0
      BY <2>1, <2>2, <2>3 DEF TaintBudget, TaintCounted, TaintUnreached
    <2>4. CASE retries' = retries + 1 /\ nodeIdx' = nodeIdx
      BY <2>1, <2>2, <2>4 DEF TaintBudget, TaintCounted, TaintUnreached
    <2>5. QED
      BY <1>3, <2>3, <2>4, Zenon DEF TaintAttempt
  <1>4. CASE TaintExhausted
    <2>1. phase = "taint" /\ nodeIdx \in Nodes /\ UNCHANGED taintAttempts
      BY <1>4 DEF TaintExhausted
    <2>2. CASE phase' = "failed"
      BY <2>1, <2>2, TaintFrame
    <2>3. CASE nodeIdx' = nodeIdx + 1 /\ retries' = 0 /\ phase' = phase
      BY <2>1, <2>3 DEF TaintBudget, TaintCounted, TaintUnreached
    <2>4. QED
      BY <1>4, <2>2, <2>3, Zenon DEF TaintExhausted
  <1>5. CASE TaintsDone
    BY <1>5, TaintFrame DEF TaintsDone
  <1>6. CASE StartPullTasks
    BY <1>6, TaintFrame DEF StartPullTasks
  <1>7. CASE PullTask
    <2>1. phase' = phase /\ phase = "pulling" /\ UNCHANGED taintAttempts
      BY <1>7, Zenon DEF PullTask
    <2>2. QED
      BY <2>1, TaintFrame
  <1>8. CASE PullJoin
    <2>1. phase' \in {"failed", "pull"} /\ UNCHANGED taintAttempts
      BY <1>8, Zenon DEF PullJoin
    <2>2. QED
      BY <2>1, TaintFrame
  <1>9. CASE PullsDone
    BY <1>9, TaintFrame DEF PullsDone
  <1>10. CASE NextBootstrapCommand
    <2>1. phase' \in {"bootstrap", "failed", "cmdretry"} /\ UNCHANGED taintAttempts
      BY <1>10, Zenon DEF NextBootstrapCommand
    <2>2. QED
      BY <2>1, TaintFrame
  <1>11. CASE CommandAttempt
    <2>1. phase' \in {"bootstrap", "cmdretry"} /\ UNCHANGED taintAttempts
      BY <1>11, Zenon DEF CommandAttempt
    <2>2. QED
      BY <2>1, TaintFrame
  <1>12. CASE CommandExhausted
    <2>1. phase' \in {"bootstrap", "failed"} /\ UNCHANGED taintAttempts
      BY <1>12, Zenon DEF CommandExhausted
    <2>2. QED
      BY <2>1, TaintFrame
  <1>13. CASE BootstrapDone
    BY <1>13, TaintFrame DEF BootstrapDone
  <1>14. CASE UNCHANGED vars
    BY <1>14 DEF vars, TaintBudget, TaintCounted, TaintUnreached
  <1>15. QED
    BY <1>1, <1>2, <1>3, <1>4, <1>5, <1>6, <1>7, <1>8, <1>9, <1>10,
       <1>11, <1>12, <1>13, <1>14 DEF Next

\* Before the bootstrapper commands, with their attempt counts left alone,
\* the command budget carries over into any phase but the retry loop,
\* provided the commands start from the first.
LEMMA CmdFrame ==
    ASSUME CmdBudget, UNCHANGED cmdAttempts,
           phase \in {"upload", "taint", "pull", "pulling"},
           phase' \in {"upload", "taint", "pull", "pulling", "done", "failed"}
             \/ (phase' = "bootstrap" /\ cmdIdx' = 1)
    PROVE  CmdBudget'
  BY DEF CmdBudget, CmdCounted, CmdUnreached

\* utils.RunCommand is called at most commandRetries times per command,
\* and the command runCommand works on has had exactly `retries' calls.
LEMMA CmdNext == TypeInv /\ CmdBudget /\ [Next]_vars => CmdBudget'
  <1> SUFFICES ASSUME TypeInv, CmdBudget, [Next]_vars PROVE CmdBudget'
    OBVIOUS
  <1> USE ConstantFacts DEF TypeInv, DataInv, DataCtl, DataSets, Nodes, CmdIds, ImageIds
  <1>1. CASE UploadFiles
    <2>1. phase = "upload" /\ phase' \in {"upload", "failed"} /\ UNCHANGED cmdAttempts
      BY <1>1, Zenon DEF UploadFiles
    <2>2. QED
      BY <2>1, CmdFrame
  <1>2. CASE Setup
    <2>1. phase = "upload" /\ phase' \in {"done", "taint"} /\ UNCHANGED cmdAttempts
      BY <1>2, Zenon DEF Setup
    <2>2. QED
      BY <2>1, CmdFrame
  <1>3. CASE TaintAttempt
    BY <1>3, CmdFrame DEF TaintAttempt
  <1>4. CASE TaintExhausted
    <2>1. phase = "taint" /\ phase' \in {"taint", "failed"} /\ UNCHANGED cmdAttempts
      BY <1>4, Zenon DEF TaintExhausted
    <2>2. QED
      BY <2>1, CmdFrame
  <1>5. CASE TaintsDone
    <2>1. phase = "taint" /\ UNCHANGED cmdAttempts
          /\ (phase' = "pull" \/ (phase' = "bootstrap" /\ cmdIdx' = 1))
      BY <1>5, Zenon DEF TaintsDone
    <2>2. QED
      BY <2>1, CmdFrame
  <1>6. CASE StartPullTasks
    BY <1>6, CmdFrame DEF StartPullTasks
  <1>7. CASE PullTask
    <2>1. phase' = phase /\ phase = "pulling" /\ UNCHANGED cmdAttempts
      BY <1>7, Zenon DEF PullTask
    <2>2. QED
      BY <2>1, CmdFrame
  <1>8. CASE PullJoin
    <2>1. phase = "pulling" /\ phase' \in {"failed", "pull"} /\ UNCHANGED cmdAttempts
      BY <1>8, Zenon DEF PullJoin
    <2>2. QED
      BY <2>1, CmdFrame
  <1>9. CASE PullsDone
    BY <1>9, CmdFrame DEF PullsDone
  <1>10. CASE NextBootstrapCommand
    <2>1. phase = "bootstrap" /\ cmdIdx \in CmdIds /\ UNCHANGED cmdAttempts
      BY <1>10 DEF NextBootstrapCommand
    <2>2. CASE cmdIdx' = cmdIdx + 1 /\ UNCHANGED phase
      BY <2>1, <2>2 DEF CmdBudget, CmdCounted, CmdUnreached
    <2>3. CASE phase' = "failed"
      BY <2>1, <2>3 DEF CmdBudget, CmdCounted, CmdUnreached
    <2>4. CASE phase' = "cmdretry" /\ retries' = 0 /\ UNCHANGED cmdIdx
      BY <2>1, <2>4 DEF CmdBudget, CmdCounted, CmdUnreached
    <2>5. QED
      BY <1>10, <2>2, <2>3, <2>4, Zenon DEF NextBootstrapCommand
  <1>11. CASE CommandAttempt
    <2>1. phase = "cmdretry" /\ cmdIdx \in CmdIds /\ retries < CommandRetries
      BY <1>11 DEF CommandAttempt
    <2>2. cmdAttempts' = [cmdAttempts EXCEPT ![cmdIdx] = @ + 1]
      BY <1>11 DEF CommandAttempt
    <2>3. CASE phase' = "bootstrap" /\ cmdIdx' = cmdIdx + 1
      BY <2>1, <2>2, <2>3 DEF CmdBudget, CmdCounted, CmdUnreached
    <2>4. CASE retries' = retries + 1 /\ UNCHANGED <<phase, cmdIdx>>
      BY <2>1, <2>2, <2>4 DEF CmdBudget, CmdCounted, CmdUnreached
    <2>5. QED
      BY <1>11, <2>3, <2>4, Zenon DEF CommandAttempt
  <1>12. CASE CommandExhausted
    <2>1. phase = "cmdretry" /\ cmdIdx \in CmdIds /\ UNCHANGED cmdAttempts
      BY <1>12 DEF CommandExhausted
    <2>2. CASE phase' = "failed"
      BY <2>1, <2>2 DEF CmdBudget, CmdCounted, CmdUnreached
    <2>3. CASE phase' = "bootstrap" /\ cmdIdx' = cmdIdx + 1
      BY <2>1, <2>3 DEF CmdBudget, CmdCounted, CmdUnreached
    <2>4. QED
      BY <1>12, <2>2, <2>3, Zenon DEF CommandExhausted
  <1>13. CASE BootstrapDone
    <2>1. phase' = "done" /\ UNCHANGED cmdAttempts
      BY <1>13 DEF BootstrapDone
    <2>2. QED
      BY <2>1 DEF CmdBudget, CmdCounted, CmdUnreached
  <1>14. CASE UNCHANGED vars
    BY <1>14 DEF vars, CmdBudget, CmdCounted, CmdUnreached
  <1>15. QED
    BY <1>1, <1>2, <1>3, <1>4, <1>5, <1>6, <1>7, <1>8, <1>9, <1>10,
       <1>11, <1>12, <1>13, <1>14 DEF Next

(***************************************************************************)
(* The refinement onto DeployPipeline needs three more facts.  A retry     *)
(* loop's error variable is set exactly when an attempt of the current     *)
(* node or command has failed, so that with a budget of at least one the   *)
(* loop never gives up with a nil error (which the abstract pipeline has   *)
(* no step for).  runCommand only runs bootstrapper commands.  And the     *)
(* pulls recorded for the current node are of images to pull, all of them  *)
(* once its tasks are joined without error, none for later nodes.          *)
(***************************************************************************)
ToPullSet == {i \in ImageIds : ~ImageSkipped(i)}

ErrTracksRetries ==
    /\ phase = "upload" => ~lastErr
    /\ phase \in {"taint", "cmdretry"} => (lastErr <=> retries > 0)

PullsOfNode ==
    /\ phase \in {"upload", "taint"} => pulled = {}
    /\ phase = "pull" => \A p \in pulled : p[1] < nodeIdx
    /\ phase = "pulling" =>
         /\ \A p \in pulled : p[1] < nodeIdx \/ (p[1] = nodeIdx /\ p[2] \in ToPullSet)
         /\ ~pullErr => \A i \in ToPullSet \ pending : <<nodeIdx, i>> \in pulled

RefInv ==
    /\ TypeInv
    /\ ErrTracksRetries
    /\ phase = "cmdretry" => BootstrapCommand(cmdIdx)
    /\ PullsOfNode

\* The error variable of runConfigureTaints and of runCommand is set by a
\* failed attempt and cleared by a successful one or a new command.
LEMMA ErrNext == TypeInv /\ ErrTracksRetries /\ [Next]_vars => ErrTracksRetries'
  <1> SUFFICES ASSUME TypeInv, ErrTracksRetries, [Next]_vars PROVE ErrTracksRetries'
    OBVIOUS
  <1> USE DEF TypeInv, DataInv, DataCtl, DataSets, BoolOK
  \* Phases outside the two loops, and steps that leave the pair alone.
  <1>0. ASSUME phase' \notin {"upload", "taint", "cmdretry"} PROVE ErrTracksRetries'
    BY <1>0 DEF ErrTracksRetries
  <1>a. ASSUME UNCHANGED <<lastErr, retries, phase>> PROVE ErrTracksRetries'
    BY <1>a DEF ErrTracksRetries
  \* A fresh loop: no attempt yet, error nil.
  <1>b. ASSUME retries' = 0, lastErr' = FALSE PROVE ErrTracksRetries'
    <2>1. ~(retries' > 0)
      BY <1>b
    <2>2. QED
      BY <1>b, <2>1, Zenon DEF ErrTracksRetries
  \* A failed attempt.
  <1>c. ASSUME retries \in Nat, retries' = retries + 1, lastErr' = TRUE, phase' # "upload"
        PROVE  ErrTracksRetries'
    <2>1. retries' > 0
      BY <1>c
    <2>2. QED
      BY <1>c, <2>1, Zenon DEF ErrTracksRetries
  <1>1. CASE UploadFiles
    BY <1>1, <1>a, <1>0, Zenon DEF UploadFiles
  <1>2. CASE Setup
    <2>1. phase = "upload" /\ UNCHANGED lastErr
      BY <1>2 DEF Setup
    <2>2. ~lastErr
      BY <2>1 DEF ErrTracksRetries
    <2>3. QED
      BY <1>2, <2>1, <2>2, <1>0, <1>b, Zenon DEF Setup
  <1>3. CASE TaintAttempt
    BY <1>3, <1>b, <1>c, Zenon DEF TaintAttempt
  <1>4. CASE TaintExhausted
    <2>1. phase = "taint" /\ UNCHANGED lastErr
      BY <1>4 DEF TaintExhausted
    <2>2. CASE phase' = "failed"
      BY <2>2, <1>0
    <2>3. CASE ~lastErr /\ retries' = 0
      BY <2>1, <2>3, <1>b, Zenon
    <2>4. QED
      BY <1>4, <2>2, <2>3, Zenon DEF TaintExhausted
  <1>5. CASE TaintsDone
    BY <1>5, <1>0, Zenon DEF TaintsDone
  <1>6. CASE StartPullTasks
    BY <1>6, <1>0 DEF StartPullTasks
  <1>7. CASE PullTask
    <2>1. phase' = "pulling"
      BY <1>7 DEF PullTask
    <2>2. QED
      BY <2>1, <1>0
  <1>8. CASE PullJoin
    BY <1>8, <1>0, Zenon DEF PullJoin
  <1>9. CASE PullsDone
    BY <1>9, <1>0 DEF PullsDone
  <1>10. CASE NextBootstrapCommand
    BY <1>10, <1>0, <1>b, Zenon DEF NextBootstrapCommand
  <1>11. CASE CommandAttempt
    BY <1>11, <1>0, <1>c, Zenon DEF CommandAttempt
  <1>12. CASE CommandExhausted
    BY <1>12, <1>0, Zenon DEF CommandExhausted
  <1>13. CASE BootstrapDone
    BY <1>13, <1>0 DEF BootstrapDone
  <1>14. CASE UNCHANGED vars
    BY <1>14 DEF vars, ErrTracksRetries
  <1>15. QED
    BY <1>1, <1>2, <1>3, <1>4, <1>5, <1>6, <1>7, <1>8, <1>9, <1>10,
       <1>11, <1>12, <1>13, <1>14 DEF Next

\* runCommand is entered only for a bootstrapper command without a skipped
\* feature, and leaves it only by moving on.
LEMMA BootCmdNext ==
    TypeInv /\ (phase = "cmdretry" => BootstrapCommand(cmdIdx)) /\ [Next]_vars
      => (phase = "cmdretry" => BootstrapCommand(cmdIdx))'
  <1> SUFFICES ASSUME TypeInv, phase = "cmdretry" => BootstrapCommand(cmdIdx), [Next]_vars,
                      phase' = "cmdretry"
               PROVE  BootstrapCommand(cmdIdx)'
    OBVIOUS
  <1>1. /\ cmdIdx' = cmdIdx
        /\ \/ phase = "cmdretry"
           \/ phase = "bootstrap" /\ BootstrapCommand(cmdIdx)
    BY Zenon DEF Next, vars, UploadFiles, Setup, TaintAttempt, TaintExhausted, TaintsDone,
                 StartPullTasks, PullTask, PullJoin, PullsDone, NextBootstrapCommand,
                 CommandAttempt, CommandExhausted, BootstrapDone
  <1>2. QED
    BY <1>1 DEF BootstrapCommand

\* The pull tasks of a node record only images to pull, for that node; when
\* none has failed, every image to pull whose task has finished is recorded.
LEMMA PullsNext == TypeInv /\ PullsOfNode /\ [Next]_vars => PullsOfNode'
  <1> SUFFICES ASSUME TypeInv, PullsOfNode, [Next]_vars PROVE PullsOfNode'
    OBVIOUS
  <1> USE ConstantFacts DEF TypeInv, DataInv, DataCtl, DataSets, BoolOK, Nodes, ImageIds
  <1>0. ASSUME phase' \notin {"upload", "taint", "pull", "pulling"} PROVE PullsOfNode'
    BY <1>0 DEF PullsOfNode
  \* Before the pulls nothing is recorded.
  <1>u. ASSUME phase \in {"upload", "taint"}, UNCHANGED pulled,
               phase' \in {"upload", "taint", "pull", "bootstrap", "done", "failed"}
        PROVE  PullsOfNode'
    BY <1>u DEF PullsOfNode
  <1>1. CASE UploadFiles
    <2>1. phase = "upload" /\ phase' \in {"upload", "failed"} /\ UNCHANGED pulled
      BY <1>1, Zenon DEF UploadFiles
    <2>2. QED
      BY <2>1, <1>u
  <1>2. CASE Setup
    <2>1. phase = "upload" /\ phase' \in {"done", "taint"} /\ UNCHANGED pulled
      BY <1>2, Zenon DEF Setup
    <2>2. QED
      BY <2>1, <1>u
  <1>3. CASE TaintAttempt
    BY <1>3, <1>u DEF TaintAttempt
  <1>4. CASE TaintExhausted
    <2>1. phase = "taint" /\ phase' \in {"taint", "failed"} /\ UNCHANGED pulled
      BY <1>4, Zenon DEF TaintExhausted
    <2>2. QED
      BY <2>1, <1>u
  <1>5. CASE TaintsDone
    <2>1. phase = "taint" /\ phase' \in {"pull", "bootstrap"} /\ UNCHANGED pulled
      BY <1>5, Zenon DEF TaintsDone
    <2>2. QED
      BY <2>1, <1>u
  <1>6. CASE StartPullTasks
    <2>1. phase = "pull" /\ phase' = "pulling" /\ pending' = ImageIds
          /\ UNCHANGED <<pulled, nodeIdx>>
      BY <1>6 DEF StartPullTasks
    <2>2. ToPullSet \ pending' = {}
      BY <2>1 DEF ToPullSet
    <2>3. QED
      BY <2>1, <2>2 DEF PullsOfNode
  <1>7. CASE PullTask
    <2>1. phase = "pulling" /\ UNCHANGED <<phase, nodeIdx>>
      BY <1>7 DEF PullTask
    <2>2. PICK i \in pending :
            /\ pending' = pending \ {i}
            /\ \/ ImageSkipped(i) /\ UNCHANGED <<pulled, pullErr>>
               \/ ~ImageSkipped(i) /\ pulled' = pulled \cup {<<nodeIdx, i>>} /\ UNCHANGED pullErr
               \/ ~ImageSkipped(i) /\ pullErr' = TRUE /\ UNCHANGED pulled
      BY <1>7 DEF PullTask
    <2>3. CASE ImageSkipped(i) /\ UNCHANGED <<pulled, pullErr>>
      <3>1. ToPullSet \ pending' = ToPullSet \ pending
        BY <2>2, <2>3 DEF ToPullSet
      <3>2. QED
        BY <2>1, <2>3, <3>1, Zenon DEF PullsOfNode
    <2>4. CASE ~ImageSkipped(i) /\ pulled' = pulled \cup {<<nodeIdx, i>>} /\ UNCHANGED pullErr
      <3>1. i \in ToPullSet /\ ToPullSet \ pending' = (ToPullSet \ pending) \cup {i}
        BY <2>2, <2>4 DEF ToPullSet
      <3>2. \A p \in pulled' : p[1] < nodeIdx' \/ (p[1] = nodeIdx' /\ p[2] \in ToPullSet)
        BY <2>1, <2>4, <3>1 DEF PullsOfNode
      <3>3. ~pullErr' => \A j \in ToPullSet \ pending' : <<nodeIdx', j>> \in pulled'
        BY <2>1, <2>4, <3>1 DEF PullsOfNode
      <3>4. QED
        BY <2>1, <3>2, <3>3 DEF PullsOfNode
    <2>5. CASE ~ImageSkipped(i) /\ pullErr' = TRUE /\ UNCHANGED pulled
      <3>1. ~(~pullErr')
        BY <2>5, Zenon
      <3>2. QED
        BY <2>1, <2>5, <3>1 DEF PullsOfNode
    <2>6. QED
      BY <2>2, <2>3, <2>4, <2>5, Zenon
  <1>8. CASE PullJoin
    <2>1. phase = "pulling" /\ UNCHANGED pulled
      BY <1>8 DEF PullJoin
    <2>2. CASE phase' = "failed"
      BY <2>2, <1>0
    <2>3. CASE phase' = "pull" /\ nodeIdx' = nodeIdx + 1
      <3>1. \A p \in pulled : p[1] < nodeIdx \/ p[1] = nodeIdx
        BY <2>1, Zenon DEF PullsOfNode
      <3>2. \A p \in pulled : p[1] < nodeIdx + 1
        <4> TAKE p \in pulled
        <4>1. p[1] \in Nat /\ nodeIdx \in Nat
          BY DEF TypeInv, DataInv, DataCtl, DataSets, Nodes
        <4>2. p[1] < nodeIdx \/ p[1] = nodeIdx
          BY <3>1
        <4>3. QED
          BY <4>1, <4>2, SMT
      <3>3. QED
        BY <2>1, <2>3, <3>2 DEF PullsOfNode
    <2>4. QED
      BY <1>8, <2>2, <2>3, Zenon DEF PullJoin
  <1>9. CASE PullsDone
    BY <1>9, <1>0 DEF PullsDone
  <1>10. CASE NextBootstrapCommand
    <2>1. phase' \in {"bootstrap", "failed", "cmdretry"}
      BY <1>10, Zenon DEF NextBootstrapCommand
    <2>2. QED
      BY <2>1, <1>0
  <1>11. CASE CommandAttempt
    <2>1. phase' \in {"bootstrap", "cmdretry"}
      BY <1>11, Zenon DEF CommandAttempt
    <2>2. QED
      BY <2>1, <1>0
  <1>12. CASE CommandExhausted
    <2>1. phase' \in {"bootstrap", "failed"}
      BY <1>12, Zenon DEF CommandExhausted
    <2>2. QED
      BY <2>1, <1>0
  <1>13. CASE BootstrapDone
    BY <1>13, <1>0 DEF BootstrapDone
  <1>14. CASE UNCHANGED vars
    BY <1>14 DEF vars, PullsOfNode
  <1>15. QED
    BY <1>1, <1>2, <1>3, <1>4, <1>5, <1>6, <1>7, <1>8, <1>9, <1>10,
       <1>11, <1>12, <1>13, <1>14 DEF Next

LEMMA RefInvInit == Init => RefInv
  <1> SUFFICES ASSUME Init PROVE RefInv
    OBVIOUS
  <1>1. TypeInv
    BY TypeInvInit
  <1>2. phase = "upload" /\ ~lastErr /\ pulled = {}
    BY DEF Init
  <1>3. QED
    BY <1>1, <1>2 DEF RefInv, ErrTracksRetries, PullsOfNode

LEMMA RefInvNext == RefInv /\ [Next]_vars => RefInv'
  BY TypeInvNext, ErrNext, BootCmdNext, PullsNext DEF RefInv

\* The visible stage of each phase.
LEMMA StageBarValues ==
    /\ phase = "pulling" => StageBar = "pull"
    /\ phase = "cmdretry" => StageBar = "bootstrap"
    /\ phase \notin {"pulling", "cmdretry"} => StageBar = phase
  BY DEF StageBar

LEMMA StageBarValuesPrimed ==
    /\ phase' = "pulling" => StageBar' = "pull"
    /\ phase' = "cmdretry" => StageBar' = "bootstrap"
    /\ phase' \notin {"pulling", "cmdretry"} => StageBar' = phase'
  BY DEF StageBar

\* Deploy starts where the abstract pipeline starts.
LEMMA RefineInit == Init => Pipeline!Init
  <1> SUFFICES ASSUME Init PROVE Pipeline!Init
    OBVIOUS
  <1>1. StageBar = "upload" /\ PulledBar = {}
    BY StageBarValues DEF Init, PulledBar
  <1>2. QED
    BY <1>1 DEF Init, Pipeline!Init

\* Every step of Deploy is a step of the abstract pipeline or leaves what
\* it shows unchanged, provided the retry budget is at least one.
LEMMA RefineStep ==
    ASSUME CommandRetries > 0
    PROVE  RefInv /\ [Next]_vars => [Pipeline!Next]_Pipeline!pvars
  <1> SUFFICES ASSUME RefInv, [Next]_vars PROVE [Pipeline!Next]_Pipeline!pvars
    OBVIOUS
  <1> USE ConstantFacts DEF RefInv, TypeInv, DataInv, DataCtl, DataSets, BoolOK, Nodes, CmdIds, ImageIds
  \* Retry attempts, task starts and finishes, and entering runCommand.
  <1>s. ASSUME UNCHANGED <<skipSetup, pullImages, nodeIdx, cmdIdx, uploaded, tainted,
                           pulled, succeeded>>,
               StageBar' = StageBar
        PROVE  UNCHANGED Pipeline!pvars
    BY <1>s DEF Pipeline!pvars, PulledBar
  \* The first error ends Deploy.
  <1>f. ASSUME UNCHANGED <<skipSetup, pullImages, nodeIdx, cmdIdx, uploaded, tainted,
                           pulled, succeeded>>,
               phase \in {"upload", "taint", "pulling", "bootstrap", "cmdretry"},
               phase' = "failed"
        PROVE  Pipeline!Next
    <2>1. StageBar \notin {"done", "failed"} /\ StageBar' = "failed"
      BY <1>f, StageBarValues, StageBarValuesPrimed
    <2>2. Pipeline!Fail
      BY <1>f, <2>1 DEF Pipeline!Fail, PulledBar
    <2>3. QED
      BY <2>2 DEF Pipeline!Next
  <1>1. CASE UploadFiles
    <2>1. phase = "upload" /\ nodeIdx <= NumNodes /\ pulled = {}
          /\ UNCHANGED <<skipSetup, pullImages, cmdIdx, tainted, pulled, succeeded>>
      BY <1>1 DEF UploadFiles, PullsOfNode
    <2>2. CASE uploaded' = uploaded \cup {nodeIdx} /\ nodeIdx' = nodeIdx + 1 /\ phase' = phase
      <3>1. StageBar = "upload" /\ StageBar' = "upload"
        BY <2>1, <2>2, StageBarValues, StageBarValuesPrimed
      <3>2. Pipeline!Upload
        BY <2>1, <2>2, <3>1 DEF Pipeline!Upload, Pipeline!NodeStep, PulledBar
      <3>3. QED
        BY <3>2 DEF Pipeline!Next
    <2>3. CASE phase' = "failed" /\ UNCHANGED <<uploaded, nodeIdx>>
      BY <2>1, <2>3, <1>f
    <2>4. QED
      BY <1>1, <2>2, <2>3, Zenon DEF UploadFiles
  <1>2. CASE Setup
    <2>1. phase = "upload" /\ nodeIdx > NumNodes /\ pulled = {}
          /\ UNCHANGED <<skipSetup, pullImages, cmdIdx, uploaded, tainted, pulled, succeeded>>
      BY <1>2 DEF Setup, PullsOfNode
    <2>2. StageBar = "upload"
      BY <2>1, StageBarValues
    <2>3. CASE skipSetup /\ phase' = "done" /\ UNCHANGED nodeIdx
      <3>1. StageBar' = "done"
        BY <2>3, StageBarValuesPrimed
      <3>2. Pipeline!SetupSkipped
        BY <2>1, <2>2, <2>3, <3>1 DEF Pipeline!SetupSkipped, PulledBar
      <3>3. QED
        BY <3>2 DEF Pipeline!Next
    <2>4. CASE ~skipSetup /\ phase' = "taint" /\ nodeIdx' = 1
      <3>1. StageBar' = "taint"
        BY <2>4, StageBarValuesPrimed
      <3>2. Pipeline!BeginTaints
        BY <2>1, <2>2, <2>4, <3>1 DEF Pipeline!BeginTaints, PulledBar
      <3>3. QED
        BY <3>2 DEF Pipeline!Next
    <2>5. QED
      BY <1>2, <2>3, <2>4, Zenon DEF Setup
  <1>3. CASE TaintAttempt
    <2>1. phase = "taint" /\ nodeIdx <= NumNodes /\ pulled = {} /\ phase' = phase
          /\ UNCHANGED <<skipSetup, pullImages, cmdIdx, uploaded, pulled, succeeded>>
      BY <1>3 DEF TaintAttempt, PullsOfNode
    <2>2. StageBar = "taint" /\ StageBar' = "taint"
      BY <2>1, StageBarValues, StageBarValuesPrimed
    <2>3. CASE tainted' = tainted \cup {nodeIdx} /\ nodeIdx' = nodeIdx + 1
      <3>1. Pipeline!Taint
        BY <2>1, <2>2, <2>3 DEF Pipeline!Taint, Pipeline!NodeStep, PulledBar
      <3>2. QED
        BY <3>1 DEF Pipeline!Next
    <2>4. CASE UNCHANGED <<tainted, nodeIdx>>
      BY <2>1, <2>2, <2>4, <1>s
    <2>5. QED
      BY <1>3, <2>3, <2>4, Zenon DEF TaintAttempt
  <1>4. CASE TaintExhausted
    <2>1. phase = "taint" /\ retries >= CommandRetries
          /\ UNCHANGED <<skipSetup, pullImages, cmdIdx, uploaded, tainted, pulled, succeeded>>
      BY <1>4 DEF TaintExhausted
    <2>2. lastErr
      <3>1. retries > 0
        BY <2>1
      <3>2. QED
        BY <2>1, <3>1, Zenon DEF ErrTracksRetries
    <2>3. phase' = "failed" /\ UNCHANGED nodeIdx
      BY <1>4, <2>2, Zenon DEF TaintExhausted
    <2>4. QED
      BY <2>1, <2>3, <1>f
  <1>5. CASE TaintsDone
    <2>1. phase = "taint" /\ nodeIdx > NumNodes /\ pulled = {}
          /\ UNCHANGED <<skipSetup, pullImages, uploaded, tainted, pulled, succeeded>>
      BY <1>5 DEF TaintsDone, PullsOfNode
    <2>2. StageBar = "taint"
      BY <2>1, StageBarValues
    <2>3. CASE pullImages /\ phase' = "pull" /\ nodeIdx' = 1 /\ cmdIdx' = cmdIdx
      <3>1. StageBar' = "pull"
        BY <2>3, StageBarValuesPrimed
      <3>2. Pipeline!EndTaints
        BY <2>1, <2>2, <2>3, <3>1, Zenon DEF Pipeline!EndTaints, PulledBar
      <3>3. QED
        BY <3>2 DEF Pipeline!Next
    <2>4. CASE ~pullImages /\ phase' = "bootstrap" /\ cmdIdx' = 1 /\ nodeIdx' = nodeIdx
      <3>1. StageBar' = "bootstrap"
        BY <2>4, StageBarValuesPrimed
      <3>2. Pipeline!EndTaints
        BY <2>1, <2>2, <2>4, <3>1, Zenon DEF Pipeline!EndTaints, PulledBar
      <3>3. QED
        BY <3>2 DEF Pipeline!Next
    <2>5. QED
      BY <1>5, <2>3, <2>4, Zenon DEF TaintsDone
  <1>6. CASE StartPullTasks
    <2>1. phase = "pull" /\ phase' = "pulling"
          /\ UNCHANGED <<skipSetup, pullImages, nodeIdx, cmdIdx, uploaded, tainted,
                         pulled, succeeded>>
      BY <1>6 DEF StartPullTasks
    <2>2. StageBar' = StageBar
      BY <2>1, StageBarValues, StageBarValuesPrimed
    <2>3. QED
      BY <2>1, <2>2, <1>s
  <1>7. CASE PullTask
    <2>1. phase = "pulling" /\ phase' = phase
          /\ UNCHANGED <<skipSetup, pullImages, nodeIdx, cmdIdx, uploaded, tainted, succeeded>>
      BY <1>7 DEF PullTask
    <2>2. PICK i \in pending : pulled' \in {pulled, pulled \cup {<<nodeIdx, i>>}}
      BY <1>7, Zenon DEF PullTask
    <2>3. PulledBar' = PulledBar /\ StageBar' = StageBar
      <3>1. PulledBar' = PulledBar
        BY <2>1, <2>2 DEF PulledBar
      <3>2. StageBar' = StageBar
        BY <2>1 DEF StageBar
      <3>3. QED
        BY <3>1, <3>2
    <2>4. QED
      BY <2>1, <2>3 DEF Pipeline!pvars
  <1>8. CASE PullJoin
    <2>1. phase = "pulling" /\ pending = {} /\ nodeIdx \in Nodes
          /\ UNCHANGED <<skipSetup, pullImages, cmdIdx, uploaded, tainted, pulled, succeeded>>
      BY <1>8 DEF PullJoin
    <2>2. CASE phase' = "failed" /\ UNCHANGED nodeIdx
      BY <2>1, <2>2, <1>f
    <2>3. CASE ~pullErr /\ phase' = "pull" /\ nodeIdx' = nodeIdx + 1
      <3>1. StageBar = "pull" /\ StageBar' = "pull"
        BY <2>1, <2>3, StageBarValues, StageBarValuesPrimed
      <3>2. \A j \in ToPullSet : <<nodeIdx, j>> \in pulled
        BY <2>1, <2>3, Zenon DEF PullsOfNode
      <3>3. \A p \in pulled : p[1] < nodeIdx \/ (p[1] = nodeIdx /\ p[2] \in ToPullSet)
        BY <2>1, Zenon DEF PullsOfNode
      <3>4. PulledBar' = PulledBar \cup ({nodeIdx} \X ToPullSet)
        BY <2>1, <2>3, <3>2, <3>3 DEF PulledBar
      <3>5. Pipeline!PullNode
        BY <2>1, <2>3, <3>1, <3>4 DEF Pipeline!PullNode, Pipeline!NodeStep, ToPullSet
      <3>6. QED
        BY <3>5 DEF Pipeline!Next
    <2>4. QED
      BY <1>8, <2>2, <2>3, Zenon DEF PullJoin
  <1>9. CASE PullsDone
    <2>1. phase = "pull" /\ nodeIdx > NumNodes /\ phase' = "bootstrap" /\ cmdIdx' = 1
          /\ UNCHANGED <<skipSetup, pullImages, nodeIdx, uploaded, tainted, pulled, succeeded>>
      BY <1>9 DEF PullsDone
    <2>2. StageBar = "pull" /\ StageBar' = "bootstrap"
      BY <2>1, StageBarValues, StageBarValuesPrimed
    <2>3. Pipeline!EndPulls
      BY <2>1, <2>2 DEF Pipeline!EndPulls, PulledBar
    <2>4. QED
      BY <2>3 DEF Pipeline!Next
  <1>10. CASE NextBootstrapCommand
    <2>1. phase = "bootstrap" /\ cmdIdx \in CmdIds
          /\ UNCHANGED <<skipSetup, pullImages, nodeIdx, uploaded, tainted, pulled, succeeded>>
      BY <1>10 DEF NextBootstrapCommand
    <2>2. CASE ~BootstrapCommand(cmdIdx) /\ cmdIdx' = cmdIdx + 1 /\ UNCHANGED phase
      <3>1. StageBar = "bootstrap" /\ StageBar' = "bootstrap"
        BY <2>1, <2>2, StageBarValues, StageBarValuesPrimed
      <3>2. Pipeline!Command
        BY <2>1, <2>2, <3>1 DEF Pipeline!Command, PulledBar
      <3>3. QED
        BY <3>2 DEF Pipeline!Next
    <2>3. CASE phase' = "failed" /\ UNCHANGED cmdIdx
      BY <2>1, <2>3, <1>f
    <2>4. CASE phase' = "cmdretry" /\ UNCHANGED cmdIdx
      <3>1. StageBar' = StageBar
        BY <2>1, <2>4, StageBarValues, StageBarValuesPrimed
      <3>2. QED
        BY <2>1, <2>4, <3>1, <1>s
    <2>5. QED
      BY <1>10, <2>2, <2>3, <2>4, Zenon DEF NextBootstrapCommand
  <1>11. CASE CommandAttempt
    <2>1. phase = "cmdretry" /\ cmdIdx \in CmdIds /\ BootstrapCommand(cmdIdx)
          /\ UNCHANGED <<skipSetup, pullImages, nodeIdx, uploaded, tainted, pulled>>
      BY <1>11 DEF CommandAttempt
    <2>2. CASE succeeded' = succeeded \cup {cmdIdx} /\ phase' = "bootstrap"
               /\ cmdIdx' = cmdIdx + 1
      <3>1. StageBar = "bootstrap" /\ StageBar' = "bootstrap"
        BY <2>1, <2>2, StageBarValues, StageBarValuesPrimed
      <3>2. Pipeline!Command
        BY <2>1, <2>2, <3>1 DEF Pipeline!Command, PulledBar
      <3>3. QED
        BY <3>2 DEF Pipeline!Next
    <2>3. CASE UNCHANGED <<succeeded, phase, cmdIdx>>
      <3>1. StageBar' = StageBar
        BY <2>3 DEF StageBar
      <3>2. QED
        BY <2>1, <2>3, <3>1, <1>s
    <2>4. QED
      BY <1>11, <2>2, <2>3 DEF CommandAttempt
  <1>12. CASE CommandExhausted
    <2>1. phase = "cmdretry" /\ retries >= CommandRetries
          /\ UNCHANGED <<skipSetup, pullImages, nodeIdx, uploaded, tainted, pulled, succeeded>>
      BY <1>12 DEF CommandExhausted
    <2>2. lastErr
      <3>1. retries > 0
        BY <2>1
      <3>2. QED
        BY <2>1, <3>1, Zenon DEF ErrTracksRetries
    <2>3. phase' = "failed" /\ UNCHANGED cmdIdx
      BY <1>12, <2>2, Zenon DEF CommandExhausted
    <2>4. QED
      BY <2>1, <2>3, <1>f
  <1>13. CASE BootstrapDone
    <2>1. phase = "bootstrap" /\ cmdIdx > Len(Commands) /\ phase' = "done"
          /\ UNCHANGED <<skipSetup, pullImages, nodeIdx, cmdIdx, uploaded, tainted, pulled,
                         succeeded>>
      BY <1>13 DEF BootstrapDone
    <2>2. StageBar = "bootstrap" /\ StageBar' = "done"
      BY <2>1, StageBarValues, StageBarValuesPrimed
    <2>3. Pipeline!Finish
      BY <2>1, <2>2 DEF Pipeline!Finish, PulledBar
    <2>4. QED
      BY <2>3 DEF Pipeline!Next
  <1>14. CASE UNCHANGED vars
    BY <1>14 DEF vars, Pipeline!pvars, StageBar, PulledBar
  <1>15. QED
    BY <1>1, <1>2, <1>3, <1>4, <1>5, <1>6, <1>7, <1>8, <1>9, <1>10,
       <1>11, <1>12, <1>13, <1>14 DEF Next


(* The type invariant of the deployment pipeline holds in every reachable  *)
(* state, for every node count, image list, command list and budget.       *)
THEOREM DeployTypeCorrect == Spec => []TypeOK
  <1>1. Spec => []TypeInv
    BY TypeInvInit, TypeInvNext, PTL DEF Spec
  <1>2. QED
    BY <1>1, TypeInvTypeOK, PTL

\* The budget invariant holds in every reachable state.
LEMMA BudgetInvHolds == Spec => []BudgetInv
  <1>1. Init => BudgetInv
    <2> SUFFICES ASSUME Init PROVE BudgetInv
      OBVIOUS
    <2>1. TypeInv
      BY TypeInvInit
    <2>2. phase = "upload" /\ taintAttempts = [n \in Nodes |-> 0]
          /\ cmdAttempts = [c \in CmdIds |-> 0]
      BY DEF Init
    <2>3. QED
      BY <2>1, <2>2, ConstantFacts
      DEF BudgetInv, TaintBudget, TaintCounted, TaintUnreached,
          CmdBudget, CmdCounted, CmdUnreached
  <1>2. BudgetInv /\ [Next]_vars => BudgetInv'
    BY TypeInvNext, TaintNext, CmdNext DEF BudgetInv
  <1>3. QED
    BY <1>1, <1>2, PTL DEF Spec

(* The retry budget of Deploy: configureTaint is called at most            *)
(* commandRetries times per node, and utils.RunCommand at most            *)
(* commandRetries times per bootstrapper command, for every node count,   *)
(* command list and budget.                                               *)
THEOREM DeployBudgetHolds == Spec => []DeployRetryBudget
  <1>1. BudgetInv => DeployRetryBudget
    BY DEF BudgetInv, TaintBudget, CmdBudget, DeployRetryBudget
  <1>2. QED
    BY <1>1, BudgetInvHolds, PTL

(* Deploy implements the safety part of the abstract pipeline when the    *)
(* retry budget is at least one: through every retry and every order in   *)
(* which a node's pull tasks finish, the files, taints, pulls and command *)
(* results become visible as whole-node steps in node order and commands  *)
(* in declared order, one phase after the other, and a nil result of a    *)
(* retry loop always follows a successful attempt.  (With a budget of     *)
(* zero the loops give up with a nil error having done nothing, which the *)
(* abstract pipeline has no step for.)                                    *)
THEOREM PipelineImplemented ==
    ASSUME CommandRetries > 0
    PROVE  Spec => Pipeline!SafetySpec
  <1>1. Spec => []RefInv
    BY RefInvInit, RefInvNext, PTL DEF Spec
  <1>2. QED
    BY <1>1, RefineInit, RefineStep, PTL DEF Spec, Pipeline!SafetySpec

(***************************************************************************)
(* The abstract pipeline's invariant, seen through the refinement mapping. *)
(* It is proved once, on DeployPipeline (PipelineSafe), and carried over   *)
(* to Deploy by PipelineImplemented.                                       *)
(***************************************************************************)
LEMMA AbstractInvHolds ==
    ASSUME CommandRetries > 0
    PROVE  Spec => []Pipeline!PipelineInv
  <1>1. Spec => Pipeline!SafetySpec
    BY PipelineImplemented
  <1>2. Pipeline!SafetySpec => []Pipeline!PipelineInv
    BY ConstantFacts, Pipeline!PipelineSafe
  <1>3. QED
    BY <1>1, <1>2

\* What the abstract invariant says of a Deploy that has returned nil.
LEMMA DoneFromAbstract ==
    Pipeline!PipelineInv => DeploySuccessMeansDone
  <1> SUFFICES ASSUME Pipeline!PipelineInv, phase = "done"
               PROVE  /\ uploaded = Nodes
                      /\ ~skipSetup =>
                           /\ tainted = Nodes
                           /\ \A c \in CmdIds : BootstrapCommand(c) => c \in succeeded
    BY DEF DeploySuccessMeansDone
  <1>1. StageBar = "done"
    BY StageBarValues
  <1>2. QED
    BY <1>1 DEF Pipeline!PipelineInv, Pipeline!AllNodes, Pipeline!RanBefore, Nodes, CmdIds

(* When Deploy returns nil, every node has its files and, unless setup was *)
(* skipped, its taint, and every bootstrapper command not skipped has run  *)
(* successfully, for every node count, command list and positive budget.   *)
(* A budget of zero lets the taint and command loops give up at once with  *)
(* a nil error; TLC shows the property failing then.                       *)
THEOREM DeploySuccessHolds ==
    ASSUME CommandRetries > 0
    PROVE  Spec => []DeploySuccessMeansDone
  BY AbstractInvHolds, DoneFromAbstract, PTL

(***************************************************************************)
(* SetupPrecondition.  A command is attempted only in phase "cmdretry",    *)
(* which the abstract pipeline sees as its bootstrap stage, where every    *)
(* node is uploaded, tainted and, when images are pulled, holds its        *)
(* images; from then on no step changes those sets.  Before that phase no  *)
(* command has been attempted (BudgetInv).                                 *)
(***************************************************************************)
ReadyForCommands ==
    /\ uploaded = Nodes
    /\ tainted = Nodes
    /\ pullImages =>
         \A n \in Nodes, i \in ImageIds : ~ImageSkipped(i) => <<n, i>> \in pulled

LEMMA ReadyFromAbstract ==
    ASSUME Pipeline!PipelineInv, phase \in {"bootstrap", "cmdretry"}
    PROVE  ReadyForCommands
  <1>1. StageBar = "bootstrap"
    BY StageBarValues
  <1>2. PulledBar \subseteq pulled
    BY DEF PulledBar
  <1>3. /\ uploaded = Nodes /\ tainted = Nodes
        /\ pullImages => PulledBar = Nodes \X {i \in ImageIds : ~ImageSkipped(i)}
    BY <1>1, Zenon DEF Pipeline!PipelineInv, Pipeline!AllNodes, Nodes
  <1>4. QED
    BY <1>2, <1>3 DEF ReadyForCommands

\* Only CommandAttempt counts an attempt.
LEMMA AttemptsFrame == [Next]_vars /\ ~CommandAttempt => cmdAttempts' = cmdAttempts
  BY DEF Next, vars, UploadFiles, Setup, TaintAttempt, TaintExhausted, TaintsDone,
     StartPullTasks, PullTask, PullJoin, PullsDone, NextBootstrapCommand,
     CommandExhausted, BootstrapDone

\* From the bootstrap phase on, the files, taints and pulls are final.
LEMMA HistoryFrozen ==
    ASSUME [Next]_vars, phase \in {"bootstrap", "cmdretry", "done", "failed"}
    PROVE  UNCHANGED <<uploaded, tainted, pulled, pullImages>>
  <1>1. ~(UploadFiles \/ Setup \/ TaintAttempt \/ TaintExhausted \/ TaintsDone)
    BY DEF UploadFiles, Setup, TaintAttempt, TaintExhausted, TaintsDone
  <1>2. ~(StartPullTasks \/ PullTask \/ PullJoin \/ PullsDone)
    BY DEF StartPullTasks, PullTask, PullJoin, PullsDone
  <1>3. QED
    BY <1>1, <1>2 DEF Next, vars, NextBootstrapCommand, CommandAttempt,
       CommandExhausted, BootstrapDone

LEMMA SetupStep ==
    ASSUME BudgetInv, Pipeline!PipelineInv, SetupPrecondition, [Next]_vars
    PROVE  SetupPrecondition'
  <1>0. SetupPrecondition <=> \A c \in CmdIds : cmdAttempts[c] > 0 => ReadyForCommands
    BY DEF SetupPrecondition, ReadyForCommands
  <1>a. SetupPrecondition' <=> \A c \in CmdIds : cmdAttempts'[c] > 0 => ReadyForCommands'
    BY DEF SetupPrecondition, ReadyForCommands
  <1>1. CASE phase \in {"upload", "taint", "pull", "pulling"}
    <2>1. \A c \in CmdIds : cmdAttempts[c] = 0
      BY <1>1 DEF BudgetInv, CmdBudget, CmdCounted, CmdUnreached
    <2>2. cmdAttempts' = cmdAttempts
      BY <1>1, AttemptsFrame DEF CommandAttempt
    <2>3. QED
      BY <1>a, <2>1, <2>2
  <1>2. CASE phase \in {"bootstrap", "cmdretry", "done", "failed"}
    <2>1. ReadyForCommands' = ReadyForCommands
      BY <1>2, HistoryFrozen DEF ReadyForCommands
    <2>2. CASE CommandAttempt
      <3>1. phase = "cmdretry" /\ cmdAttempts' = [cmdAttempts EXCEPT ![cmdIdx] = @ + 1]
        BY <2>2 DEF CommandAttempt
      <3>2. ReadyForCommands
        BY <3>1, ReadyFromAbstract
      <3>3. QED
        BY <1>a, <2>1, <3>2
    <2>3. CASE ~CommandAttempt
      BY <1>0, <1>a, <2>1, <2>3, AttemptsFrame
    <2>4. QED
      BY <2>2, <2>3
  <1>3. QED
    BY <1>1, <1>2 DEF BudgetInv, TypeInv, DataInv, DataCtl, DataSets

(* A bootstrapper command is run only once every node has its files and    *)
(* its taint and, when images are pulled, every image it needs: whatever   *)
(* the order in which a node's parallel pull tasks finish, and for every   *)
(* node count, image list, command list and budget.                        *)
THEOREM SetupPreconditionHolds == Spec => []SetupPrecondition
  <1>1. ASSUME CommandRetries = 0 PROVE Spec => []SetupPrecondition
    <2>1. TypeOK /\ DeployRetryBudget => SetupPrecondition
      BY <1>1 DEF TypeOK, DeployRetryBudget, SetupPrecondition
    <2>2. QED
      BY <2>1, DeployBudgetHolds, DeployTypeCorrect, PTL
  <1>2. ASSUME CommandRetries > 0 PROVE Spec => []SetupPrecondition
    <2>1. Init => SetupPrecondition
      BY DEF Init, SetupPrecondition
    <2>2. Spec => [](BudgetInv /\ Pipeline!PipelineInv)
      BY <1>2, BudgetInvHolds, AbstractInvHolds, PTL
    <2>3. QED
      BY <2>1, <2>2, SetupStep, PTL DEF Spec
  <1>3. QED
    BY <1>1, <1>2, ConstantFacts

=============================================================================
