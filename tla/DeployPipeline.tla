---------------------------- MODULE DeployPipeline ----------------------------
(***************************************************************************)
(* What Deployment.Deploy promises, without its retries, its parallel      *)
(* tasks and its progress reporting: the files go to every node in order,  *)
(* then, unless setup is skipped, every node is tainted in order, every    *)
(* node gets all the images it needs in one step (when images are          *)
(* pulled), and the bootstrapper commands run in declared order.  Any      *)
(* step may instead fail, which ends the pipeline.                         *)
(*                                                                         *)
(* Module Deployment is shown to implement this one (Deployment.tla,       *)
(* PipelineRefinement; DeploymentProofs.tla, PipelineImplemented).         *)
(***************************************************************************)
EXTENDS Naturals, TLAPS

CONSTANTS
    NumNodes,     \* nodes 1..NumNodes, in sorted-name order
    ToPull,       \* the images every node must have (features not skipped)
    NumCommands,  \* commands 1..NumCommands, in declared order
    ToRun         \* the commands that must run (bootstrapper, not skipped)

VARIABLES
    skipSetup, pullImages,  \* the deployment's flags
    stage,                  \* the phase of the pipeline
    node,                   \* the next node of the current phase
    cmd,                    \* the next command
    uploaded, tainted, pulled, succeeded

pvars == <<skipSetup, pullImages, stage, node, cmd, uploaded, tainted, pulled, succeeded>>

Init ==
    /\ skipSetup \in BOOLEAN
    /\ pullImages \in BOOLEAN
    /\ stage = "upload"
    /\ node = 1
    /\ cmd = 1
    /\ uploaded = {}
    /\ tainted = {}
    /\ pulled = {}
    /\ succeeded = {}

\* A step of a phase that works on the next node.
NodeStep(s) == stage = s /\ node <= NumNodes

Upload ==
    /\ NodeStep("upload")
    /\ uploaded' = uploaded \cup {node}
    /\ node' = node + 1
    /\ UNCHANGED <<skipSetup, pullImages, stage, cmd, tainted, pulled, succeeded>>

SetupSkipped ==
    /\ stage = "upload" /\ node > NumNodes
    /\ skipSetup
    /\ stage' = "done"
    /\ UNCHANGED <<skipSetup, pullImages, node, cmd, uploaded, tainted, pulled, succeeded>>

BeginTaints ==
    /\ stage = "upload" /\ node > NumNodes
    /\ ~skipSetup
    /\ stage' = "taint"
    /\ node' = 1
    /\ UNCHANGED <<skipSetup, pullImages, cmd, uploaded, tainted, pulled, succeeded>>

Taint ==
    /\ NodeStep("taint")
    /\ tainted' = tainted \cup {node}
    /\ node' = node + 1
    /\ UNCHANGED <<skipSetup, pullImages, stage, cmd, uploaded, pulled, succeeded>>

\* After the taints, the pulls when images are pulled, else the commands.
EndTaints ==
    /\ stage = "taint" /\ node > NumNodes
    /\ \/ /\ pullImages
          /\ stage' = "pull"
          /\ node' = 1
          /\ UNCHANGED cmd
       \/ /\ ~pullImages
          /\ stage' = "bootstrap"
          /\ cmd' = 1
          /\ UNCHANGED node
    /\ UNCHANGED <<skipSetup, pullImages, uploaded, tainted, pulled, succeeded>>

\* All the images a node needs arrive at once.
PullNode ==
    /\ NodeStep("pull")
    /\ pulled' = pulled \cup ({node} \X ToPull)
    /\ node' = node + 1
    /\ UNCHANGED <<skipSetup, pullImages, stage, cmd, uploaded, tainted, succeeded>>

EndPulls ==
    /\ stage = "pull" /\ node > NumNodes
    /\ stage' = "bootstrap"
    /\ cmd' = 1
    /\ UNCHANGED <<skipSetup, pullImages, node, uploaded, tainted, pulled, succeeded>>

\* The next command runs if it must, and is passed over otherwise.
Command ==
    /\ stage = "bootstrap" /\ cmd <= NumCommands
    /\ succeeded' = IF cmd \in ToRun THEN succeeded \cup {cmd} ELSE succeeded
    /\ cmd' = cmd + 1
    /\ UNCHANGED <<skipSetup, pullImages, stage, node, uploaded, tainted, pulled>>

Finish ==
    /\ stage = "bootstrap" /\ cmd > NumCommands
    /\ stage' = "done"
    /\ UNCHANGED <<skipSetup, pullImages, node, cmd, uploaded, tainted, pulled, succeeded>>

\* The first error ends the pipeline.
Fail ==
    /\ stage \notin {"done", "failed"}
    /\ stage' = "failed"
    /\ UNCHANGED <<skipSetup, pullImages, node, cmd, uploaded, tainted, pulled, succeeded>>

Next ==
    \/ Upload \/ SetupSkipped \/ BeginTaints \/ Taint \/ EndTaints
    \/ PullNode \/ EndPulls \/ Command \/ Finish \/ Fail

SafetySpec == Init /\ [][Next]_pvars

(***************************************************************************)
(* What each stage implies about the work done: the nodes before the       *)
(* current one are uploaded, tainted or supplied with their images, and    *)
(* the commands before the current one that must run have run.  A stage    *)
(* past a phase has that phase's work complete on every node.             *)
(***************************************************************************)
AllNodes == 1 .. NumNodes

\* The commands before k that must run have succeeded.
RanBefore(k) == \A c \in 1 .. k - 1 : c \in ToRun => c \in succeeded

PipelineInv ==
    /\ node \in 1 .. NumNodes + 1
    /\ cmd \in 1 .. NumCommands + 1
    /\ stage \in {"upload", "taint", "pull", "bootstrap", "done", "failed"}
    /\ stage = "upload" => uploaded = 1 .. node - 1
    /\ stage \in {"taint", "pull", "bootstrap", "done"} => uploaded = AllNodes
    /\ stage \in {"taint", "pull", "bootstrap"} => ~skipSetup
    /\ stage = "upload" => tainted = {}
    /\ stage \in {"upload", "taint"} => pulled = {}
    /\ stage = "taint" => tainted = 1 .. node - 1
    /\ stage \in {"pull", "bootstrap"} => tainted = AllNodes
    /\ stage = "pull" => pullImages /\ pulled = (1 .. node - 1) \X ToPull
    /\ stage = "bootstrap" /\ pullImages => pulled = AllNodes \X ToPull
    /\ stage = "bootstrap" => RanBefore(cmd)
    /\ stage = "done" /\ ~skipSetup => tainted = AllNodes /\ RanBefore(NumCommands + 1)

\* The steps that move to the next node or command add exactly that one to
\* the work done.
LEMMA IntervalStep ==
  ASSUME NEW k \in Nat \ {0}
  PROVE  (1 .. k - 1) \cup {k} = 1 .. (k + 1) - 1
  OBVIOUS

LEMMA PipelineInvInit ==
  ASSUME NumNodes \in Nat, NumCommands \in Nat, Init
  PROVE  PipelineInv
  BY DEF Init, PipelineInv

LEMMA PipelineInvNext ==
  ASSUME NumNodes \in Nat, NumCommands \in Nat, PipelineInv, [Next]_pvars
  PROVE  PipelineInv'
  <1> USE DEF PipelineInv, AllNodes
  <1>1. CASE Upload
    <2>1. uploaded' = 1 .. node' - 1
      BY <1>1, IntervalStep DEF Upload, NodeStep
    <2>2. QED
      BY <1>1, <2>1 DEF Upload, NodeStep
  <1>2. CASE SetupSkipped
    BY <1>2 DEF SetupSkipped
  <1>3. CASE BeginTaints
    BY <1>3 DEF BeginTaints
  <1>4. CASE Taint
    <2>1. tainted' = 1 .. node' - 1
      BY <1>4, IntervalStep DEF Taint, NodeStep
    <2>2. QED
      BY <1>4, <2>1 DEF Taint, NodeStep
  <1>5. CASE EndTaints
    <2>1. stage = "taint" /\ node = NumNodes + 1 /\ ~skipSetup
          /\ UNCHANGED <<skipSetup, pullImages, uploaded, tainted, pulled, succeeded>>
      BY <1>5 DEF EndTaints
    <2>2. CASE pullImages /\ stage' = "pull" /\ node' = 1 /\ cmd' = cmd
      BY <2>1, <2>2
    <2>3. CASE ~pullImages /\ stage' = "bootstrap" /\ cmd' = 1 /\ node' = node
      BY <2>1, <2>3 DEF RanBefore
    <2>4. QED
      BY <1>5, <2>2, <2>3, Zenon DEF EndTaints
  <1>6. CASE PullNode
    <2>1. pulled' = (1 .. node' - 1) \X ToPull
      <3>1. ((1 .. node - 1) \X ToPull) \cup ({node} \X ToPull)
              = ((1 .. node - 1) \cup {node}) \X ToPull
        OBVIOUS
      <3>2. QED
        BY <1>6, <3>1, IntervalStep DEF PullNode, NodeStep
    <2>2. QED
      BY <1>6, <2>1 DEF PullNode, NodeStep
  <1>7. CASE EndPulls
    BY <1>7 DEF EndPulls, RanBefore
  <1>8. CASE Command
    <2>1. RanBefore(cmd)' 
      BY <1>8 DEF Command, RanBefore
    <2>2. QED
      BY <1>8, <2>1 DEF Command
  <1>9. CASE Finish
    BY <1>9 DEF Finish, RanBefore
  <1>10. CASE Fail
    BY <1>10 DEF Fail
  <1>11. CASE UNCHANGED pvars
    BY <1>11 DEF pvars, RanBefore
  <1>12. QED
    BY <1>1, <1>2, <1>3, <1>4, <1>5, <1>6, <1>7, <1>8, <1>9, <1>10, <1>11 DEF Next

(* When the pipeline ends done, every node has its files and, unless setup *)
(* was skipped, its taint, and every command that must run has run; a      *)
(* command runs only once every node is uploaded and tainted and, when     *)
(* images are pulled, holds every image it needs.                          *)
THEOREM PipelineSafe ==
  ASSUME NumNodes \in Nat, NumCommands \in Nat
  PROVE  SafetySpec => []PipelineInv
  <1>1. Init => PipelineInv
    BY PipelineInvInit
  <1>2. PipelineInv /\ [Next]_pvars => PipelineInv'
    BY PipelineInvNext
  <1>3. QED
    BY <1>1, <1>2, PTL DEF SafetySpec

\* The pipeline does not stop half way: it ends done or failed.
Spec == SafetySpec /\ WF_pvars(Next)

=============================================================================
