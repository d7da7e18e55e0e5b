--------------------------- MODULE ServersLifecycle ---------------------------
(***************************************************************************)
(* What Servers.Run promises (spec 4.4), without the retry loop of         *)
(* runCommand, the wait for the child processes and the progress bar: the  *)
(* list of servers is made, then its servers start one by one in list      *)
(* order; only when all have started does the command goroutine begin,     *)
(* and it takes the commands in declared order, running the ones that      *)
(* apply and passing over the rest.  A signal moves Run to the stopping    *)
(* stage, where the servers stop one by one in list order before Run       *)
(* returns.  Making the list or starting a server may fail (Run returns an *)
(* error); a command that applies may fail for good (log.Fatal ends the    *)
(* process); one that applies is passed over only after a signal or when   *)
(* no attempt is allowed at all.                                           *)
(*                                                                         *)
(* Module Servers is shown to implement this one (Servers.tla,             *)
(* LifecycleRefinement; ServersProofs.tla, LifecycleImplemented).          *)
(***************************************************************************)
EXTENDS Naturals, Sequences, TLAPS

CONSTANTS
    ServerIds,    \* the servers a list may hold
    MaxServers,   \* the longest list that can be made
    NumCommands,  \* commands 1..NumCommands, in declared order
    ToRun,        \* the commands that apply to this node
    Budgeted      \* at least one attempt per command is allowed

VARIABLES
    life,       \* Run's stage
    servers,    \* the list of servers, in start (and stop) order
    started,    \* servers[1..started] have been started
    stopped,    \* servers[1..stopped] have been stopped
    stop,       \* the shutdown signal has come
    cmdLife,    \* the command goroutine: not begun, working, or ended
    cmd,        \* the next command
    succeeded   \* the commands that have run successfully

lvars == <<life, servers, started, stopped, stop, cmdLife, cmd, succeeded>>

\* The lists of servers that can be made.
Lists == UNION {[1 .. n -> ServerIds] : n \in 0 .. MaxServers}

Init ==
    /\ life = "init"
    /\ servers = <<>>
    /\ started = 0
    /\ stopped = 0
    /\ stop = FALSE
    /\ cmdLife = "idle"
    /\ cmd = 1
    /\ succeeded = {}

\* The list is being made: it may take any value until the starts begin.
Register ==
    /\ life = "init"
    /\ servers' \in Lists
    /\ UNCHANGED <<life, started, stopped, stop, cmdLife, cmd, succeeded>>

Ready ==
    /\ life = "init"
    /\ servers' \in Lists
    /\ life' = "starting"
    /\ UNCHANGED <<started, stopped, stop, cmdLife, cmd, succeeded>>

StartNext ==
    /\ life = "starting"
    /\ started < Len(servers)
    /\ started' = started + 1
    /\ UNCHANGED <<life, servers, stopped, stop, cmdLife, cmd, succeeded>>

\* Every server has started: the command goroutine begins.
Launch ==
    /\ life = "starting"
    /\ started = Len(servers)
    /\ life' = "running"
    /\ cmdLife' = "active"
    /\ UNCHANGED <<servers, started, stopped, stop, cmd, succeeded>>

\* Making the list or starting a server failed: Run returns the error.
Fail ==
    /\ life \in {"init", "starting"}
    /\ life' = "failed"
    /\ UNCHANGED <<servers, started, stopped, stop, cmdLife, cmd, succeeded>>

Signal ==
    /\ life = "running"
    /\ life' = "stopping"
    /\ stop' = TRUE
    /\ UNCHANGED <<servers, started, stopped, cmdLife, cmd, succeeded>>

StopNext ==
    /\ life = "stopping"
    /\ stopped < Len(servers)
    /\ stopped' = stopped + 1
    /\ UNCHANGED <<life, servers, started, stop, cmdLife, cmd, succeeded>>

\* Every server has stopped (and the child processes are gone): Run returns.
Return ==
    /\ life = "stopping"
    /\ stopped = Len(servers)
    /\ life' = "stopped"
    /\ UNCHANGED <<servers, started, stopped, stop, cmdLife, cmd, succeeded>>

\* The command goroutine works while the process is up.
CommandTurn ==
    /\ life \in {"running", "stopping"}
    /\ cmdLife = "active"
    /\ cmd <= NumCommands

CommandRan ==
    /\ CommandTurn
    /\ cmd \in ToRun
    /\ succeeded' = succeeded \cup {cmd}
    /\ cmd' = cmd + 1
    /\ UNCHANGED <<life, servers, started, stopped, stop, cmdLife>>

CommandSkipped ==
    /\ CommandTurn
    /\ cmd \notin ToRun
    /\ cmd' = cmd + 1
    /\ UNCHANGED <<life, servers, started, stopped, stop, cmdLife, succeeded>>

\* A command that applies is passed over without running only after the
\* signal, or when no attempt is allowed.
CommandPassed ==
    /\ CommandTurn
    /\ cmd \in ToRun
    /\ stop \/ ~Budgeted
    /\ cmd' = cmd + 1
    /\ UNCHANGED <<life, servers, started, stopped, stop, cmdLife, succeeded>>

\* A command that applies fails for good and the process exits.
CommandFatal ==
    /\ CommandTurn
    /\ cmd \in ToRun
    /\ life' = "exited"
    /\ cmdLife' = "fatal"
    /\ UNCHANGED <<servers, started, stopped, stop, cmd, succeeded>>

SetupDone ==
    /\ life \in {"running", "stopping"}
    /\ cmdLife = "active"
    /\ cmd > NumCommands
    /\ cmdLife' = "finished"
    /\ UNCHANGED <<life, servers, started, stopped, stop, cmd, succeeded>>

MainProgress == Ready \/ StartNext \/ Launch \/ Fail \/ StopNext \/ Return

CommandProgress == CommandRan \/ CommandSkipped \/ CommandPassed \/ CommandFatal \/ SetupDone

Next == Register \/ MainProgress \/ Signal \/ CommandProgress

SafetySpec == Init /\ [][Next]_lvars

\* Run and the command goroutine both go on while they can; the signal may
\* never come.
Spec == SafetySpec /\ WF_lvars(MainProgress) /\ WF_lvars(CommandProgress)


(***************************************************************************)
(* What each stage implies: no command before every server has started,   *)
(* no server stopped before the signal, all stopped when Run returns, the *)
(* signal only in the stopping stages (or before a fatal exit), and       *)
(* without a signal and with a positive budget every applicable command   *)
(* before the cursor has run.                                             *)
(***************************************************************************)
LifecycleOrder ==
    /\ servers \in Seq(ServerIds)
    /\ started \in 0 .. Len(servers)
    /\ stopped \in 0 .. Len(servers)
    /\ cmd \in 1 .. NumCommands + 1
    /\ life \in {"init", "starting", "running", "stopping", "stopped", "failed", "exited"}
    /\ life = "init" => started = 0
    /\ life \in {"running", "stopping", "stopped"} => started = Len(servers)
    /\ cmdLife # "idle" => started = Len(servers) /\ life \notin {"init", "starting", "failed"}
    /\ cmdLife = "idle" => cmd = 1
    /\ life \in {"init", "starting", "running", "failed"} => stopped = 0
    /\ life = "stopped" => stopped = Len(servers)
    /\ stop => life \in {"stopping", "stopped", "exited"}
    /\ cmdLife = "finished" => cmd = NumCommands + 1
    /\ succeeded \subseteq ToRun \cap 1 .. cmd - 1
    /\ (Budgeted /\ ~stop /\ cmdLife \in {"active", "finished"})
           => ToRun \cap 1 .. cmd - 1 \subseteq succeeded


\* A list that can be made is a sequence of servers.
LEMMA ListsAreSeqs ==
  ASSUME MaxServers \in Nat, NEW l \in Lists
  PROVE  l \in Seq(ServerIds)
  <1>1. PICK n \in 0 .. MaxServers : l \in [1 .. n -> ServerIds]
    BY DEF Lists
  <1>2. QED
    BY <1>1

LEMMA LifecycleOrderInit ==
  ASSUME NumCommands \in Nat, Init
  PROVE  LifecycleOrder
  BY DEF Init, LifecycleOrder

LEMMA LifecycleOrderNext ==
  ASSUME NumCommands \in Nat, MaxServers \in Nat, LifecycleOrder, [Next]_lvars
  PROVE  LifecycleOrder'
  <1> USE DEF LifecycleOrder
  <1>1. CASE Register \/ Ready
    <2>1. servers' \in Seq(ServerIds) /\ life = "init"
      BY <1>1, ListsAreSeqs DEF Register, Ready
    <2>2. QED
      BY <1>1, <2>1 DEF Register, Ready
  <1>2. CASE StartNext
    BY <1>2 DEF StartNext
  <1>3. CASE Launch
    BY <1>3 DEF Launch
  <1>4. CASE Fail
    BY <1>4 DEF Fail
  <1>5. CASE Signal
    BY <1>5 DEF Signal
  <1>6. CASE StopNext
    BY <1>6 DEF StopNext
  <1>7. CASE Return
    BY <1>7 DEF Return
  <1>8. CASE CommandRan
    <2>1. (ToRun \cap 1 .. cmd - 1) \cup {cmd} = ToRun \cap 1 .. cmd' - 1
      BY <1>8 DEF CommandRan, CommandTurn
    <2>2. QED
      BY <1>8, <2>1 DEF CommandRan, CommandTurn
  <1>9. CASE CommandSkipped
    <2>1. ToRun \cap 1 .. cmd - 1 = ToRun \cap 1 .. cmd' - 1
      BY <1>9 DEF CommandSkipped, CommandTurn
    <2>2. QED
      BY <1>9, <2>1 DEF CommandSkipped, CommandTurn
  <1>10. CASE CommandPassed
    <2>1. succeeded \subseteq ToRun \cap 1 .. cmd' - 1
      BY <1>10 DEF CommandPassed, CommandTurn
    <2>2. ~(Budgeted /\ ~stop)
      BY <1>10, Zenon DEF CommandPassed
    <2>3. QED
      BY <1>10, <2>1, <2>2 DEF CommandPassed, CommandTurn
  <1>11. CASE CommandFatal
    BY <1>11 DEF CommandFatal, CommandTurn
  <1>12. CASE SetupDone
    BY <1>12 DEF SetupDone
  <1>13. CASE UNCHANGED lvars
    BY <1>13 DEF lvars
  <1>14. QED
    BY <1>1, <1>2, <1>3, <1>4, <1>5, <1>6, <1>7, <1>8, <1>9, <1>10, <1>11, <1>12, <1>13
       DEF Next, MainProgress, CommandProgress

(* Whatever the lengths of the server and command lists: commands begin    *)
(* only after every server has started, no server stops before the        *)
(* signal, Run returns only with every server stopped, and without a      *)
(* signal and with a positive budget the commands before the cursor that  *)
(* apply have all run.                                                    *)
THEOREM LifecycleSafe ==
  ASSUME NumCommands \in Nat, MaxServers \in Nat
  PROVE  SafetySpec => []LifecycleOrder
  BY LifecycleOrderInit, LifecycleOrderNext, PTL DEF SafetySpec

=============================================================================
