--------------------------- MODULE ServersProofs ---------------------------
(***************************************************************************)
(* Proofs about the supervisor model (module Servers) for every value of   *)
(* the constants allowed by ConstantsAssumption.                           *)
(***************************************************************************)
EXTENDS Servers, TLAPS

(***************************************************************************)
(* TypeOK alone is not inductive: RunCommand and RetryCheck index and      *)
(* increment cmdIdx, which is only a command index (not Len + 1) while the *)
(* goroutine is inside runCommand's retry loop.                            *)
(***************************************************************************)
TypeInv ==
    /\ TypeOK
    /\ cpc \in {"retry", "exec"} => cmdIdx \in CmdIds

LEMMA ConstantFacts ==
    /\ Len(ServerConfigs) \in Nat
    /\ Len(Commands) \in Nat
    /\ CommandRetries \in Nat
    /\ KillTimeout \in Nat
    /\ MaxChildren \in Nat
  BY ConstantsAssumption

LEMMA VIPManagerTyping == \A r \in Roles : AddVIPManager(r) \in Seq(ServerIds)
  <1> TAKE r \in Roles
  <1>1. r \in ServerIds
    BY DEF ServerIds
  <1>2. <<r>> \in Seq(ServerIds)
    BY <1>1
  <1>3. QED
    BY <1>2 DEF AddVIPManager

LEMMA TypeInvInit == Init => TypeInv
  <1> SUFFICES ASSUME Init PROVE TypeInv
    OBVIOUS
  <1>1. /\ servers \in Seq(ServerIds)
        /\ buildIdx \in 1 .. Len(ServerConfigs) + 1
        /\ startIdx \in 1 .. Len(servers) + 1
        /\ stopIdx \in 1 .. Len(servers) + 1
        /\ cmdIdx \in 1 .. Len(Commands) + 1
        /\ children \in 0 .. MaxChildren /\ killClock \in 0 .. KillTimeout
    BY ConstantFacts DEF Init
  <1>2. attempts \in [CmdIds -> Nat] /\ succeeded \subseteq CmdIds
    BY DEF Init, CmdIds
  <1>3. QED
    BY <1>1, <1>2 DEF Init, TypeInv, TypeOK

LEMMA TypeInvNext == TypeInv /\ [Next]_vars => TypeInv'
  <1> SUFFICES ASSUME TypeInv, [Next]_vars PROVE TypeInv'
    OBVIOUS
  <1> USE ConstantFacts DEF TypeInv, TypeOK, CmdIds
  <1>1. CASE ExtractEmbeddedFiles
    BY <1>1 DEF ExtractEmbeddedFiles, cmdVars, killVars
  <1>2. CASE BuildServer
    <2>1. buildIdx \in 1 .. Len(ServerConfigs)
      BY <1>2 DEF BuildServer
    <2>2. UNCHANGED <<extractFailed, startIdx, stopIdx, childrenKilled, stop, progress>>
          /\ UNCHANGED <<cmdVars, children, killClock>>
      BY <1>2 DEF BuildServer, killVars
    <2>3. CASE servers' = servers /\ buildIdx' = buildIdx + 1 /\ pc' = pc
      BY <2>1, <2>2, <2>3 DEF cmdVars
    <2>4. CASE servers' = Append(servers, buildIdx) /\ buildIdx' = buildIdx + 1 /\ pc' = pc
      <3>1. buildIdx \in ServerIds
        BY <2>1 DEF ServerIds
      <3>2. servers' \in Seq(ServerIds) /\ Len(servers') = Len(servers) + 1
        BY <2>4, <3>1
      <3>3. QED
        BY <2>1, <2>2, <2>4, <3>2 DEF cmdVars
    <2>5. CASE servers' = servers /\ buildIdx' = buildIdx /\ pc' = "failed"
      BY <2>1, <2>2, <2>5 DEF cmdVars
    <2>6. QED
      BY <1>2, <2>3, <2>4, <2>5 DEF BuildServer
  <1>3. CASE AddVIPManagers
    <2>1. servers' \in Seq(ServerIds)
      BY <1>3, VIPManagerTyping DEF AddVIPManagers, Roles
    <2>2. Len(servers') >= Len(servers)
      BY <1>3, VIPManagerTyping DEF AddVIPManagers, Roles
    <2>3. QED
      BY <1>3, <2>1, <2>2 DEF AddVIPManagers, cmdVars, killVars
  <1>4. CASE StartServer
    <2>1. /\ UNCHANGED <<extractFailed, servers, buildIdx, stopIdx, childrenKilled, stop>>
          /\ UNCHANGED <<cmdVars, children, killClock>>
          /\ startIdx <= Len(servers)
      BY <1>4 DEF StartServer, killVars
    <2>2. CASE startIdx' = startIdx + 1 /\ progress' = progress + 1 /\ pc' = pc
      BY <2>1, <2>2 DEF cmdVars
    <2>3. CASE pc' = "failed" /\ startIdx' = startIdx /\ progress' = progress
      BY <2>1, <2>3 DEF cmdVars
    <2>4. QED
      BY <1>4, <2>2, <2>3 DEF StartServer
  <1>5. CASE LaunchCommands
    BY <1>5 DEF LaunchCommands, killVars
  <1>6. CASE Signal
    BY <1>6 DEF Signal, cmdVars, killVars
  <1>7. CASE StopServer
    BY <1>7 DEF StopServer, cmdVars, killVars
  <1>8. CASE KillChildren
    BY <1>8 DEF KillChildren, cmdVars
  <1>15. CASE KillWait
    BY <1>15 DEF KillWait, cmdVars
  <1>16. CASE KillReturn
    <2>1. childrenKilled' \in BOOLEAN
      BY <1>16, Zenon DEF KillReturn
    <2>2. QED
      BY <1>16, <2>1 DEF KillReturn, cmdVars
  <1>17. CASE ChildExit
    BY <1>17 DEF ChildExit, cmdVars
  <1>9. CASE NextCommand
    <2>1. cmdIdx \in CmdIds
      BY <1>9 DEF NextCommand
    <2>2. UNCHANGED <<extractFailed, servers, buildIdx, startIdx, stopIdx, childrenKilled, stop>>
          /\ UNCHANGED <<attempts, succeeded, lateAttempts, children, killClock>>
      BY <1>9 DEF NextCommand, killVars
    <2>3. CASE cmdIdx' = cmdIdx + 1 /\ cpc' = "loop" /\ pc' = pc /\ progress' = progress + 1
               /\ UNCHANGED <<retries, cmdErr>>
      BY <2>1, <2>2, <2>3
    <2>4. CASE pc' = "exited" /\ cpc' = "fatal" /\ UNCHANGED <<cmdIdx, retries, cmdErr, progress>>
      BY <2>1, <2>2, <2>4
    <2>5. CASE cpc' = "retry" /\ retries' = 0 /\ cmdErr' = FALSE /\ UNCHANGED <<pc, cmdIdx, progress>>
      BY <2>1, <2>2, <2>5
    <2>6. QED
      BY <1>9, <2>3, <2>4, <2>5 DEF NextCommand
  <1>10. CASE SetupFinished
    BY <1>10 DEF SetupFinished, mainVars, killVars
  <1>11. CASE RetryCheck
    <2>1. cpc = "retry" /\ cmdIdx \in CmdIds
      BY <1>11 DEF RetryCheck
    <2>2. UNCHANGED <<extractFailed, servers, buildIdx, startIdx, stopIdx, childrenKilled, stop>>
          /\ UNCHANGED <<retries, cmdErr, attempts, succeeded, lateAttempts, children, killClock>>
      BY <1>11 DEF RetryCheck, killVars
    <2>3. CASE cpc' = "exec" /\ UNCHANGED <<pc, cmdIdx, progress>>
      BY <2>1, <2>2, <2>3
    <2>4. CASE pc' = "exited" /\ cpc' = "fatal" /\ UNCHANGED <<cmdIdx, progress>>
      BY <2>1, <2>2, <2>4
    <2>5. CASE cpc' = "loop" /\ cmdIdx' = cmdIdx + 1 /\ progress' = progress + 1 /\ UNCHANGED pc
      BY <2>1, <2>2, <2>5
    <2>6. QED
      BY <1>11, <2>3, <2>4, <2>5 DEF RetryCheck
  <1>12. CASE RunCommand
    <2>1. cpc = "exec" /\ cmdIdx \in CmdIds
      BY <1>12 DEF RunCommand
    <2>2. attempts' \in [CmdIds -> Nat] /\ lateAttempts' \in Nat
      <3>1. attempts' = [attempts EXCEPT ![cmdIdx] = @ + 1]
        BY <1>12 DEF RunCommand
      <3>2. lateAttempts' \in {lateAttempts, lateAttempts + 1}
        BY <1>12 DEF RunCommand
      <3>3. QED
        BY <2>1, <3>1, <3>2, SMTT(40)
    <2>3. /\ pc' = pc /\ extractFailed' = extractFailed /\ servers' = servers
          /\ buildIdx' = buildIdx /\ startIdx' = startIdx /\ stopIdx' = stopIdx
          /\ childrenKilled' = childrenKilled /\ stop' = stop
          /\ children' = children /\ killClock' = killClock
      BY <1>12 DEF RunCommand, mainVars, killVars
    <2>4. CASE cmdErr' = FALSE /\ succeeded' = succeeded \cup {cmdIdx}
               /\ cmdIdx' = cmdIdx + 1 /\ cpc' = "loop" /\ progress' = progress + 1
               /\ UNCHANGED retries
      <3>1. succeeded' \subseteq CmdIds /\ cmdIdx' \in 1 .. Len(Commands) + 1
        BY <2>1, <2>4
      <3>2. progress' \in Nat
        BY <2>4
      <3>3. QED
        BY <2>2, <2>3, <2>4, <3>1, <3>2, ZenonT(30)
    <2>5. CASE cmdErr' = TRUE /\ retries' = retries + 1 /\ cpc' = "retry"
               /\ UNCHANGED <<succeeded, cmdIdx, progress>>
      BY <2>1, <2>2, <2>3, <2>5
    <2>6. QED
      BY <1>12, <2>4, <2>5 DEF RunCommand
  <1>13. CASE UNCHANGED vars
    BY <1>13 DEF vars, mainVars, cmdVars, killVars
  <1>14. QED
    BY <1>1, <1>2, <1>3, <1>4, <1>5, <1>6, <1>7, <1>8, <1>9, <1>10,
       <1>11, <1>12, <1>13, <1>15, <1>16, <1>17 DEF Next, MainStep, CommandStep

(* The type invariant of the supervisor holds in every reachable state.    *)
THEOREM TypeCorrect == Spec => []TypeOK
  <1>1. Spec => []TypeInv
    BY TypeInvInit, TypeInvNext, PTL DEF Spec
  <1>2. QED
    BY <1>1, PTL DEF TypeInv

(***************************************************************************)
(* AttemptsAfterStopBounded.  The strengthening says why: a RunCommand     *)
(* call made while stop is set leaves the goroutine out of "exec", and     *)
(* RetryCheck re-enters "exec" only while stop is not set, which, stop     *)
(* never being reset, is never again.                                      *)
(***************************************************************************)
LateInv ==
    /\ lateAttempts \in {0, 1}
    /\ lateAttempts = 1 => stop = TRUE /\ cpc # "exec"

LEMMA LateInvNext == LateInv /\ [Next]_vars => LateInv'
  <1> SUFFICES ASSUME LateInv, [Next]_vars PROVE LateInv'
    OBVIOUS
  <1> USE DEF LateInv
  <1>1. CASE MainStep
    BY <1>1 DEF MainStep, ExtractEmbeddedFiles, BuildServer, AddVIPManagers,
       StartServer, LaunchCommands, StopServer, KillChildren, KillWait, KillReturn, cmdVars
  <1>9. CASE ChildExit
    BY <1>9 DEF ChildExit, cmdVars
  <1>2. CASE Signal
    BY <1>2 DEF Signal, cmdVars
  <1>3. CASE NextCommand
    BY <1>3 DEF NextCommand
  <1>4. CASE SetupFinished
    BY <1>4 DEF SetupFinished, mainVars
  <1>5. CASE RetryCheck
    BY <1>5 DEF RetryCheck
  <1>6. CASE RunCommand
    <2>1. lateAttempts = 0
      BY <1>6 DEF RunCommand
    <2>2. stop' = stop /\ cpc' \in {"loop", "retry"}
      BY <1>6 DEF RunCommand, mainVars
    <2>3. lateAttempts' = IF stop THEN 1 ELSE 0
      BY <1>6, <2>1 DEF RunCommand
    <2>4. QED
      BY <2>2, <2>3
  <1>7. CASE UNCHANGED vars
    BY <1>7 DEF vars, mainVars, cmdVars
  <1>8. QED
    BY <1>1, <1>2, <1>3, <1>4, <1>5, <1>6, <1>7, <1>9 DEF Next, CommandStep

(* Once the shutdown signal has set servers.stop, runCommand makes at most *)
(* one more call of utils.RunCommand, whatever the commands, their labels  *)
(* and the retry budget.                                                    *)
THEOREM StopBoundsAttempts == Spec => []AttemptsAfterStopBounded
  <1>1. Init => LateInv
    BY DEF Init, LateInv
  <1>2. LateInv => AttemptsAfterStopBounded
    BY DEF LateInv, AttemptsAfterStopBounded
  <1>3. QED
    BY <1>1, <1>2, LateInvNext, PTL DEF Spec

(***************************************************************************)
(* RetryBudget and SequentialDependency.  runCommand's loop counts its     *)
(* calls in retries, so while the goroutine is in the loop for command     *)
(* cmdIdx, retries is that command's number of calls; commands past        *)
(* cmdIdx have not been called yet.  Leaving the loop with err = nil       *)
(* before any call (retries = 0) needs a zero budget or stop, which is why *)
(* the ordering part holds only while stop is unset and the budget is      *)
(* positive; a zero budget allows no call at all.                          *)
(***************************************************************************)

\* The commands before k that apply to this node have all succeeded.
EarlierSucceeded(k) == \A d \in 1 .. k - 1 : Applicable(d) => d \in succeeded

\* Commands the goroutine has not reached have not been run.
CmdUnreached(c) == c > cmdIdx \/ (c = cmdIdx /\ cpc \in {"off", "loop"})

CmdCounted ==
    /\ \A c \in CmdIds : CmdUnreached(c) => attempts[c] = 0
    /\ cpc \in {"retry", "exec"} => attempts[cmdIdx] = retries /\ retries <= CommandRetries
    /\ cpc = "exec" => retries < CommandRetries
    /\ cpc = "fatal" => cmdIdx \in CmdIds

ErrState ==
    /\ cpc \in {"off", "loop"} => ~cmdErr
    /\ cpc = "retry" /\ ~cmdErr => retries = 0

\* Until Run launches the command goroutine, that goroutine does not exist.
Early == pc \in {"extract", "build", "start"}
NotLaunched == Early => cpc = "off"

BudgetInv == TypeInv /\ NotLaunched /\ CmdCounted /\ ErrState /\ RetryBudget

\* The command in runCommand applies to this node; the one being run comes
\* after every earlier applicable command succeeded; so does the next one
\* to be tried, unless stop has cut a retry loop short or the budget is 0.
ExecApplicable == cpc \in {"retry", "exec"} => Applicable(cmdIdx)
ExecOrdered == cpc = "exec" => EarlierSucceeded(cmdIdx)
LoopOrdered ==
    (cpc \in {"off", "loop", "retry"} /\ ~stop /\ CommandRetries > 0)
        => EarlierSucceeded(cmdIdx)

OrderInv ==
    /\ BudgetInv
    /\ ExecApplicable /\ ExecOrdered /\ LoopOrdered
    /\ SequentialDependency

\* RetryBudget's two conjuncts.
AttemptsBounded == \A c \in CmdIds : attempts[c] <= CommandRetries
FatalAtBudget == (cpc = "fatal" /\ cmdErr /\ ~stop) => attempts[cmdIdx] = CommandRetries

BudgetParts == CmdCounted /\ ErrState /\ AttemptsBounded /\ FatalAtBudget

LEMMA BudgetPartsDef == BudgetInv <=> TypeInv /\ NotLaunched /\ BudgetParts
  BY DEF BudgetInv, BudgetParts, RetryBudget, AttemptsBounded, FatalAtBudget

\* Steps of the main goroutine: the command state is untouched and stop can
\* only be set.
LEMMA BudgetFrame ==
  ASSUME BudgetInv, UNCHANGED cmdVars, stop' = stop \/ stop' = TRUE
  PROVE  BudgetParts'
  <1>1. CmdCounted' /\ ErrState' /\ AttemptsBounded'
    BY BudgetPartsDef DEF BudgetParts, CmdCounted, ErrState, CmdUnreached, cmdVars,
       AttemptsBounded
  <1>2. FatalAtBudget'
    BY BudgetPartsDef, Zenon DEF BudgetParts, FatalAtBudget, cmdVars
  <1>3. QED
    BY <1>1, <1>2 DEF BudgetParts

\* The main goroutine's steps, but for the one that launches the command
\* goroutine, leave that goroutine and stop alone.
LEMMA MainStepFrame ==
  MainStep => LaunchCommands \/ (UNCHANGED cmdVars /\ stop' = stop)
  <1> SUFFICES ASSUME MainStep, ~LaunchCommands PROVE UNCHANGED cmdVars /\ stop' = stop
    OBVIOUS
  <1>1. CASE ExtractEmbeddedFiles \/ BuildServer \/ AddVIPManagers
    BY <1>1, Zenon DEF ExtractEmbeddedFiles, BuildServer, AddVIPManagers
  <1>2. CASE StartServer
    BY <1>2 DEF StartServer, killVars
  <1>6. CASE StopServer
    BY <1>6 DEF StopServer, killVars
  <1>3. CASE KillChildren \/ KillWait \/ KillReturn
    BY <1>3, Zenon DEF KillChildren, KillWait, KillReturn
  <1>4. QED
    BY <1>1, <1>2, <1>3, <1>6 DEF MainStep

\* Only LaunchCommands leaves the start-up phase with a command goroutine;
\* every other step that ends in it began in it, and the goroutine's own
\* steps need a live process past start-up.
LEMMA NotLaunchedNext == NotLaunched /\ [Next]_vars => NotLaunched'
  <1> SUFFICES ASSUME NotLaunched, [Next]_vars, Early' PROVE cpc' = "off"
    BY DEF NotLaunched
  <1>1. CASE ExtractEmbeddedFiles \/ BuildServer \/ AddVIPManagers \/ StartServer
    <2>1. Early
      BY <1>1 DEF ExtractEmbeddedFiles, BuildServer, AddVIPManagers, StartServer, Early
    <2>2. UNCHANGED cmdVars
      BY <1>1, MainStepFrame DEF MainStep, ExtractEmbeddedFiles, BuildServer,
         AddVIPManagers, StartServer, LaunchCommands
    <2>3. QED
      BY <2>1, <2>2 DEF NotLaunched, cmdVars
  <1>2. CASE LaunchCommands \/ StopServer \/ KillChildren \/ KillWait \/ KillReturn
             \/ Signal \/ ChildExit
    <2>1. pc' \in {"wait", "stopping", "killing", "returned"}
      BY <1>2 DEF LaunchCommands, StopServer, KillChildren, KillWait, KillReturn,
         Signal, ChildExit
    <2>2. QED
      BY <2>1 DEF Early
  <1>3. CASE CommandStep
    <2>1. Alive /\ (pc' = pc \/ pc' = "exited")
      BY <1>3 DEF CommandStep, NextCommand, SetupFinished, RetryCheck, RunCommand, mainVars
    <2>2. QED
      BY <2>1 DEF Alive, Early
  <1>4. CASE UNCHANGED vars
    BY <1>4 DEF vars, cmdVars, mainVars, NotLaunched, Early
  <1>5. QED
    BY <1>1, <1>2, <1>3, <1>4 DEF Next, MainStep

LEMMA BudgetNext == BudgetInv /\ [Next]_vars => BudgetInv'
  <1> SUFFICES ASSUME BudgetInv, [Next]_vars PROVE BudgetInv'
    OBVIOUS
  <1>0. TypeInv' /\ NotLaunched'
    BY TypeInvNext, NotLaunchedNext DEF BudgetInv
  <1> SUFFICES BudgetParts'
    BY <1>0 DEF BudgetInv, BudgetParts, RetryBudget, AttemptsBounded, FatalAtBudget
  <1>1. TypeOK /\ NotLaunched /\ BudgetParts
    BY BudgetPartsDef DEF TypeInv
  <1>a. CommandRetries \in Nat /\ Len(Commands) \in Nat
    BY ConstantFacts
  <1>2. CASE MainStep /\ ~LaunchCommands
    BY <1>2, MainStepFrame, BudgetFrame
  <1>9. CASE LaunchCommands
    <2>1. cpc = "off"
      BY <1>1, <1>9 DEF LaunchCommands, NotLaunched, Early
    <2>2. cpc' = "loop" /\ UNCHANGED <<cmdIdx, retries, cmdErr, attempts, stop>>
      BY <1>9 DEF LaunchCommands
    <2>3. QED
      BY <1>1, <2>1, <2>2 DEF BudgetParts, CmdCounted, ErrState, CmdUnreached,
         AttemptsBounded, FatalAtBudget
  <1>3. CASE Signal \/ ChildExit \/ UNCHANGED vars
    <2>1. UNCHANGED cmdVars /\ (stop' = stop \/ stop' = TRUE)
      BY <1>3, Zenon DEF Signal, ChildExit, vars, mainVars
    <2>2. QED
      BY <2>1, BudgetFrame
  <1>4. CASE NextCommand
    <2>0. /\ cpc = "loop" /\ cmdIdx <= Len(Commands)
          /\ UNCHANGED <<attempts, succeeded, stop>>
      BY <1>4, Zenon DEF NextCommand
    <2>a. cmdIdx \in CmdIds
      BY <1>1, <1>a, <2>0 DEF TypeOK, CmdIds
    <2>b. ~cmdErr
      BY <1>1, <2>0, Zenon DEF BudgetParts, ErrState
    <2>c. attempts[cmdIdx] = 0
      BY <1>1, <2>0, <2>a DEF BudgetParts, CmdCounted, CmdUnreached
    <2>1. cmdIdx \in CmdIds /\ ~cmdErr /\ attempts[cmdIdx] = 0
      BY <2>a, <2>b, <2>c
    <2>2. CASE cmdIdx' = cmdIdx + 1 /\ UNCHANGED <<cpc, retries, cmdErr>>
      <3>1. CmdCounted'
        BY <1>1, <2>0, <2>1, <2>2 DEF TypeOK, BudgetParts, CmdCounted, CmdUnreached
      <3>2. ErrState' /\ AttemptsBounded' /\ FatalAtBudget'
        BY <1>1, <2>0, <2>1, <2>2 DEF BudgetParts, ErrState, AttemptsBounded, FatalAtBudget
      <3>3. QED
        BY <3>1, <3>2 DEF BudgetParts
    <2>3. CASE cpc' = "fatal" /\ UNCHANGED <<cmdIdx, retries, cmdErr>>
      <3>1. CmdCounted'
        BY <1>1, <2>0, <2>1, <2>3 DEF TypeOK, BudgetParts, CmdCounted, CmdUnreached
      <3>2. ErrState' /\ AttemptsBounded' /\ FatalAtBudget'
        BY <1>1, <2>0, <2>1, <2>3 DEF BudgetParts, ErrState, AttemptsBounded, FatalAtBudget
      <3>3. QED
        BY <3>1, <3>2 DEF BudgetParts
    <2>4. CASE cpc' = "retry" /\ retries' = 0 /\ cmdErr' = FALSE /\ UNCHANGED cmdIdx
      <3>1. CmdCounted'
        BY <1>1, <1>a, <2>0, <2>1, <2>4 DEF TypeOK, BudgetParts, CmdCounted, CmdUnreached
      <3>2. ErrState' /\ AttemptsBounded' /\ FatalAtBudget'
        BY <1>1, <2>0, <2>1, <2>4 DEF BudgetParts, ErrState, AttemptsBounded, FatalAtBudget
      <3>3. QED
        BY <3>1, <3>2 DEF BudgetParts
    <2>5. QED
      BY <1>4, <2>2, <2>3, <2>4, Zenon DEF NextCommand
  <1>5. CASE SetupFinished
    <2>1. cpc = "loop" /\ cpc' = "finished" /\ UNCHANGED <<cmdIdx, retries, cmdErr, attempts, stop>>
      BY <1>5 DEF SetupFinished, mainVars
    <2>2. QED
      BY <1>1, <2>1 DEF BudgetParts, CmdCounted, ErrState, CmdUnreached, AttemptsBounded,
         FatalAtBudget
  <1>6. CASE RetryCheck
    <2>0. /\ cpc = "retry"
          /\ UNCHANGED <<attempts, succeeded, stop, retries, cmdErr>>
      BY <1>6, Zenon DEF RetryCheck
    <2>1. cmdIdx \in CmdIds /\ attempts[cmdIdx] = retries /\ retries <= CommandRetries
          /\ retries \in Nat
      BY <1>1, <2>0 DEF TypeOK, TypeInv, BudgetInv, BudgetParts, CmdCounted
    <2>2. CASE retries < CommandRetries /\ cpc' = "exec" /\ UNCHANGED cmdIdx
      <3>1. CmdCounted'
        BY <1>1, <2>0, <2>1, <2>2 DEF TypeOK, BudgetParts, CmdCounted, CmdUnreached
      <3>2. ErrState' /\ AttemptsBounded' /\ FatalAtBudget'
        BY <1>1, <2>0, <2>1, <2>2 DEF BudgetParts, ErrState, AttemptsBounded, FatalAtBudget
      <3>3. QED
        BY <3>1, <3>2 DEF BudgetParts
    <2>3. CASE (retries >= CommandRetries \/ stop) /\ cmdErr /\ cpc' = "fatal"
               /\ UNCHANGED cmdIdx
      <3>1. ~stop => retries >= CommandRetries
        BY <2>3, Zenon
      <3>2. ~stop => attempts[cmdIdx] = CommandRetries
        BY <1>a, <2>1, <3>1
      <3>3. FatalAtBudget'
        BY <2>0, <2>3, <3>2, Zenon DEF FatalAtBudget
      <3>4. CmdCounted'
        BY <1>1, <2>0, <2>1, <2>3 DEF TypeOK, BudgetParts, CmdCounted, CmdUnreached
      <3>5. ErrState' /\ AttemptsBounded'
        BY <1>1, <2>0, <2>3 DEF BudgetParts, ErrState, AttemptsBounded
      <3>6. QED
        BY <3>3, <3>4, <3>5 DEF BudgetParts
    <2>4. CASE ~cmdErr /\ cpc' = "loop" /\ cmdIdx' = cmdIdx + 1
      <3>1. CmdCounted'
        BY <1>1, <2>0, <2>1, <2>4 DEF TypeOK, BudgetParts, CmdCounted, CmdUnreached
      <3>2. ErrState' /\ AttemptsBounded' /\ FatalAtBudget'
        BY <1>1, <2>0, <2>4 DEF BudgetParts, ErrState, AttemptsBounded, FatalAtBudget
      <3>3. QED
        BY <3>1, <3>2 DEF BudgetParts
    <2>5. QED
      BY <1>6, <2>2, <2>3, <2>4, Zenon DEF RetryCheck
  <1>7. CASE RunCommand
    <2>0. /\ cpc = "exec"
          /\ attempts' = [attempts EXCEPT ![cmdIdx] = @ + 1]
          /\ stop' = stop
      BY <1>7, Zenon DEF RunCommand, mainVars
    <2>1. /\ cmdIdx \in CmdIds /\ attempts[cmdIdx] = retries /\ retries < CommandRetries
          /\ retries \in Nat
      BY <1>1, <2>0 DEF TypeOK, TypeInv, BudgetInv, BudgetParts, CmdCounted
    <2>2. /\ attempts'[cmdIdx] = retries + 1
          /\ \A c \in CmdIds \ {cmdIdx} : attempts'[c] = attempts[c]
      BY <1>1, <2>0, <2>1 DEF TypeOK
    <2>3. AttemptsBounded'
      BY <1>1, <1>a, <2>1, <2>2 DEF BudgetParts, AttemptsBounded
    <2>4. CASE cmdErr' = FALSE /\ cmdIdx' = cmdIdx + 1 /\ cpc' = "loop"
      <3>1. CmdCounted'
        BY <1>1, <2>1, <2>2, <2>4 DEF TypeOK, BudgetParts, CmdCounted, CmdUnreached
      <3>2. ErrState' /\ FatalAtBudget'
        BY <2>4 DEF ErrState, FatalAtBudget
      <3>3. QED
        BY <2>3, <3>1, <3>2 DEF BudgetParts
    <2>5. CASE cmdErr' = TRUE /\ retries' = retries + 1 /\ cpc' = "retry"
               /\ cmdIdx' = cmdIdx
      <3>1. CmdCounted'
        BY <1>1, <1>a, <2>1, <2>2, <2>5 DEF TypeOK, BudgetParts, CmdCounted, CmdUnreached
      <3>2. ErrState' /\ FatalAtBudget'
        BY <2>5 DEF ErrState, FatalAtBudget
      <3>3. QED
        BY <2>3, <3>1, <3>2 DEF BudgetParts
    <2>6. QED
      BY <1>7, <2>4, <2>5, Zenon DEF RunCommand
  <1>8. QED
    BY <1>2, <1>3, <1>4, <1>5, <1>6, <1>7, <1>9 DEF Next, CommandStep

(* runCommand never calls utils.RunCommand more than commandRetries times  *)
(* for one command, and a log.Fatal not caused by a shutdown comes only    *)
(* after exactly commandRetries failed calls, for every budget, command    *)
(* list and node.                                                           *)
THEOREM RetryBudgetHolds == Spec => []RetryBudget
  <1>1. Init => BudgetInv
    <2> SUFFICES ASSUME Init PROVE BudgetInv
      OBVIOUS
    <2>1. TypeInv
      BY TypeInvInit
    <2>2. BudgetParts /\ NotLaunched
      BY ConstantFacts DEF Init, NotLaunched, BudgetParts, CmdCounted, ErrState, CmdUnreached,
         AttemptsBounded, FatalAtBudget
    <2>3. QED
      BY <2>1, <2>2, BudgetPartsDef
  <1>2. QED
    BY <1>1, BudgetNext, PTL DEF Spec, BudgetInv

LEMMA OrderNext == OrderInv /\ [Next]_vars => OrderInv'
  <1> SUFFICES ASSUME OrderInv, [Next]_vars PROVE OrderInv'
    OBVIOUS
  <1>0. BudgetInv'
    BY BudgetNext DEF OrderInv
  <1> SUFFICES (ExecApplicable /\ ExecOrdered /\ LoopOrdered /\ SequentialDependency)'
    BY <1>0 DEF OrderInv
  <1>1. /\ TypeOK /\ NotLaunched /\ BudgetParts
        /\ ExecApplicable /\ ExecOrdered /\ LoopOrdered /\ SequentialDependency
    BY BudgetPartsDef DEF OrderInv, TypeInv
  <1>a. CommandRetries \in Nat /\ Len(Commands) \in Nat
    BY ConstantFacts
  <1>2. CASE (MainStep /\ ~LaunchCommands) \/ Signal \/ ChildExit \/ UNCHANGED vars
    <2>1. UNCHANGED cmdVars /\ (stop' = stop \/ stop' = TRUE)
      <3>1. CASE MainStep /\ ~LaunchCommands
        BY <3>1, MainStepFrame
      <3>2. CASE Signal \/ ChildExit \/ UNCHANGED vars
        BY <3>2, Zenon DEF Signal, ChildExit, vars, mainVars
      <3>3. QED
        BY <1>2, <3>1, <3>2
    <2>2. (ExecApplicable /\ ExecOrdered /\ SequentialDependency)'
      BY <1>1, <2>1 DEF ExecApplicable, ExecOrdered, SequentialDependency,
         EarlierSucceeded, cmdVars
    <2>3. LoopOrdered'
      <3>1. CASE stop' = TRUE
        BY <3>1 DEF LoopOrdered
      <3>2. CASE stop' = stop
        BY <1>1, <2>1, <3>2 DEF LoopOrdered, EarlierSucceeded, cmdVars
      <3>3. QED
        BY <2>1, <3>1, <3>2
    <2>4. QED
      BY <2>2, <2>3
  <1>3. CASE LaunchCommands
    <2>1. cpc = "off" /\ cpc' = "loop"
          /\ UNCHANGED <<cmdIdx, retries, cmdErr, attempts, succeeded, stop>>
      BY <1>1, <1>3 DEF LaunchCommands, NotLaunched, Early
    <2>2. QED
      BY <1>1, <2>1 DEF ExecApplicable, ExecOrdered, LoopOrdered, SequentialDependency,
         EarlierSucceeded
  <1>4. CASE NextCommand
    <2>0. /\ cpc = "loop" /\ cmdIdx <= Len(Commands)
          /\ UNCHANGED <<attempts, succeeded, stop>>
      BY <1>4, Zenon DEF NextCommand
    <2>1. cmdIdx \in CmdIds
      BY <1>1, <1>a, <2>0 DEF TypeOK, CmdIds
    <2>2. SequentialDependency'
      BY <1>1, <2>0 DEF SequentialDependency
    <2>3. CASE ~Applicable(cmdIdx) /\ cmdIdx' = cmdIdx + 1 /\ cpc' = cpc
      BY <1>1, <2>0, <2>1, <2>2, <2>3 DEF TypeOK, ExecApplicable, ExecOrdered,
         LoopOrdered, EarlierSucceeded
    <2>4. CASE cpc' = "fatal"
      BY <2>2, <2>4 DEF ExecApplicable, ExecOrdered, LoopOrdered
    <2>5. CASE Applicable(cmdIdx) /\ cpc' = "retry" /\ cmdIdx' = cmdIdx
      BY <1>1, <2>0, <2>2, <2>5 DEF ExecApplicable, ExecOrdered, LoopOrdered,
         EarlierSucceeded
    <2>6. QED
      BY <1>4, <2>3, <2>4, <2>5, Zenon DEF NextCommand
  <1>5. CASE SetupFinished
    <2>1. cpc' = "finished" /\ UNCHANGED <<attempts, succeeded>>
      BY <1>5 DEF SetupFinished
    <2>2. QED
      BY <1>1, <2>1 DEF ExecApplicable, ExecOrdered, LoopOrdered, SequentialDependency
  <1>6. CASE RetryCheck
    <2>0. /\ cpc = "retry"
          /\ UNCHANGED <<attempts, succeeded, stop, retries, cmdErr>>
      BY <1>6, Zenon DEF RetryCheck
    <2>1. retries \in Nat /\ (~cmdErr => retries = 0) /\ Applicable(cmdIdx)
      BY <1>1, <2>0 DEF TypeOK, BudgetParts, ErrState, ExecApplicable
    <2>2. SequentialDependency'
      BY <1>1, <2>0 DEF SequentialDependency
    <2>3. CASE retries < CommandRetries /\ ~stop /\ cpc' = "exec" /\ cmdIdx' = cmdIdx
      <3>1. CommandRetries > 0
        BY <2>1, <2>3, <1>a
      <3>2. EarlierSucceeded(cmdIdx)
        BY <1>1, <2>0, <2>3, <3>1 DEF LoopOrdered
      <3>3. QED
        BY <2>0, <2>1, <2>2, <2>3, <3>2 DEF ExecApplicable, ExecOrdered, LoopOrdered,
           EarlierSucceeded
    <2>4. CASE cpc' = "fatal"
      BY <2>2, <2>4 DEF ExecApplicable, ExecOrdered, LoopOrdered
    <2>5. CASE (retries >= CommandRetries \/ stop) /\ ~cmdErr /\ cpc' = "loop"
      <3>1. ~stop => ~(CommandRetries > 0)
        <4>1. ~stop => retries >= CommandRetries
          BY <2>5, Zenon
        <4>2. QED
          BY <1>a, <2>1, <2>5, <4>1
      <3>2. LoopOrdered'
        BY <2>0, <3>1, Zenon DEF LoopOrdered
      <3>3. QED
        BY <2>2, <2>5, <3>2 DEF ExecApplicable, ExecOrdered
    <2>6. QED
      BY <1>6, <2>3, <2>4, <2>5, Zenon DEF RetryCheck
  <1>7. CASE RunCommand
    <2>0. /\ cpc = "exec"
          /\ attempts' = [attempts EXCEPT ![cmdIdx] = @ + 1]
          /\ stop' = stop
      BY <1>7, Zenon DEF RunCommand, mainVars
    <2>1. /\ cmdIdx \in CmdIds /\ Applicable(cmdIdx) /\ EarlierSucceeded(cmdIdx)
      BY <1>1, <2>0 DEF OrderInv, TypeInv, BudgetInv, ExecApplicable, ExecOrdered
    <2>2. succeeded \subseteq succeeded'
      BY <1>7 DEF RunCommand
    <2>4. SequentialDependency'
      BY <1>1, <2>0, <2>1, <2>2 DEF TypeOK, SequentialDependency, EarlierSucceeded
    <2>5. CASE succeeded' = succeeded \cup {cmdIdx} /\ cmdIdx' = cmdIdx + 1 /\ cpc' = "loop"
      BY <1>1, <2>1, <2>4, <2>5 DEF TypeOK, ExecApplicable, ExecOrdered, LoopOrdered,
         EarlierSucceeded
    <2>6. CASE succeeded' = succeeded /\ cmdIdx' = cmdIdx /\ cpc' = "retry"
      BY <2>1, <2>4, <2>6 DEF ExecApplicable, ExecOrdered, LoopOrdered, EarlierSucceeded
    <2>7. QED
      BY <1>7, <2>5, <2>6, Zenon DEF RunCommand
  <1>8. QED
    BY <1>2, <1>3, <1>4, <1>5, <1>6, <1>7 DEF Next, CommandStep

LEMMA OrderInvInit == Init => OrderInv
  <1> SUFFICES ASSUME Init PROVE OrderInv
    OBVIOUS
  <1>1. BudgetInv
    BY BudgetPartsDef, TypeInvInit, ConstantFacts DEF Init, NotLaunched, BudgetParts,
       CmdCounted, ErrState, CmdUnreached, AttemptsBounded, FatalAtBudget
  <1>2. QED
    BY <1>1 DEF Init, OrderInv, ExecApplicable, ExecOrdered, LoopOrdered,
       SequentialDependency, EarlierSucceeded

(* The command goroutine runs a command only when it applies to the node   *)
(* and every earlier applicable command has succeeded, for every command   *)
(* list, node and retry budget, and whenever the shutdown signal comes.    *)
THEOREM OrderHolds == Spec => []SequentialDependency
  BY OrderInvInit, OrderNext, PTL DEF Spec, OrderInv


(***************************************************************************)
(* Servers implements the abstract lifecycle (ServersLifecycle).  Besides  *)
(* OrderInv, the step mapping needs two facts of the main goroutine: the   *)
(* kill begins only once the stop loop has passed every server, and while *)
(* the list is being made it holds at most one server per config examined *)
(* (so the finished list, with its two VIP managers at most, is no longer *)
(* than the abstract bound).                                              *)
(***************************************************************************)
KillAfterStops == pc \in {"killing", "returned"} => stopIdx > Len(servers)
ListBound == pc \in {"extract", "build"} => Len(servers) <= buildIdx - 1
LifeFacts == KillAfterStops /\ ListBound

LEMMA LifeFactsNext == TypeInv /\ LifeFacts /\ [Next]_vars => LifeFacts'
  <1> SUFFICES ASSUME TypeInv, LifeFacts, [Next]_vars PROVE LifeFacts'
    OBVIOUS
  <1> USE ConstantFacts DEF TypeInv, TypeOK, LifeFacts, KillAfterStops, ListBound
  <1>1. CASE BuildServer
    <2>1. CASE servers' = servers /\ buildIdx' = buildIdx + 1 /\ pc' = pc
      BY <1>1, <2>1 DEF BuildServer
    <2>2. CASE servers' = Append(servers, buildIdx) /\ buildIdx' = buildIdx + 1 /\ pc' = pc
      BY <1>1, <2>2 DEF BuildServer
    <2>3. CASE pc' = "failed"
      BY <2>3
    <2>4. QED
      BY <1>1, <2>1, <2>2, <2>3, Zenon DEF BuildServer
  <1>2. CASE KillChildren
    BY <1>2 DEF KillChildren
  <1>3. CASE ExtractEmbeddedFiles \/ AddVIPManagers \/ StartServer \/ LaunchCommands
             \/ Signal \/ StopServer
    <2>1. pc' \in {"build", "start", "failed", "wait", "stopping"}
          /\ (pc' = "build" => UNCHANGED <<servers, buildIdx>> /\ pc = "extract")
      BY <1>3, Zenon DEF ExtractEmbeddedFiles, AddVIPManagers, StartServer, LaunchCommands,
         Signal, StopServer
    <2>2. QED
      BY <2>1
  <1>4. CASE KillWait \/ KillReturn \/ ChildExit
    <2>1. pc = "killing" /\ pc' \in {"killing", "returned"} /\ UNCHANGED <<servers, stopIdx>>
      BY <1>4 DEF KillWait, KillReturn, ChildExit
    <2>2. QED
      BY <2>1
  <1>5. CASE CommandStep
    <2>1. UNCHANGED <<servers, stopIdx, buildIdx>> /\ (pc' = pc \/ pc' = "exited")
      BY <1>5, Zenon DEF CommandStep, NextCommand, SetupFinished, RetryCheck, RunCommand,
         mainVars
    <2>2. QED
      BY <2>1
  <1>6. CASE UNCHANGED vars
    BY <1>6 DEF vars, mainVars
  <1>7. QED
    BY <1>1, <1>2, <1>3, <1>4, <1>5, <1>6 DEF Next, MainStep

LEMMA LifeBarValues ==
    /\ pc \in {"extract", "build"} => LifeBar = "init"
    /\ pc = "start" => LifeBar = "starting"
    /\ pc = "wait" => LifeBar = "running"
    /\ pc \in {"stopping", "killing"} => LifeBar = "stopping"
    /\ pc = "returned" => LifeBar = "stopped"
    /\ pc \in {"failed", "exited"} => LifeBar = pc
  BY DEF LifeBar

LEMMA LifeBarValuesPrimed ==
    /\ pc' \in {"extract", "build"} => LifeBar' = "init"
    /\ pc' = "start" => LifeBar' = "starting"
    /\ pc' = "wait" => LifeBar' = "running"
    /\ pc' \in {"stopping", "killing"} => LifeBar' = "stopping"
    /\ pc' = "returned" => LifeBar' = "stopped"
    /\ pc' \in {"failed", "exited"} => LifeBar' = pc'
  BY DEF LifeBar

LEMMA CmdLifeBarValues ==
    /\ cpc = "off" => CmdLifeBar = "idle"
    /\ cpc \in {"loop", "retry", "exec"} => CmdLifeBar = "active"
    /\ cpc \in {"finished", "fatal"} => CmdLifeBar = cpc
    /\ cpc' = "off" => CmdLifeBar' = "idle"
    /\ cpc' \in {"loop", "retry", "exec"} => CmdLifeBar' = "active"
    /\ cpc' \in {"finished", "fatal"} => CmdLifeBar' = cpc'
  BY DEF CmdLifeBar

\* A list of servers no longer than the abstract bound is one of its lists.
LEMMA ListsMember ==
  ASSUME NEW l \in Seq(ServerIds), Len(l) <= Len(ServerConfigs) + 2
  PROVE  l \in Life!Lists
  <1>1. l \in [1 .. Len(l) -> ServerIds] /\ Len(l) \in 0 .. Len(ServerConfigs) + 2
    BY ConstantFacts
  <1>2. QED
    BY <1>1 DEF Life!Lists


\* Run starts where the abstract lifecycle starts.
LEMMA LifeInit == Init => Life!Init
  <1> SUFFICES ASSUME Init PROVE Life!Init
    OBVIOUS
  <1>1. LifeBar = "init" /\ CmdLifeBar = "idle"
    BY LifeBarValues, CmdLifeBarValues DEF Init
  <1>2. QED
    BY <1>1 DEF Init, Life!Init

\* Every step of Run or of the command goroutine is a step of the abstract
\* lifecycle or leaves what it shows unchanged.
LEMMA LifeStep == OrderInv /\ LifeFacts /\ [Next]_vars => [Life!Next]_Life!lvars
  <1> SUFFICES ASSUME OrderInv, LifeFacts, [Next]_vars PROVE [Life!Next]_Life!lvars
    OBVIOUS
  <1> USE ConstantFacts
  <1>0. /\ TypeOK /\ NotLaunched /\ ErrState /\ ExecApplicable
        /\ (cpc \in {"retry", "exec"} => cmdIdx \in CmdIds)
        /\ KillAfterStops /\ ListBound
    BY DEF OrderInv, BudgetInv, TypeInv, LifeFacts
  \* The extraction, the skipped configs, the kill wait, the retry loop.
  <1>s. ASSUME UNCHANGED <<servers, startIdx, stopIdx, stop, cmdIdx, succeeded>>,
               LifeBar' = LifeBar, CmdLifeBar' = CmdLifeBar
        PROVE  UNCHANGED Life!lvars
    BY <1>s DEF Life!lvars
  \* The main goroutine: the command state and stop are left alone.
  <1>m. ASSUME UNCHANGED <<cpc, cmdIdx, succeeded>>
        PROVE  CmdLifeBar' = CmdLifeBar
    BY <1>m DEF CmdLifeBar
  \* Making the list or starting a server fails: Run returns the error.
  <1>f. ASSUME pc \in {"build", "start"}, pc' = "failed",
               UNCHANGED <<servers, startIdx, stopIdx, stop, cpc, cmdIdx, succeeded>>
        PROVE  Life!Next
    <2>1. LifeBar \in {"init", "starting"} /\ LifeBar' = "failed"
      BY <1>f, LifeBarValues, LifeBarValuesPrimed
    <2>2. Life!Fail
      BY <1>f, <1>m, <2>1 DEF Life!Fail
    <2>3. QED
      BY <2>2 DEF Life!Next, Life!MainProgress
  <1>1. CASE ExtractEmbeddedFiles
    <2>1. pc = "extract" /\ pc' = "build"
          /\ UNCHANGED <<servers, startIdx, stopIdx, stop, cpc, cmdIdx, succeeded>>
      BY <1>1 DEF ExtractEmbeddedFiles, cmdVars
    <2>2. LifeBar' = LifeBar
      BY <2>1, LifeBarValues, LifeBarValuesPrimed
    <2>3. QED
      BY <2>1, <2>2, <1>m, <1>s
  <1>2. CASE BuildServer
    <2>1. pc = "build" /\ buildIdx <= Len(ServerConfigs)
          /\ UNCHANGED <<startIdx, stopIdx, stop, cpc, cmdIdx, succeeded>>
      BY <1>2 DEF BuildServer, cmdVars
    <2>2. LifeBar = "init"
      BY <2>1, LifeBarValues
    <2>3. CASE servers' = servers /\ pc' = pc
      BY <2>1, <2>3, <1>m, <1>s DEF LifeBar
    <2>4. CASE servers' = Append(servers, buildIdx) /\ pc' = pc
      <3>1. servers' \in Seq(ServerIds) /\ Len(servers') <= Len(ServerConfigs) + 2
        <4>1. buildIdx \in ServerIds /\ Len(servers) <= buildIdx - 1
          BY <1>0, <2>1 DEF TypeOK, ServerIds, ListBound
        <4>2. QED
          BY <1>0, <2>1, <2>4, <4>1 DEF TypeOK
      <3>2. servers' \in Life!Lists
        BY <3>1, ListsMember
      <3>3. Life!Register
        BY <2>1, <2>2, <2>4, <3>2, <1>m DEF Life!Register, LifeBar
      <3>4. QED
        BY <3>3 DEF Life!Next
    <2>5. CASE servers' = servers /\ pc' = "failed"
      BY <2>1, <2>5, <1>f
    <2>6. QED
      BY <1>2, <2>3, <2>4, <2>5, Zenon DEF BuildServer
  <1>3. CASE AddVIPManagers
    <2>1. pc = "build" /\ pc' = "start" /\ buildIdx > Len(ServerConfigs)
          /\ UNCHANGED <<startIdx, stopIdx, stop, cpc, cmdIdx, succeeded>>
      BY <1>3 DEF AddVIPManagers, cmdVars
    <2>2. LifeBar = "init" /\ LifeBar' = "starting"
      BY <2>1, LifeBarValues, LifeBarValuesPrimed
    <2>3. servers' \in Seq(ServerIds) /\ Len(servers') <= Len(servers) + 2
      <3>1. \A r \in Roles : Len(AddVIPManager(r)) <= 1
        BY DEF AddVIPManager
      <3>2. QED
        BY <1>0, <1>3, <3>1, VIPManagerTyping DEF AddVIPManagers, Roles, TypeOK
    <2>4. Len(servers) <= Len(ServerConfigs)
      BY <1>0, <2>1 DEF ListBound, TypeOK
    <2>5. servers' \in Life!Lists
      BY <2>3, <2>4, ListsMember
    <2>6. Life!Ready
      BY <2>1, <2>2, <2>5, <1>m DEF Life!Ready
    <2>7. QED
      BY <2>6 DEF Life!Next, Life!MainProgress
  <1>4. CASE StartServer
    <2>1. pc = "start" /\ startIdx <= Len(servers)
          /\ UNCHANGED <<servers, stopIdx, stop, cpc, cmdIdx, succeeded>>
      BY <1>4 DEF StartServer, cmdVars
    <2>2. CASE startIdx' = startIdx + 1 /\ pc' = pc
      <3>1. LifeBar = "starting" /\ LifeBar' = "starting"
        BY <2>1, <2>2, LifeBarValues, LifeBarValuesPrimed
      <3>2. Life!StartNext
        BY <1>0, <2>1, <2>2, <3>1, <1>m DEF Life!StartNext, TypeOK
      <3>3. QED
        BY <3>2 DEF Life!Next, Life!MainProgress
    <2>3. CASE pc' = "failed" /\ startIdx' = startIdx
      BY <2>1, <2>3, <1>f
    <2>4. QED
      BY <1>4, <2>2, <2>3, Zenon DEF StartServer
  <1>5. CASE LaunchCommands
    <2>1. pc = "start" /\ pc' = "wait" /\ startIdx > Len(servers) /\ cpc' = "loop"
          /\ UNCHANGED <<servers, startIdx, stopIdx, stop, cmdIdx, succeeded>>
      BY <1>5 DEF LaunchCommands
    <2>2. LifeBar = "starting" /\ LifeBar' = "running" /\ CmdLifeBar' = "active"
      BY <2>1, LifeBarValues, LifeBarValuesPrimed, CmdLifeBarValues
    <2>3. startIdx - 1 = Len(servers)
      BY <1>0, <2>1 DEF TypeOK
    <2>4. Life!Launch
      BY <2>1, <2>2, <2>3 DEF Life!Launch
    <2>5. QED
      BY <2>4 DEF Life!Next, Life!MainProgress
  <1>6. CASE Signal
    <2>1. pc = "wait" /\ pc' = "stopping" /\ stop' = TRUE
          /\ UNCHANGED <<servers, startIdx, stopIdx, cpc, cmdIdx, succeeded>>
      BY <1>6 DEF Signal, cmdVars
    <2>2. LifeBar = "running" /\ LifeBar' = "stopping"
      BY <2>1, LifeBarValues, LifeBarValuesPrimed
    <2>3. Life!Signal
      BY <2>1, <2>2, <1>m DEF Life!Signal
    <2>4. QED
      BY <2>3 DEF Life!Next
  <1>7. CASE StopServer
    <2>1. pc = "stopping" /\ pc' = pc /\ stopIdx <= Len(servers) /\ stopIdx' = stopIdx + 1
          /\ UNCHANGED <<servers, startIdx, stop, cpc, cmdIdx, succeeded>>
      BY <1>7 DEF StopServer, cmdVars
    <2>2. LifeBar = "stopping" /\ LifeBar' = "stopping"
      BY <2>1, LifeBarValues, LifeBarValuesPrimed
    <2>3. Life!StopNext
      BY <1>0, <2>1, <2>2, <1>m DEF Life!StopNext, TypeOK
    <2>4. QED
      BY <2>3 DEF Life!Next, Life!MainProgress
  <1>8. CASE KillChildren \/ KillWait \/ ChildExit
    <2>1. pc \in {"stopping", "killing"} /\ pc' = "killing"
          /\ UNCHANGED <<servers, startIdx, stopIdx, stop, cpc, cmdIdx, succeeded>>
      BY <1>8 DEF KillChildren, KillWait, ChildExit, cmdVars
    <2>2. LifeBar' = LifeBar
      BY <2>1, LifeBarValues, LifeBarValuesPrimed
    <2>3. QED
      BY <2>1, <2>2, <1>m, <1>s
  <1>9. CASE KillReturn
    <2>1. pc = "killing" /\ pc' = "returned"
          /\ UNCHANGED <<servers, startIdx, stopIdx, stop, cpc, cmdIdx, succeeded>>
      BY <1>9 DEF KillReturn, cmdVars
    <2>2. LifeBar = "stopping" /\ LifeBar' = "stopped"
      BY <2>1, LifeBarValues, LifeBarValuesPrimed
    <2>3. stopIdx - 1 = Len(servers)
      BY <1>0, <2>1 DEF KillAfterStops, TypeOK
    <2>4. Life!Return
      BY <2>1, <2>2, <2>3, <1>m DEF Life!Return
    <2>5. QED
      BY <2>4 DEF Life!Next, Life!MainProgress
  \* The command goroutine runs while the process is up.
  <1>c. ASSUME Alive, cpc \in {"loop", "retry", "exec"}
        PROVE  LifeBar \in {"running", "stopping"} /\ CmdLifeBar = "active"
    BY <1>c, LifeBarValues, CmdLifeBarValues DEF Alive
  \* A step of the goroutine that leaves the main goroutine where it is.
  <1>k. ASSUME pc' = pc PROVE LifeBar' = LifeBar
    BY <1>k DEF LifeBar
  <1>10. CASE NextCommand
    <2>1. cpc = "loop" /\ Alive /\ cmdIdx \in CmdIds
          /\ UNCHANGED <<servers, startIdx, stopIdx, stop, succeeded>>
      BY <1>0, <1>10 DEF NextCommand, TypeOK, CmdIds
    <2>2. Life!CommandTurn
      BY <1>0, <2>1, <1>c DEF Life!CommandTurn, CmdIds
    <2>3. CASE ~Applicable(cmdIdx) /\ cmdIdx' = cmdIdx + 1 /\ pc' = pc /\ cpc' = cpc
      <3>1. Life!CommandSkipped
        BY <2>1, <2>2, <2>3, <1>k DEF Life!CommandSkipped, CmdLifeBar
      <3>2. QED
        BY <3>1 DEF Life!Next, Life!CommandProgress
    <2>4. CASE Applicable(cmdIdx) /\ pc' = "exited" /\ cpc' = "fatal" /\ cmdIdx' = cmdIdx
      <3>1. LifeBar' = "exited" /\ CmdLifeBar' = "fatal"
        BY <2>4, LifeBarValuesPrimed, CmdLifeBarValues
      <3>2. Life!CommandFatal
        BY <2>1, <2>2, <2>4, <3>1 DEF Life!CommandFatal
      <3>3. QED
        BY <3>2 DEF Life!Next, Life!CommandProgress
    <2>5. CASE cpc' = "retry" /\ pc' = pc /\ cmdIdx' = cmdIdx
      <3>1. CmdLifeBar' = CmdLifeBar
        BY <2>1, <2>5, CmdLifeBarValues
      <3>2. QED
        BY <2>1, <2>5, <3>1, <1>k, <1>s
    <2>6. QED
      BY <1>10, <2>3, <2>4, <2>5, Zenon DEF NextCommand
  <1>11. CASE SetupFinished
    <2>1. cpc = "loop" /\ Alive /\ cmdIdx > Len(Commands) /\ cpc' = "finished"
          /\ UNCHANGED <<pc, servers, startIdx, stopIdx, stop, cmdIdx, succeeded>>
      BY <1>11 DEF SetupFinished, mainVars
    <2>2. CmdLifeBar' = "finished"
      BY <2>1, CmdLifeBarValues
    <2>3. Life!SetupDone
      BY <2>1, <2>2, <1>c, <1>k DEF Life!SetupDone
    <2>4. QED
      BY <2>3 DEF Life!Next, Life!CommandProgress
  <1>12. CASE RetryCheck
    <2>1. cpc = "retry" /\ Alive /\ cmdIdx \in CmdIds /\ Applicable(cmdIdx)
          /\ (~cmdErr => retries = 0)
          /\ UNCHANGED <<servers, startIdx, stopIdx, stop, succeeded>>
      BY <1>0, <1>12 DEF RetryCheck, ExecApplicable, ErrState
    <2>2. Life!CommandTurn /\ cmdIdx \in {c \in CmdIds : Applicable(c)}
      BY <1>0, <2>1, <1>c DEF Life!CommandTurn, CmdIds
    <2>3. CASE cpc' = "exec" /\ pc' = pc /\ cmdIdx' = cmdIdx
      <3>1. CmdLifeBar' = CmdLifeBar
        BY <2>1, <2>3, CmdLifeBarValues
      <3>2. QED
        BY <2>1, <2>3, <3>1, <1>k, <1>s
    <2>4. CASE pc' = "exited" /\ cpc' = "fatal" /\ cmdIdx' = cmdIdx
      <3>1. LifeBar' = "exited" /\ CmdLifeBar' = "fatal"
        BY <2>4, LifeBarValuesPrimed, CmdLifeBarValues
      <3>2. Life!CommandFatal
        BY <2>1, <2>2, <2>4, <3>1 DEF Life!CommandFatal
      <3>3. QED
        BY <3>2 DEF Life!Next, Life!CommandProgress
    <2>5. CASE (retries >= CommandRetries \/ stop) /\ ~cmdErr
               /\ cpc' = "loop" /\ cmdIdx' = cmdIdx + 1 /\ pc' = pc
      <3>1. stop \/ ~(CommandRetries > 0)
        BY <2>1, <2>5
      <3>2. CmdLifeBar' = CmdLifeBar
        BY <2>1, <2>5, CmdLifeBarValues
      <3>3. Life!CommandPassed
        BY <2>1, <2>2, <2>5, <3>1, <3>2, <1>k DEF Life!CommandPassed
      <3>4. QED
        BY <3>3 DEF Life!Next, Life!CommandProgress
    <2>6. QED
      BY <1>12, <2>3, <2>4, <2>5, Zenon DEF RetryCheck
  <1>13. CASE RunCommand
    <2>1. cpc = "exec" /\ Alive /\ cmdIdx \in CmdIds /\ Applicable(cmdIdx)
          /\ UNCHANGED <<pc, servers, startIdx, stopIdx, stop>>
      BY <1>0, <1>13 DEF RunCommand, ExecApplicable, mainVars
    <2>2. Life!CommandTurn /\ cmdIdx \in {c \in CmdIds : Applicable(c)}
      BY <1>0, <2>1, <1>c DEF Life!CommandTurn, CmdIds
    <2>3. CASE succeeded' = succeeded \cup {cmdIdx} /\ cmdIdx' = cmdIdx + 1 /\ cpc' = "loop"
      <3>1. CmdLifeBar' = CmdLifeBar
        BY <2>1, <2>3, CmdLifeBarValues
      <3>2. Life!CommandRan
        BY <2>1, <2>2, <2>3, <3>1, <1>k DEF Life!CommandRan
      <3>3. QED
        BY <3>2 DEF Life!Next, Life!CommandProgress
    <2>4. CASE succeeded' = succeeded /\ cmdIdx' = cmdIdx /\ cpc' = "retry"
      <3>1. CmdLifeBar' = CmdLifeBar
        BY <2>1, <2>4, CmdLifeBarValues
      <3>2. QED
        BY <2>1, <2>4, <3>1, <1>k, <1>s
    <2>5. QED
      BY <1>13, <2>3, <2>4, Zenon DEF RunCommand
  <1>14. CASE UNCHANGED vars
    <2>1. UNCHANGED <<pc, cpc, servers, startIdx, stopIdx, stop, cmdIdx, succeeded>>
      BY <1>14 DEF vars, mainVars, cmdVars
    <2>2. QED
      BY <2>1, <1>m, <1>k, <1>s
  <1>15. QED
    BY <1>1, <1>2, <1>3, <1>4, <1>5, <1>6, <1>7, <1>8, <1>9, <1>10, <1>11, <1>12, <1>13,
       <1>14 DEF Next, MainStep, CommandStep

(* Run implements the abstract lifecycle of spec 4.4, for every server and *)
(* command list, node and retry budget: servers start in list order and   *)
(* the commands begin only when all have started; the commands are taken  *)
(* in declared order, an applicable one passed over only after the signal *)
(* or with a zero budget, and a fatal error only on an applicable one;    *)
(* the servers stop in list order before Run returns.                     *)
THEOREM LifecycleImplemented == Spec => Life!SafetySpec
  <1>1. Init => OrderInv /\ LifeFacts
    BY OrderInvInit DEF Init, LifeFacts, KillAfterStops, ListBound
  <1>2. OrderInv /\ LifeFacts /\ [Next]_vars => (OrderInv /\ LifeFacts)'
    BY OrderNext, LifeFactsNext DEF OrderInv, BudgetInv
  <1>3. Spec => [](OrderInv /\ LifeFacts)
    BY <1>1, <1>2, PTL DEF Spec
  <1>4. QED
    BY <1>3, LifeInit, LifeStep, PTL DEF Spec, Life!SafetySpec


(***************************************************************************)
(* The abstract lifecycle's invariant, seen through the refinement         *)
(* mapping: proved once on ServersLifecycle (LifecycleSafe) and carried    *)
(* over to Run by LifecycleImplemented.                                    *)
(***************************************************************************)
LEMMA LifecycleOrderHolds == Spec => []Life!LifecycleOrder
  <1>1. Spec => Life!SafetySpec
    BY LifecycleImplemented
  <1>2. Life!SafetySpec => []Life!LifecycleOrder
    BY ConstantFacts, Life!LifecycleSafe
  <1>3. QED
    BY <1>1, <1>2

\* What the abstract invariant says of a command goroutine that finished.
LEMMA FinishedFromAbstract ==
    Life!LifecycleOrder => SetupFinishedWithoutSignal
  <1> SUFFICES ASSUME Life!LifecycleOrder, cpc = "finished", ~stop, CommandRetries > 0,
                      NEW c \in CmdIds, Applicable(c)
               PROVE  c \in succeeded
    BY DEF SetupFinishedWithoutSignal, SetupFinishedUnlessStopped
  <1>1. CmdLifeBar = "finished"
    BY CmdLifeBarValues
  <1>2. cmdIdx = Len(Commands) + 1
    BY <1>1 DEF Life!LifecycleOrder
  <1>3. c \in {d \in CmdIds : Applicable(d)} \cap 1 .. cmdIdx - 1
    BY <1>2 DEF CmdIds
  <1>4. QED
    BY <1>1, <1>3 DEF Life!LifecycleOrder

(* When the command goroutine logs "Cluster setup finished" with no        *)
(* shutdown signal and a positive retry budget, every command that applies *)
(* to the node has run successfully, for every server and command list     *)
(* and every node.                                                         *)
THEOREM SetupFinishedHolds == Spec => []SetupFinishedWithoutSignal
  BY LifecycleOrderHolds, FinishedFromAbstract, PTL

=============================================================================
