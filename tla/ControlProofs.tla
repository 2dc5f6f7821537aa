--------------------------- MODULE ControlProofs ---------------------------
(***************************************************************************)
(* Proofs about ProjectControl: no command signals a stranger, whatever    *)
(* commands overlap; and when commands run one at a time the records, the  *)
(* awake guard and the report SAFE TO SHUT DOWN can be trusted.            *)
(***************************************************************************)
EXTENDS ProjectControl, TLAPS

(* A step that works on a process names one.                               *)
StepsNameProcesses ==
    \A p \in Command :
       /\ command[p].step \in {"pidfile", "pidwrite", "await", "view", "signal", "wait"}
             => command[p].runtime \in Launch
       /\ command[p].step \in {"guardfile", "guardwrite"} => command[p].child \in Launch
       /\ command[p].step \in {"kill", "waithelper"} => command[p].guard \in Launch

(* Whoever is about to be signalled was looked at.                         *)
SignalsAreProven ==
    \A p \in Command :
       /\ command[p].step \in {"view", "signal"} => runtime[command[p].runtime] # "reused"
       /\ At(p, "kill") => helper[command[p].guard] # "reused"

(* The invariant of any number of commands.                                *)
SafetyInv == TypeOK /\ StepsNameProcesses /\ SignalsAreProven /\ NoStrangerSignalled

-----------------------------------------------------------------------------
(* One command at a time.                                                  *)
OneAtATime == \A p, q \in Command : p = q

(* A recorded Runtime that runs is named by the pid file, which names      *)
(* recorded Runtimes only; a recorded helper by the awake file.            *)
RecordsName ==
    /\ \A n \in recorded : runtime[n] \in Running => pidFile = Naming(n)
    /\ \A n \in Launch : pidFile = Naming(n) => n \in recorded
    /\ \A n \in guarded : helper[n] \in Running => awakeFile = Naming(n)

(* What is recorded, or about to be, has been launched.                    *)
RecordedAreLaunched ==
    /\ \A n \in recorded : runtime[n] # "none"
    /\ \A n \in guarded : helper[n] # "none"
    /\ \A p \in Command :
          /\ command[p].step \in {"pidfile", "pidwrite"} =>
                runtime[command[p].runtime] # "none"
          /\ command[p].step \in {"guardfile", "guardwrite"} =>
                helper[command[p].child] # "none"

(* What the pid file holds at each step of a command.                      *)
PidFileAtStep ==
    \A p \in Command :
       /\ command[p].step \in {"guard", "guardfile", "guardwrite", "launch", "pidfile"}
             => ~pidFile.exists
       /\ At(p, "pidwrite") => pidFile = Empty
       /\ command[p].step \in {"await", "view", "signal", "wait"}
             => pidFile = Naming(command[p].runtime)
       /\ At(p, "complete") =>
             \A n \in Launch : pidFile = Naming(n) => runtime[n] \notin Running

(* Likewise the awake file.                                                *)
AwakeFileAtStep ==
    \A p \in Command :
       /\ At(p, "guardfile") => ~awakeFile.exists
       /\ At(p, "guardwrite") => awakeFile = Empty
       /\ command[p].step \in {"kill", "waithelper"} => awakeFile = Naming(command[p].guard)

(* Whose Runtime a command works on.                                       *)
RuntimeAtStep ==
    \A p \in Command :
       /\ command[p].step \in {"idle", "check", "guard", "guardfile", "guardwrite",
                               "launch", "read", "find", "drain", "look"}
             => command[p].runtime = 0
       /\ At(p, "complete") => command[p].runtime \in recorded \cup {0}

(* From the release on nothing runs that the command is responsible for.   *)
QuietAtRelease ==
    \A p \in Command :
       /\ command[p].step \in {"release", "kill", "waithelper", "safe"} =>
             \A n \in recorded \cup ({command[p].runtime} \cap Launch) :
                runtime[n] \notin Running
       /\ At(p, "safe") => \A n \in guarded : helper[n] \notin Running

(* The invariant of one command at a time.                                 *)
RecordsInv ==
    /\ RecordsName /\ RecordedAreLaunched /\ PidFileAtStep /\ AwakeFileAtStep
    /\ RuntimeAtStep /\ QuietAtRelease

-----------------------------------------------------------------------------
(* A launch takes a number that nobody has.                                *)
LEMMA NextLaunchIsFree ==
  ASSUME NEW launched, CanLaunch(launched)
  PROVE  /\ NextLaunch(launched) \in Launch
         /\ launched[NextLaunch(launched)] = "none"
  BY DEF CanLaunch, NextLaunch

(* Every launch has a positive number.                                     *)
LEMMA LaunchFacts ==
  0 \notin Launch /\ Launch \subseteq 0..MaxLaunches /\ 0 \in 0..MaxLaunches
  BY ControlAssumption DEF Launch

(* A command that turns to another step keeps a record of the type.        *)
LEMMA MovesType ==
  ASSUME TypeOK, NEW p \in Command, NEW step \in Step, Moves(p, step)
  PROVE  command' \in [Command -> CommandRecord]
  BY DEF TypeOK, Moves, CommandRecord

(* So does one that exits, and the zombies it leaves are gone.             *)
LEMMA ExitType ==
  ASSUME TypeOK, NEW p \in Command, Exit(p)
  PROVE  /\ command' \in [Command -> CommandRecord]
         /\ runtime' \in [Launch -> Status]
         /\ helper' \in [Launch -> Status]
<1>1. Idle \in CommandRecord
  BY LaunchFacts DEF Idle, CommandRecord, Step
<1>q. QED
  BY <1>1 DEF TypeOK, Exit, Status

(* A step that only moves the command keeps every type.                    *)
LEMMA GotoKeepsType ==
  ASSUME TypeOK, NEW p \in Command, NEW step \in Step, Goto(p, step),
         UNCHANGED <<files, history>>
  PROVE  TypeOK'
<1>1. command' \in [Command -> CommandRecord]
  BY MovesType DEF Goto
<1>q. QED
  BY <1>1 DEF TypeOK, Goto, processes, files, history

(* So does a step that only ends it.                                       *)
LEMMA ExitKeepsType ==
  ASSUME TypeOK, NEW p \in Command, Exit(p), UNCHANGED <<files, history>>
  PROVE  TypeOK'
  BY ExitType DEF TypeOK, files, history

(* What a stop has found: the recorded process, whose identity matches.    *)
LEMMA ReadLiveEffect ==
  ASSUME NEW p \in Command, ReadLive(p)
  PROVE  \E n \in Launch, step \in {"signal", "view"} :
            /\ At(p, "read")
            /\ Managed(n)
            /\ command' = [command EXCEPT ![p] = [@ EXCEPT !.runtime = n, !.step = step]]
            /\ UNCHANGED <<processes, files, history>>
  BY DEF ReadLive, StopStep

(* It keeps the types.                                                     *)
LEMMA ReadLiveType ==
  ASSUME TypeOK, NEW p \in Command, ReadLive(p)
  PROVE  TypeOK'
<1>1. PICK n \in Launch, step \in {"signal", "view"} :
         command' = [command EXCEPT ![p] = [@ EXCEPT !.runtime = n, !.step = step]]
  BY ReadLiveEffect
<1>2. n \in 0..MaxLaunches
  BY LaunchFacts
<1>3. command' \in [Command -> CommandRecord]
  BY <1>1, <1>2 DEF TypeOK, CommandRecord, Step
<1>q. QED
  BY <1>3 DEF TypeOK, ReadLive, processes, files, history

(* A launch, whoever it is for, sets the launcher's step and its process.   *)
LEMMA LaunchHelperType ==
  ASSUME TypeOK, NEW p \in Command, LaunchHelper(p)
  PROVE  TypeOK'
<1> DEFINE next == NextLaunch(helper)
<1>1. next \in Launch /\ next \in 0..MaxLaunches
  BY NextLaunchIsFree, LaunchFacts DEF LaunchHelper
<1>2. /\ helper' = [helper EXCEPT ![next] = "up"]
      /\ command' = [command EXCEPT ![p] = [@ EXCEPT !.step = "guardfile", !.child = next]]
      /\ UNCHANGED <<runtime, files, history>>
  BY DEF LaunchHelper
<1> HIDE DEF next
<1>3. command' \in [Command -> CommandRecord]
  BY <1>1, <1>2 DEF TypeOK, CommandRecord, Step
<1>4. helper' \in [Launch -> Status]
  BY <1>2 DEF TypeOK, Status, Running
<1>q. QED
  BY <1>2, <1>3, <1>4 DEF TypeOK, files, history

(* The same for a Runtime.                                                 *)
LEMMA LaunchRuntimeType ==
  ASSUME TypeOK, NEW p \in Command, LaunchRuntime(p)
  PROVE  TypeOK'
<1> DEFINE next == NextLaunch(runtime)
<1>1. next \in Launch /\ next \in 0..MaxLaunches
  BY NextLaunchIsFree, LaunchFacts DEF LaunchRuntime
<1>2. /\ runtime' = [runtime EXCEPT ![next] = "up"]
      /\ command' = [command EXCEPT ![p] = [@ EXCEPT !.step = "pidfile", !.runtime = next]]
      /\ UNCHANGED <<helper, files, history>>
  BY DEF LaunchRuntime
<1> HIDE DEF next
<1>3. command' \in [Command -> CommandRecord]
  BY <1>1, <1>2 DEF TypeOK, CommandRecord, Step
<1>4. runtime' \in [Launch -> Status]
  BY <1>2 DEF TypeOK, Status, Running
<1>q. QED
  BY <1>2, <1>3, <1>4 DEF TypeOK, files, history

(* The two ends of a release.                                              *)
LEMMA ReleasedType ==
  ASSUME TypeOK, NEW p \in Command, Released(p)
  PROVE  /\ command' \in [Command -> CommandRecord]
         /\ runtime' \in [Launch -> Status]
         /\ helper' \in [Launch -> Status]
<1>1. CASE Exit(p)
  BY <1>1, ExitType
<1>2. CASE Goto(p, "safe")
  <2>1. command' \in [Command -> CommandRecord]
    BY <1>2, MovesType DEF Goto, Step
  <2>q. QED
    BY <1>2, <2>1 DEF Goto, TypeOK, processes
<1>q. QED
  BY <1>1, <1>2 DEF Released

(* The release that turns to a living helper.                              *)
LEMMA ReleaseLiveType ==
  ASSUME TypeOK, NEW p \in Command, ReleaseLive(p)
  PROVE  TypeOK'
<1>1. PICK n \in Launch :
         command' = [command EXCEPT ![p] = [@ EXCEPT !.step = "kill", !.guard = n]]
  BY DEF ReleaseLive
<1>2. n \in 0..MaxLaunches
  BY LaunchFacts
<1>3. command' \in [Command -> CommandRecord]
  BY <1>1, <1>2 DEF TypeOK, CommandRecord, Step
<1>q. QED
  BY <1>3 DEF TypeOK, ReleaseLive, processes, files, history

(* Every action keeps the types.                                           *)
LEMMA StartType ==
  ASSUME TypeOK, StepsNameProcesses, NEW p \in Command, Start(p)
  PROVE  TypeOK'
<1> USE DEF TypeOK, StepsNameProcesses, CommandRecord, Step, Status, Running, Moves,
            Goto, At, File, files, history, processes, Signalled, Absent, Empty, Naming
<1>1. CASE StartAdmitted(p)
  BY <1>1, GotoKeepsType DEF StartAdmitted
<1>2. CASE StartRefused(p)
  BY <1>2, ExitKeepsType DEF StartRefused
<1>3. CASE GuardStands(p)
  BY <1>3, GotoKeepsType DEF GuardStands
<1>4. CASE RecoverGuard(p)
  BY <1>4, LaunchFacts DEF RecoverGuard
<1>5. CASE LaunchHelper(p)
  BY <1>5, LaunchHelperType
<1>6. CASE GuardRefused(p)
  BY <1>6, ExitKeepsType DEF GuardRefused
<1>7. CASE HelperUnverified(p)
  BY <1>7 DEF HelperUnverified
<1>8. CASE CreateGuardFile(p)
  BY <1>8, LaunchFacts DEF CreateGuardFile
<1>9. CASE WriteGuardFile(p)
  BY <1>9 DEF WriteGuardFile
<1>10. CASE LaunchRuntime(p)
  BY <1>10, LaunchRuntimeType
<1>11. CASE LaunchFails(p)
  BY <1>11, GotoKeepsType DEF LaunchFails
<1>12. CASE RuntimeUnverified(p)
  BY <1>12 DEF RuntimeUnverified
<1>13. CASE CreatePidFile(p)
  BY <1>13, LaunchFacts DEF CreatePidFile
<1>14. CASE WritePidFile(p)
  BY <1>14 DEF WritePidFile
<1>15. CASE StartSucceeds(p)
  BY <1>15, ExitKeepsType DEF StartSucceeds
<1>16. CASE StartSeesExit(p)
  BY <1>16 DEF StartSeesExit
<1>17. CASE StartTimesOut(p)
  BY <1>17, GotoKeepsType DEF StartTimesOut
<1>18. CASE StartGivesUp(p)
  BY <1>18, ExitKeepsType DEF StartGivesUp
<1>q. QED
  BY <1>1, <1>2, <1>3, <1>4, <1>5, <1>6, <1>7, <1>8, <1>9, <1>10, <1>11, <1>12, <1>13,
     <1>14, <1>15, <1>16, <1>17, <1>18
  DEF Start

(* The same for Stop.                                                      *)
LEMMA StopType ==
  ASSUME TypeOK, StepsNameProcesses, NEW p \in Command, Stop(p)
  PROVE  TypeOK'
<1> USE DEF TypeOK, StepsNameProcesses, CommandRecord, Step, Status, Running, Moves,
            Goto, At, File, files, history, processes, Signalled, Absent, Empty, Naming
<1>1. CASE ReadNothing(p)
  BY <1>1, ExitKeepsType, GotoKeepsType DEF ReadNothing, Step
<1>2. CASE ReadRefused(p)
  BY <1>2, ExitKeepsType DEF ReadRefused
<1>3. CASE ReadStale(p)
  BY <1>3, GotoKeepsType DEF ReadStale
<1>4. CASE ReadLive(p)
  BY <1>4, ReadLiveType
<1>5. CASE ViewIdle(p)
  BY <1>5, GotoKeepsType DEF ViewIdle
<1>6. CASE ViewRefused(p)
  BY <1>6, ExitKeepsType DEF ViewRefused
<1>7. CASE SignalRuntime(p)
  BY <1>7 DEF SignalRuntime
<1>8. CASE WaitForExit(p)
  BY <1>8, GotoKeepsType DEF WaitForExit
<1>9. CASE CompleteStop(p)
  BY <1>9, LaunchFacts DEF CompleteStop
<1>10. CASE FinishFindsNothing(p)
  BY <1>10, GotoKeepsType DEF FinishFindsNothing
<1>11. CASE FinishFinds(p)
  BY <1>11, GotoKeepsType DEF FinishFinds
<1>12. CASE Drained(p)
  BY <1>12, GotoKeepsType DEF Drained
<1>13. CASE StatusRunning(p)
  BY <1>13, ExitKeepsType DEF StatusRunning
<1>14. CASE StatusStopped(p)
  BY <1>14, GotoKeepsType DEF StatusStopped
<1>q. QED
  BY <1>1, <1>2, <1>3, <1>4, <1>5, <1>6, <1>7, <1>8, <1>9, <1>10, <1>11, <1>12, <1>13,
     <1>14
  DEF Stop

(* The same for Release.                                                   *)
LEMMA ReleaseType ==
  ASSUME TypeOK, StepsNameProcesses, NEW p \in Command, Release(p)
  PROVE  TypeOK'
<1> USE DEF TypeOK, StepsNameProcesses, CommandRecord, Step, Status, Running, Moves,
            Goto, At, File, files, history, processes, Signalled, Absent, Empty, Naming
<1>1. CASE ReleaseNothing(p)
  BY <1>1, ReleasedType DEF ReleaseNothing, TypeOK, files, history
<1>2. CASE ReleaseRefused(p)
  BY <1>2, GotoKeepsType DEF ReleaseRefused
<1>3. CASE ReleaseStale(p)
  BY <1>3, ReleasedType, LaunchFacts DEF ReleaseStale, TypeOK, Absent, File, history
<1>4. CASE ReleaseLive(p)
  BY <1>4, ReleaseLiveType
<1>5. CASE SignalHelper(p)
  BY <1>5 DEF SignalHelper
<1>6. CASE HelperReleased(p)
  BY <1>6, ReleasedType, LaunchFacts DEF HelperReleased, TypeOK, Absent, File, history
<1>7. CASE HelperRetained(p)
  BY <1>7, GotoKeepsType DEF HelperRetained
<1>8. CASE Report(p)
  BY <1>8, ExitKeepsType DEF Report
<1>q. QED
  BY <1>1, <1>2, <1>3, <1>4, <1>5, <1>6, <1>7, <1>8 DEF Release

(* The same for Environment.                                               *)
LEMMA EnvironmentType ==
  ASSUME TypeOK, StepsNameProcesses, NEW n \in Launch, Environment(n)
  PROVE  TypeOK'
<1> USE DEF TypeOK, StepsNameProcesses, CommandRecord, Step, Status, Running, Moves,
            Goto, At, File, files, history, processes, Signalled, Absent, Empty, Naming
<1>1. CASE RuntimeServes(n)
  BY <1>1 DEF RuntimeServes
<1>2. CASE RuntimeWorks(n)
  BY <1>2 DEF RuntimeWorks
<1>3. CASE RuntimeRests(n)
  BY <1>3 DEF RuntimeRests
<1>4. CASE RuntimeEnds(n)
  BY <1>4 DEF RuntimeEnds
<1>5. CASE RuntimePidReused(n)
  BY <1>5 DEF RuntimePidReused
<1>6. CASE HelperEnds(n)
  BY <1>6 DEF HelperEnds
<1>7. CASE HelperPidReused(n)
  BY <1>7 DEF HelperPidReused
<1>q. QED
  BY <1>1, <1>2, <1>3, <1>4, <1>5, <1>6, <1>7 DEF Environment

(* Every action leaves its command at a step that names its processes.     *)
LEMMA StartNames ==
  ASSUME TypeOK, StepsNameProcesses, NEW p \in Command, Start(p)
  PROVE  StepsNameProcesses'
<1> USE DEF At, Moves, Goto, Exit, Idle, RuntimeChild, HelperChild, Released, processes,
            files, history, TypeOK, StepsNameProcesses, CommandRecord, Managed
<1>1. CASE StartAdmitted(p)
  BY <1>1 DEF StartAdmitted
<1>2. CASE StartRefused(p)
  BY <1>2 DEF StartRefused
<1>3. CASE GuardStands(p)
  BY <1>3 DEF GuardStands
<1>4. CASE RecoverGuard(p)
  BY <1>4 DEF RecoverGuard
<1>5. CASE LaunchHelper(p)
  BY <1>5, NextLaunchIsFree DEF LaunchHelper
<1>6. CASE GuardRefused(p)
  BY <1>6 DEF GuardRefused
<1>7. CASE HelperUnverified(p)
  BY <1>7 DEF HelperUnverified
<1>8. CASE CreateGuardFile(p)
  BY <1>8 DEF CreateGuardFile
<1>9. CASE WriteGuardFile(p)
  BY <1>9 DEF WriteGuardFile
<1>10. CASE LaunchRuntime(p)
  BY <1>10, NextLaunchIsFree DEF LaunchRuntime
<1>11. CASE LaunchFails(p)
  BY <1>11 DEF LaunchFails
<1>12. CASE RuntimeUnverified(p)
  BY <1>12 DEF RuntimeUnverified
<1>13. CASE CreatePidFile(p)
  BY <1>13 DEF CreatePidFile
<1>14. CASE WritePidFile(p)
  BY <1>14 DEF WritePidFile
<1>15. CASE StartSucceeds(p)
  BY <1>15 DEF StartSucceeds
<1>16. CASE StartSeesExit(p)
  BY <1>16 DEF StartSeesExit
<1>17. CASE StartTimesOut(p)
  BY <1>17 DEF StartTimesOut
<1>18. CASE StartGivesUp(p)
  BY <1>18 DEF StartGivesUp
<1>q. QED
  BY <1>1, <1>2, <1>3, <1>4, <1>5, <1>6, <1>7, <1>8, <1>9, <1>10, <1>11, <1>12, <1>13,
     <1>14, <1>15, <1>16, <1>17, <1>18
  DEF Start

(* The same for Stop.                                                      *)
LEMMA StopNames ==
  ASSUME TypeOK, StepsNameProcesses, NEW p \in Command, Stop(p)
  PROVE  StepsNameProcesses'
<1> USE DEF At, Moves, Goto, Exit, Idle, RuntimeChild, HelperChild, Released, processes,
            files, history, TypeOK, StepsNameProcesses, CommandRecord, Managed
<1>1. CASE ReadNothing(p)
  BY <1>1 DEF ReadNothing
<1>2. CASE ReadRefused(p)
  BY <1>2 DEF ReadRefused
<1>3. CASE ReadStale(p)
  BY <1>3 DEF ReadStale
<1>4. CASE ReadLive(p)
  <2>1. PICK n \in Launch, step \in {"signal", "view"} :
           /\ Managed(n)
           /\ command' = [command EXCEPT ![p] = [@ EXCEPT !.runtime = n, !.step = step]]
           /\ UNCHANGED <<processes, files, history>>
    BY <1>4, ReadLiveEffect
  <2>q. QED
    BY <2>1
<1>5. CASE ViewIdle(p)
  BY <1>5 DEF ViewIdle
<1>6. CASE ViewRefused(p)
  BY <1>6 DEF ViewRefused
<1>7. CASE SignalRuntime(p)
  BY <1>7 DEF SignalRuntime
<1>8. CASE WaitForExit(p)
  BY <1>8 DEF WaitForExit
<1>9. CASE CompleteStop(p)
  BY <1>9 DEF CompleteStop
<1>10. CASE FinishFindsNothing(p)
  BY <1>10 DEF FinishFindsNothing
<1>11. CASE FinishFinds(p)
  BY <1>11 DEF FinishFinds
<1>12. CASE Drained(p)
  BY <1>12 DEF Drained
<1>13. CASE StatusRunning(p)
  BY <1>13 DEF StatusRunning
<1>14. CASE StatusStopped(p)
  BY <1>14 DEF StatusStopped
<1>q. QED
  BY <1>1, <1>2, <1>3, <1>4, <1>5, <1>6, <1>7, <1>8, <1>9, <1>10, <1>11, <1>12, <1>13,
     <1>14
  DEF Stop

(* The same for Release.                                                   *)
LEMMA ReleaseNames ==
  ASSUME TypeOK, StepsNameProcesses, NEW p \in Command, Release(p)
  PROVE  StepsNameProcesses'
<1> USE DEF At, Moves, Goto, Exit, Idle, RuntimeChild, HelperChild, Released, processes,
            files, history, TypeOK, StepsNameProcesses, CommandRecord, Managed
<1>1. CASE ReleaseNothing(p)
  BY <1>1 DEF ReleaseNothing
<1>2. CASE ReleaseRefused(p)
  BY <1>2 DEF ReleaseRefused
<1>3. CASE ReleaseStale(p)
  BY <1>3 DEF ReleaseStale
<1>4. CASE ReleaseLive(p)
  BY <1>4 DEF ReleaseLive
<1>5. CASE SignalHelper(p)
  BY <1>5 DEF SignalHelper
<1>6. CASE HelperReleased(p)
  BY <1>6 DEF HelperReleased
<1>7. CASE HelperRetained(p)
  BY <1>7 DEF HelperRetained
<1>8. CASE Report(p)
  BY <1>8 DEF Report
<1>q. QED
  BY <1>1, <1>2, <1>3, <1>4, <1>5, <1>6, <1>7, <1>8 DEF Release

(* The same for Environment.                                               *)
LEMMA EnvironmentNames ==
  ASSUME TypeOK, StepsNameProcesses, NEW n \in Launch, Environment(n)
  PROVE  StepsNameProcesses'
<1> USE DEF At, Moves, Goto, Exit, Idle, RuntimeChild, HelperChild, Released, processes,
            files, history, TypeOK, StepsNameProcesses, CommandRecord, Managed
<1>1. CASE RuntimeServes(n)
  BY <1>1 DEF RuntimeServes
<1>2. CASE RuntimeWorks(n)
  BY <1>2 DEF RuntimeWorks
<1>3. CASE RuntimeRests(n)
  BY <1>3 DEF RuntimeRests
<1>4. CASE RuntimeEnds(n)
  BY <1>4 DEF RuntimeEnds
<1>5. CASE RuntimePidReused(n)
  BY <1>5 DEF RuntimePidReused
<1>6. CASE HelperEnds(n)
  BY <1>6 DEF HelperEnds
<1>7. CASE HelperPidReused(n)
  BY <1>7 DEF HelperPidReused
<1>q. QED
  BY <1>1, <1>2, <1>3, <1>4, <1>5, <1>6, <1>7 DEF Environment

(* Every action has looked at whom it is about to signal, and no pid is    *)
(* handed out again meanwhile.                                             *)
LEMMA StartProves ==
  ASSUME SafetyInv, NEW p \in Command, Start(p)
  PROVE  SignalsAreProven' /\ NoStrangerSignalled'
<1> USE DEF At, Moves, Goto, Exit, Idle, RuntimeChild, HelperChild, Released, processes,
            files, history, SafetyInv, TypeOK, StepsNameProcesses, SignalsAreProven,
            NoStrangerSignalled, CommandRecord, Managed, IdentityAlive, Running,
            Signalled
<1>1. CASE StartAdmitted(p)
  BY <1>1 DEF StartAdmitted
<1>2. CASE StartRefused(p)
  BY <1>2 DEF StartRefused
<1>3. CASE GuardStands(p)
  BY <1>3 DEF GuardStands
<1>4. CASE RecoverGuard(p)
  BY <1>4 DEF RecoverGuard
<1>5. CASE LaunchHelper(p)
  BY <1>5 DEF LaunchHelper
<1>6. CASE GuardRefused(p)
  BY <1>6 DEF GuardRefused
<1>7. CASE HelperUnverified(p)
  BY <1>7 DEF HelperUnverified
<1>8. CASE CreateGuardFile(p)
  BY <1>8 DEF CreateGuardFile
<1>9. CASE WriteGuardFile(p)
  BY <1>9 DEF WriteGuardFile
<1>10. CASE LaunchRuntime(p)
  BY <1>10 DEF LaunchRuntime
<1>11. CASE LaunchFails(p)
  BY <1>11 DEF LaunchFails
<1>12. CASE RuntimeUnverified(p)
  BY <1>12 DEF RuntimeUnverified
<1>13. CASE CreatePidFile(p)
  BY <1>13 DEF CreatePidFile
<1>14. CASE WritePidFile(p)
  BY <1>14 DEF WritePidFile
<1>15. CASE StartSucceeds(p)
  BY <1>15 DEF StartSucceeds
<1>16. CASE StartSeesExit(p)
  BY <1>16 DEF StartSeesExit
<1>17. CASE StartTimesOut(p)
  BY <1>17 DEF StartTimesOut
<1>18. CASE StartGivesUp(p)
  BY <1>18 DEF StartGivesUp
<1>q. QED
  BY <1>1, <1>2, <1>3, <1>4, <1>5, <1>6, <1>7, <1>8, <1>9, <1>10, <1>11, <1>12, <1>13,
     <1>14, <1>15, <1>16, <1>17, <1>18
  DEF Start

(* The same for Stop.                                                      *)
LEMMA StopProves ==
  ASSUME SafetyInv, NEW p \in Command, Stop(p)
  PROVE  SignalsAreProven' /\ NoStrangerSignalled'
<1> USE DEF At, Moves, Goto, Exit, Idle, RuntimeChild, HelperChild, Released, processes,
            files, history, SafetyInv, TypeOK, StepsNameProcesses, SignalsAreProven,
            NoStrangerSignalled, CommandRecord, Managed, IdentityAlive, Running,
            Signalled
<1>1. CASE ReadNothing(p)
  <2>1. CASE Exit(p)
    BY <1>1, <2>1 DEF ReadNothing
  <2>2. CASE Goto(p, "release")
    BY <1>1, <2>2 DEF ReadNothing
  <2>q. QED
    BY <1>1, <2>1, <2>2 DEF ReadNothing
<1>2. CASE ReadRefused(p)
  BY <1>2 DEF ReadRefused
<1>3. CASE ReadStale(p)
  BY <1>3 DEF ReadStale
<1>4. CASE ReadLive(p)
  <2>1. PICK n \in Launch, step \in {"signal", "view"} :
           /\ Managed(n)
           /\ command' = [command EXCEPT ![p] = [@ EXCEPT !.runtime = n, !.step = step]]
           /\ UNCHANGED <<processes, files, history>>
    BY <1>4, ReadLiveEffect
  <2>q. QED
    BY <2>1
<1>5. CASE ViewIdle(p)
  BY <1>5 DEF ViewIdle
<1>6. CASE ViewRefused(p)
  BY <1>6 DEF ViewRefused
<1>7. CASE SignalRuntime(p)
  BY <1>7 DEF SignalRuntime
<1>8. CASE WaitForExit(p)
  BY <1>8 DEF WaitForExit
<1>9. CASE CompleteStop(p)
  BY <1>9 DEF CompleteStop
<1>10. CASE FinishFindsNothing(p)
  BY <1>10 DEF FinishFindsNothing
<1>11. CASE FinishFinds(p)
  BY <1>11 DEF FinishFinds
<1>12. CASE Drained(p)
  BY <1>12 DEF Drained
<1>13. CASE StatusRunning(p)
  BY <1>13 DEF StatusRunning
<1>14. CASE StatusStopped(p)
  BY <1>14 DEF StatusStopped
<1>q. QED
  BY <1>1, <1>2, <1>3, <1>4, <1>5, <1>6, <1>7, <1>8, <1>9, <1>10, <1>11, <1>12, <1>13,
     <1>14
  DEF Stop

(* The same for Release.                                                   *)
LEMMA ReleaseProves ==
  ASSUME SafetyInv, NEW p \in Command, Release(p)
  PROVE  SignalsAreProven' /\ NoStrangerSignalled'
<1> USE DEF At, Moves, Goto, Exit, Idle, RuntimeChild, HelperChild, Released, processes,
            files, history, SafetyInv, TypeOK, StepsNameProcesses, SignalsAreProven,
            NoStrangerSignalled, CommandRecord, Managed, IdentityAlive, Running,
            Signalled
<1>1. CASE ReleaseNothing(p)
  BY <1>1 DEF ReleaseNothing
<1>2. CASE ReleaseRefused(p)
  BY <1>2 DEF ReleaseRefused
<1>3. CASE ReleaseStale(p)
  BY <1>3 DEF ReleaseStale
<1>4. CASE ReleaseLive(p)
  BY <1>4 DEF ReleaseLive
<1>5. CASE SignalHelper(p)
  BY <1>5 DEF SignalHelper
<1>6. CASE HelperReleased(p)
  BY <1>6 DEF HelperReleased
<1>7. CASE HelperRetained(p)
  BY <1>7 DEF HelperRetained
<1>8. CASE Report(p)
  BY <1>8 DEF Report
<1>q. QED
  BY <1>1, <1>2, <1>3, <1>4, <1>5, <1>6, <1>7, <1>8 DEF Release

(* The same for Environment.                                               *)
LEMMA EnvironmentProves ==
  ASSUME SafetyInv, NEW n \in Launch, Environment(n)
  PROVE  SignalsAreProven' /\ NoStrangerSignalled'
<1> USE DEF At, Moves, Goto, Exit, Idle, RuntimeChild, HelperChild, Released, processes,
            files, history, SafetyInv, TypeOK, StepsNameProcesses, SignalsAreProven,
            NoStrangerSignalled, CommandRecord, Managed, IdentityAlive, Running,
            Signalled
<1>1. CASE RuntimeServes(n)
  BY <1>1 DEF RuntimeServes
<1>2. CASE RuntimeWorks(n)
  BY <1>2 DEF RuntimeWorks
<1>3. CASE RuntimeRests(n)
  BY <1>3 DEF RuntimeRests
<1>4. CASE RuntimeEnds(n)
  BY <1>4 DEF RuntimeEnds
<1>5. CASE RuntimePidReused(n)
  BY <1>5 DEF RuntimePidReused
<1>6. CASE HelperEnds(n)
  BY <1>6 DEF HelperEnds
<1>7. CASE HelperPidReused(n)
  BY <1>7 DEF HelperPidReused
<1>q. QED
  BY <1>1, <1>2, <1>3, <1>4, <1>5, <1>6, <1>7 DEF Environment

(* A file that names somebody exists, and names nobody else.               *)
LEMMA NamingFacts ==
  /\ \A m, n \in Launch : Naming(m) = Naming(n) => m = n
  /\ \A n \in Launch : Naming(n).exists /\ Naming(n) # Empty /\ Naming(n) # Absent
  BY LaunchFacts DEF Naming, Empty, Absent

(* A new helper is not recorded, and no other begins to run.               *)
LEMMA LaunchHelperRecords ==
  ASSUME OneAtATime, SafetyInv, RecordsInv, NEW p \in Command, LaunchHelper(p)
  PROVE  RecordsInv'
<1> DEFINE next == NextLaunch(helper)
<1>1. next \in Launch /\ helper[next] = "none"
  BY NextLaunchIsFree DEF LaunchHelper
<1>2. /\ At(p, "guard") /\ ~awakeFile.exists
      /\ helper' = [helper EXCEPT ![next] = "up"]
      /\ command' = [command EXCEPT ![p] = [@ EXCEPT !.step = "guardfile", !.child = next]]
      /\ UNCHANGED <<runtime, files, history>>
  BY DEF LaunchHelper
<1> HIDE DEF next
<1>3. RecordsName'
  <2>1. \A n \in guarded : helper[n] \notin Running
    BY <1>2, NamingFacts DEF RecordsInv, RecordsName, SafetyInv, TypeOK
  <2>2. \A n \in guarded : n # next => helper'[n] = helper[n]
    BY <1>2 DEF SafetyInv, TypeOK
  <2>q. QED
    BY <1>1, <1>2, <2>1, <2>2
    DEF RecordsInv, RecordsName, RecordedAreLaunched, files, history
<1>4. RecordedAreLaunched'
  BY <1>1, <1>2
  DEF OneAtATime, SafetyInv, TypeOK, CommandRecord, RecordsInv, RecordedAreLaunched, history
<1>5. PidFileAtStep' /\ AwakeFileAtStep'
  BY <1>2
  DEF OneAtATime, SafetyInv, TypeOK, CommandRecord, At, RecordsInv, PidFileAtStep,
      AwakeFileAtStep, files
<1>6. RuntimeAtStep' /\ QuietAtRelease'
  BY <1>2
  DEF OneAtATime, SafetyInv, TypeOK, CommandRecord, At, RecordsInv, RuntimeAtStep,
      QuietAtRelease, history
<1>q. QED
  BY <1>3, <1>4, <1>5, <1>6 DEF RecordsInv

(* The file is empty before, so that nobody else who is recorded runs.     *)
LEMMA WriteGuardFileRecords ==
  ASSUME OneAtATime, SafetyInv, RecordsInv, NEW p \in Command, WriteGuardFile(p)
  PROVE  RecordsInv'
<1>1. RecordsName'
  <2>1. \A n \in guarded : helper[n] \notin Running
    BY NamingFacts
    DEF WriteGuardFile, RecordsInv, RecordsName, AwakeFileAtStep, At, SafetyInv, TypeOK
  <2>q. QED
    BY <2>1 DEF WriteGuardFile, RecordsInv, RecordsName, Goto, processes
<1>2. /\ RecordedAreLaunched' /\ PidFileAtStep' /\ AwakeFileAtStep'
      /\ RuntimeAtStep' /\ QuietAtRelease'
  BY DEF WriteGuardFile, OneAtATime, SafetyInv, TypeOK, CommandRecord, At, Goto, Moves,
         RecordsInv, RecordedAreLaunched, PidFileAtStep, AwakeFileAtStep, RuntimeAtStep,
         QuietAtRelease, processes
<1>q. QED
  BY <1>1, <1>2 DEF RecordsInv

(* Likewise for the pid file: the Runtime it will name is the only one.    *)
LEMMA WritePidFileRecords ==
  ASSUME OneAtATime, SafetyInv, RecordsInv, NEW p \in Command, WritePidFile(p)
  PROVE  RecordsInv'
<1>1. RecordsName'
  <2>1. \A n \in recorded : runtime[n] \notin Running
    BY NamingFacts
    DEF WritePidFile, RecordsInv, RecordsName, RecordedAreLaunched, PidFileAtStep, At,
        SafetyInv, TypeOK
  <2>2. command[p].runtime \in Launch
    BY DEF WritePidFile, At, SafetyInv, StepsNameProcesses
  <2>3. \A n \in Launch : pidFile' = Naming(n) => n = command[p].runtime
    BY <2>2, NamingFacts DEF WritePidFile
  <2>q. QED
    BY <2>1, <2>3 DEF WritePidFile, RecordsInv, RecordsName, Goto, processes
<1>2. /\ RecordedAreLaunched' /\ PidFileAtStep' /\ AwakeFileAtStep'
      /\ RuntimeAtStep' /\ QuietAtRelease'
  BY DEF WritePidFile, OneAtATime, SafetyInv, TypeOK, CommandRecord, At, Goto, Moves,
         RecordsInv, RecordedAreLaunched, PidFileAtStep, AwakeFileAtStep, RuntimeAtStep,
         QuietAtRelease, processes
<1>q. QED
  BY <1>1, <1>2 DEF RecordsInv

(* The Runtime that a stop is about to work on is the recorded one.        *)
LEMMA ReadLiveRecords ==
  ASSUME OneAtATime, SafetyInv, RecordsInv, NEW p \in Command, ReadLive(p)
  PROVE  RecordsInv'
<1>1. PICK n \in Launch, step \in {"signal", "view"} :
         /\ Managed(n)
         /\ command' = [command EXCEPT ![p] = [@ EXCEPT !.runtime = n, !.step = step]]
         /\ UNCHANGED <<processes, files, history>>
  BY ReadLiveEffect
<1>2. pidFile = Naming(n)
  BY <1>1 DEF Managed
<1>3. command'[p].step = step /\ command'[p].runtime = n
  BY <1>1 DEF SafetyInv, TypeOK, CommandRecord
<1>q. QED
  BY <1>1, <1>2, <1>3
  DEF OneAtATime, At, RecordsInv, RecordsName, RecordedAreLaunched, PidFileAtStep,
      AwakeFileAtStep, RuntimeAtStep, QuietAtRelease, processes, files, history

(* The named helper has ended, and with it every recorded one.             *)
LEMMA ReleaseStaleRecords ==
  ASSUME OneAtATime, SafetyInv, RecordsInv, NEW p \in Command, ReleaseStale(p)
  PROVE  RecordsInv'
<1>1. \A n \in guarded : helper[n] \notin Running
  <2>1. PICK n \in Launch : awakeFile = Naming(n) /\ helper[n] = "gone"
    BY DEF ReleaseStale
  <2>2. \A m \in guarded : awakeFile = Naming(m) => m = n
    BY <2>1, NamingFacts DEF SafetyInv, TypeOK
  <2>q. QED
    BY <2>1, <2>2 DEF RecordsInv, RecordsName, Running
<1>2. UNCHANGED <<pidFile, recorded, guarded>>
  BY DEF ReleaseStale, history
<1>3. CASE Exit(p)
  BY <1>1, <1>2, <1>3
  DEF Exit, Idle, RuntimeChild, HelperChild, Running, OneAtATime, SafetyInv, TypeOK,
      CommandRecord, At, RecordsInv, RecordsName, RecordedAreLaunched, PidFileAtStep,
      AwakeFileAtStep,
      RuntimeAtStep, QuietAtRelease
<1>4. CASE Goto(p, "safe")
  BY <1>1, <1>2, <1>4
  DEF ReleaseStale, Goto, Moves, processes, OneAtATime, SafetyInv, TypeOK,
      CommandRecord, At, RecordsInv, RecordsName, RecordedAreLaunched, PidFileAtStep,
      AwakeFileAtStep,
      RuntimeAtStep, QuietAtRelease
<1>q. QED
  BY <1>3, <1>4 DEF ReleaseStale, Released

(* With one command at a time, every action keeps the records.             *)
LEMMA StartRecords ==
  ASSUME OneAtATime, SafetyInv, RecordsInv, NEW p \in Command, Start(p)
  PROVE  RecordsInv'
<1> USE DEF At, Moves, Goto, Exit, Idle, RuntimeChild, HelperChild, Released, processes,
            files, history, OneAtATime, SafetyInv, TypeOK, StepsNameProcesses,
            RecordsInv, RecordsName, RecordedAreLaunched, PidFileAtStep,
            AwakeFileAtStep, RuntimeAtStep, QuietAtRelease, CommandRecord, Managed,
            IdentityAlive, Running, Signalled, Absent, Empty, Naming, File, Stopped,
            HelperGone, MayStart, CanLaunch
<1>1. CASE StartAdmitted(p)
  BY <1>1 DEF StartAdmitted
<1>2. CASE StartRefused(p)
  BY <1>2 DEF StartRefused
<1>3. CASE GuardStands(p)
  BY <1>3 DEF GuardStands
<1>4. CASE RecoverGuard(p)
  BY <1>4 DEF RecoverGuard
<1>5. CASE LaunchHelper(p)
  BY <1>5, LaunchHelperRecords
<1>6. CASE GuardRefused(p)
  BY <1>6 DEF GuardRefused
<1>7. CASE HelperUnverified(p)
  BY <1>7 DEF HelperUnverified
<1>8. CASE CreateGuardFile(p)
  BY <1>8 DEF CreateGuardFile
<1>9. CASE WriteGuardFile(p)
  BY <1>9, WriteGuardFileRecords
<1>10. CASE LaunchRuntime(p)
  BY <1>10, NextLaunchIsFree DEF LaunchRuntime
<1>11. CASE LaunchFails(p)
  BY <1>11, LaunchFacts DEF LaunchFails
<1>12. CASE RuntimeUnverified(p)
  BY <1>12 DEF RuntimeUnverified
<1>13. CASE CreatePidFile(p)
  BY <1>13, LaunchFacts DEF CreatePidFile
<1>14. CASE WritePidFile(p)
  BY <1>14, WritePidFileRecords
<1>15. CASE StartSucceeds(p)
  BY <1>15 DEF StartSucceeds
<1>16. CASE StartSeesExit(p)
  BY <1>16 DEF StartSeesExit
<1>17. CASE StartTimesOut(p)
  BY <1>17 DEF StartTimesOut
<1>18. CASE StartGivesUp(p)
  BY <1>18 DEF StartGivesUp
<1>q. QED
  BY <1>1, <1>2, <1>3, <1>4, <1>5, <1>6, <1>7, <1>8, <1>9, <1>10, <1>11, <1>12, <1>13,
     <1>14, <1>15, <1>16, <1>17, <1>18
  DEF Start

(* The same for Stop.                                                      *)
LEMMA StopRecords ==
  ASSUME OneAtATime, SafetyInv, RecordsInv, NEW p \in Command, Stop(p)
  PROVE  RecordsInv'
<1> USE DEF At, Moves, Goto, Exit, Idle, RuntimeChild, HelperChild, Released, processes,
            files, history, OneAtATime, SafetyInv, TypeOK, StepsNameProcesses,
            RecordsInv, RecordsName, RecordedAreLaunched, PidFileAtStep,
            AwakeFileAtStep, RuntimeAtStep, QuietAtRelease, CommandRecord, Managed,
            IdentityAlive, Running, Signalled, Absent, Empty, Naming, File, Stopped,
            HelperGone, MayStart, CanLaunch
<1>1. CASE ReadNothing(p)
  BY <1>1, LaunchFacts DEF ReadNothing
<1>2. CASE ReadRefused(p)
  BY <1>2 DEF ReadRefused
<1>3. CASE ReadStale(p)
  BY <1>3 DEF ReadStale
<1>4. CASE ReadLive(p)
  BY <1>4, ReadLiveRecords
<1>5. CASE ViewIdle(p)
  BY <1>5 DEF ViewIdle
<1>6. CASE ViewRefused(p)
  BY <1>6 DEF ViewRefused
<1>7. CASE SignalRuntime(p)
  BY <1>7 DEF SignalRuntime
<1>8. CASE WaitForExit(p)
  BY <1>8 DEF WaitForExit
<1>9. CASE CompleteStop(p)
  BY <1>9, LaunchFacts DEF CompleteStop
<1>10. CASE FinishFindsNothing(p)
  BY <1>10, LaunchFacts DEF FinishFindsNothing
<1>11. CASE FinishFinds(p)
  BY <1>11 DEF FinishFinds
<1>12. CASE Drained(p)
  BY <1>12 DEF Drained
<1>13. CASE StatusRunning(p)
  BY <1>13 DEF StatusRunning
<1>14. CASE StatusStopped(p)
  BY <1>14, LaunchFacts DEF StatusStopped
<1>q. QED
  BY <1>1, <1>2, <1>3, <1>4, <1>5, <1>6, <1>7, <1>8, <1>9, <1>10, <1>11, <1>12, <1>13,
     <1>14
  DEF Stop

(* The same for Release.                                                   *)
LEMMA ReleaseRecords ==
  ASSUME OneAtATime, SafetyInv, RecordsInv, NEW p \in Command, Release(p)
  PROVE  RecordsInv'
<1> USE DEF At, Moves, Goto, Exit, Idle, RuntimeChild, HelperChild, Released, processes,
            files, history, OneAtATime, SafetyInv, TypeOK, StepsNameProcesses,
            RecordsInv, RecordsName, RecordedAreLaunched, PidFileAtStep,
            AwakeFileAtStep, RuntimeAtStep, QuietAtRelease, CommandRecord, Managed,
            IdentityAlive, Running, Signalled, Absent, Empty, Naming, File, Stopped,
            HelperGone, MayStart, CanLaunch
<1>1. CASE ReleaseNothing(p)
  BY <1>1 DEF ReleaseNothing
<1>2. CASE ReleaseRefused(p)
  BY <1>2 DEF ReleaseRefused
<1>3. CASE ReleaseStale(p)
  BY <1>3, ReleaseStaleRecords
<1>4. CASE ReleaseLive(p)
  BY <1>4 DEF ReleaseLive
<1>5. CASE SignalHelper(p)
  BY <1>5 DEF SignalHelper
<1>6. CASE HelperReleased(p)
  BY <1>6 DEF HelperReleased
<1>7. CASE HelperRetained(p)
  BY <1>7 DEF HelperRetained
<1>8. CASE Report(p)
  BY <1>8 DEF Report
<1>q. QED
  BY <1>1, <1>2, <1>3, <1>4, <1>5, <1>6, <1>7, <1>8 DEF Release

(* The same for Environment.                                               *)
LEMMA EnvironmentRecords ==
  ASSUME OneAtATime, SafetyInv, RecordsInv, NEW n \in Launch, Environment(n)
  PROVE  RecordsInv'
<1> USE DEF At, Moves, Goto, Exit, Idle, RuntimeChild, HelperChild, Released, processes,
            files, history, OneAtATime, SafetyInv, TypeOK, StepsNameProcesses,
            RecordsInv, RecordsName, RecordedAreLaunched, PidFileAtStep,
            AwakeFileAtStep, RuntimeAtStep, QuietAtRelease, CommandRecord, Managed,
            IdentityAlive, Running, Signalled, Absent, Empty, Naming, File, Stopped,
            HelperGone, MayStart, CanLaunch
<1>1. CASE RuntimeServes(n)
  BY <1>1 DEF RuntimeServes
<1>2. CASE RuntimeWorks(n)
  BY <1>2 DEF RuntimeWorks
<1>3. CASE RuntimeRests(n)
  BY <1>3 DEF RuntimeRests
<1>4. CASE RuntimeEnds(n)
  BY <1>4 DEF RuntimeEnds
<1>5. CASE RuntimePidReused(n)
  BY <1>5 DEF RuntimePidReused
<1>6. CASE HelperEnds(n)
  BY <1>6 DEF HelperEnds
<1>7. CASE HelperPidReused(n)
  BY <1>7 DEF HelperPidReused
<1>q. QED
  BY <1>1, <1>2, <1>3, <1>4, <1>5, <1>6, <1>7 DEF Environment

(***************************************************************************)
(* Theorems.                                                               *)
(***************************************************************************)
LEMMA SafetyInit == Init => SafetyInv
<1>1. ASSUME Init PROVE TypeOK
  BY <1>1, LaunchFacts
  DEF Init, TypeOK, Status, File, Absent, Idle, CommandRecord, Step
<1>2. ASSUME Init, NEW p \in Command PROVE command[p].step = "idle"
  BY <1>2 DEF Init, Idle
<1>3. ASSUME Init PROVE StepsNameProcesses /\ SignalsAreProven
  BY <1>2, <1>3 DEF StepsNameProcesses, SignalsAreProven, At
<1>4. ASSUME Init PROVE NoStrangerSignalled
  BY <1>4 DEF Init, NoStrangerSignalled
<1>q. QED
  BY <1>1, <1>3, <1>4 DEF SafetyInv

(* A command that begins works on no process yet.                          *)
LEMMA BeginSafety ==
  ASSUME SafetyInv, NEW p \in Command, Begin(p)
  PROVE  SafetyInv'
<1>1. PICK action \in Action :
         /\ command' = [command EXCEPT ![p] = [@ EXCEPT !.action = action,
                                                         !.step = FirstStep[action]]]
         /\ UNCHANGED <<processes, files, history>>
  BY DEF Begin
<1>2. FirstStep[action] \in {"check", "find", "look", "read"}
  BY DEF FirstStep, Action
<1>3. TypeOK'
  BY <1>1, <1>2
  DEF SafetyInv, TypeOK, CommandRecord, Step, processes, files, history
<1>4. StepsNameProcesses' /\ SignalsAreProven' /\ NoStrangerSignalled'
  BY <1>1, <1>2
  DEF SafetyInv, TypeOK, CommandRecord, StepsNameProcesses, SignalsAreProven,
      NoStrangerSignalled, At, processes, files, history
<1>q. QED
  BY <1>3, <1>4 DEF SafetyInv

(* A command that exits, and changes no file, disturbs nothing.            *)
LEMMA ExitSafety ==
  ASSUME SafetyInv, NEW p \in Command, Exit(p), UNCHANGED <<files, history>>
  PROVE  SafetyInv'
<1>1. TypeOK'
  BY ExitKeepsType DEF SafetyInv
<1>2. StepsNameProcesses' /\ SignalsAreProven' /\ NoStrangerSignalled'
  BY LaunchFacts
  DEF SafetyInv, TypeOK, StepsNameProcesses, SignalsAreProven, NoStrangerSignalled, Exit,
      Idle, At, RuntimeChild, HelperChild, CommandRecord, files, history
<1>q. QED
  BY <1>1, <1>2 DEF SafetyInv

(* A reboot ends every process and every command.                          *)
LEMMA RebootSafety ==
  ASSUME SafetyInv, Reboot
  PROVE  SafetyInv'
<1>1. TypeOK'
  BY LaunchFacts
  DEF Reboot, SafetyInv, TypeOK, Status, Running, Idle, CommandRecord, Step, files, history
<1>2. StepsNameProcesses' /\ SignalsAreProven' /\ NoStrangerSignalled'
  BY DEF Reboot, SafetyInv, StepsNameProcesses, SignalsAreProven, NoStrangerSignalled,
         Idle, At, history
<1>q. QED
  BY <1>1, <1>2 DEF SafetyInv

(* The invariant of any number of commands is inductive.                   *)
LEMMA SafetyStep == SafetyInv /\ [Next]_vars => SafetyInv'
<1> SUFFICES ASSUME SafetyInv, [Next]_vars PROVE SafetyInv'
  OBVIOUS
<1>0. TypeOK /\ StepsNameProcesses
  BY DEF SafetyInv
<1>1. ASSUME NEW p \in Command, Start(p) PROVE SafetyInv'
  BY <1>0, <1>1, StartType, StartNames, StartProves DEF SafetyInv
<1>2. ASSUME NEW p \in Command, Stop(p) PROVE SafetyInv'
  BY <1>0, <1>2, StopType, StopNames, StopProves DEF SafetyInv
<1>3. ASSUME NEW p \in Command, Release(p) PROVE SafetyInv'
  BY <1>0, <1>3, ReleaseType, ReleaseNames, ReleaseProves DEF SafetyInv
<1>4. ASSUME NEW n \in Launch, Environment(n) PROVE SafetyInv'
  BY <1>0, <1>4, EnvironmentType, EnvironmentNames, EnvironmentProves DEF SafetyInv
<1>5. ASSUME NEW p \in Command, Begin(p) PROVE SafetyInv'
  BY <1>5, BeginSafety
<1>6. ASSUME NEW p \in Command, DrainRefused(p) \/ Crash(p) PROVE SafetyInv'
  BY <1>6, ExitSafety DEF DrainRefused, Crash
<1>7. CASE Reboot
  BY <1>7, RebootSafety
<1>8. CASE UNCHANGED vars
  BY <1>8
  DEF vars, SafetyInv, TypeOK, StepsNameProcesses, SignalsAreProven, NoStrangerSignalled, At
<1>q. QED
  BY <1>1, <1>2, <1>3, <1>4, <1>5, <1>6, <1>7, <1>8 DEF Next

(* It holds in every behaviour.                                            *)
LEMMA SafetyHolds == Spec => []SafetyInv
  BY SafetyInit, SafetyStep, PTL DEF Spec

(* Processes, files and commands are of their types, however many commands *)
(* of project.py run at the same time.                                     *)
THEOREM ControlTypeCorrect == Spec => []TypeOK
<1>1. SafetyInv => TypeOK
  BY DEF SafetyInv
<1>q. QED
  BY <1>1, SafetyHolds, PTL

(* Whatever commands overlap, crash or find after a reboot, none signals a *)
(* process whose identity it has not proven.                               *)
THEOREM StrangersAreNotSignalled == Spec => []NoStrangerSignalled
<1>1. SafetyInv => NoStrangerSignalled
  BY DEF SafetyInv
<1>q. QED
  BY <1>1, SafetyHolds, PTL

-----------------------------------------------------------------------------
(* Initially nothing is recorded.                                          *)
LEMMA RecordsInit == Init => RecordsInv
  BY LaunchFacts
  DEF Init, RecordsInv, RecordsName, RecordedAreLaunched, PidFileAtStep, AwakeFileAtStep,
      RuntimeAtStep, QuietAtRelease, Idle, At, Absent, Naming

(* A command that begins relies on no record yet.                          *)
LEMMA BeginRecords ==
  ASSUME SafetyInv, RecordsInv, NEW p \in Command, Begin(p)
  PROVE  RecordsInv'
<1>1. PICK action \in Action :
         /\ At(p, "idle")
         /\ command' = [command EXCEPT ![p] = [@ EXCEPT !.action = action,
                                                         !.step = FirstStep[action]]]
         /\ UNCHANGED <<processes, files, history>>
  BY DEF Begin
<1>2. FirstStep[action] \in {"check", "find", "look", "read"}
  BY DEF FirstStep, Action
<1>q. QED
  BY <1>1, <1>2
  DEF SafetyInv, TypeOK, CommandRecord, RecordsInv, RecordsName, RecordedAreLaunched,
      PidFileAtStep, AwakeFileAtStep, RuntimeAtStep, QuietAtRelease, At, processes, files,
      history

(* One that exits relies on none any more.                                 *)
LEMMA ExitRecords ==
  ASSUME OneAtATime, SafetyInv, RecordsInv, NEW p \in Command, Exit(p),
         UNCHANGED <<files, history>>
  PROVE  RecordsInv'
  BY LaunchFacts
  DEF OneAtATime, SafetyInv, TypeOK, CommandRecord, RecordsInv, RecordsName,
      RecordedAreLaunched, PidFileAtStep, AwakeFileAtStep, RuntimeAtStep, QuietAtRelease,
      Exit, Idle, At, RuntimeChild, HelperChild, Running, files, history

(* After a reboot nothing that is recorded runs.                           *)
LEMMA RebootRecords ==
  ASSUME SafetyInv, RecordsInv, Reboot
  PROVE  RecordsInv'
  BY DEF SafetyInv, TypeOK, RecordsInv, RecordsName, RecordedAreLaunched, PidFileAtStep,
         AwakeFileAtStep, RuntimeAtStep, QuietAtRelease, Reboot, Idle, At, Running, files,
         history

(* The invariant of one command at a time is inductive.                    *)
LEMMA RecordsStep ==
  ASSUME OneAtATime
  PROVE  SafetyInv /\ RecordsInv /\ [Next]_vars => RecordsInv'
<1> SUFFICES ASSUME SafetyInv, RecordsInv, [Next]_vars PROVE RecordsInv'
  OBVIOUS
<1>1. ASSUME NEW p \in Command, Start(p) PROVE RecordsInv'
  BY <1>1, StartRecords
<1>2. ASSUME NEW p \in Command, Stop(p) PROVE RecordsInv'
  BY <1>2, StopRecords
<1>3. ASSUME NEW p \in Command, Release(p) PROVE RecordsInv'
  BY <1>3, ReleaseRecords
<1>4. ASSUME NEW n \in Launch, Environment(n) PROVE RecordsInv'
  BY <1>4, EnvironmentRecords
<1>5. ASSUME NEW p \in Command, Begin(p) PROVE RecordsInv'
  BY <1>5, BeginRecords
<1>6. ASSUME NEW p \in Command, DrainRefused(p) \/ Crash(p) PROVE RecordsInv'
  BY <1>6, ExitRecords DEF DrainRefused, Crash
<1>7. CASE Reboot
  BY <1>7, RebootRecords
<1>8. CASE UNCHANGED vars
  BY <1>8
  DEF vars, RecordsInv, RecordsName, RecordedAreLaunched, PidFileAtStep, AwakeFileAtStep,
      RuntimeAtStep, QuietAtRelease, At
<1>q. QED
  BY <1>1, <1>2, <1>3, <1>4, <1>5, <1>6, <1>7, <1>8 DEF Next

(* It holds in every behaviour with one command at a time.                 *)
LEMMA RecordsHold ==
  ASSUME OneAtATime
  PROVE  Spec => [](SafetyInv /\ RecordsInv)
  BY SafetyInit, SafetyStep, RecordsInit, RecordsStep, PTL DEF Spec

(* With one command at a time, at most one Runtime that was ever recorded  *)
(* is alive.                                                               *)
THEOREM RuntimeIsSingle ==
  ASSUME OneAtATime
  PROVE  Spec => []SingleRuntime
<1>1. SafetyInv /\ RecordsInv => SingleRuntime
  BY NamingFacts DEF SafetyInv, TypeOK, RecordsInv, RecordsName, SingleRuntime
<1>q. QED
  BY <1>1, RecordsHold, PTL

(* A step of a command leaves the files alone, or it is one of these.      *)
LEMMA FileSteps ==
  ASSUME [Next]_vars
  PROVE  \/ UNCHANGED files
         \/ \E p \in Command :
               \/ CreatePidFile(p)
               \/ WritePidFile(p)
               \/ CompleteStop(p)
               \/ RecoverGuard(p)
               \/ CreateGuardFile(p)
               \/ WriteGuardFile(p)
               \/ ReleaseStale(p)
               \/ HelperReleased(p)
<1> USE DEF files
<1>1. ASSUME NEW p \in Command, Start(p)
      PROVE  \/ UNCHANGED files \/ CreatePidFile(p) \/ WritePidFile(p) \/ RecoverGuard(p)
             \/ CreateGuardFile(p) \/ WriteGuardFile(p)
  BY <1>1
  DEF Start, StartAdmitted, StartRefused, GuardStands, LaunchHelper, GuardRefused,
      HelperUnverified, LaunchRuntime, LaunchFails, RuntimeUnverified, StartSucceeds,
      StartSeesExit, StartTimesOut, StartGivesUp
<1>2. ASSUME NEW p \in Command, Stop(p)
      PROVE  UNCHANGED files \/ CompleteStop(p)
  BY <1>2
  DEF Stop, ReadNothing, ReadRefused, ReadStale, ReadLive, ViewIdle, ViewRefused,
      SignalRuntime, WaitForExit, FinishFindsNothing, FinishFinds, Drained, StatusRunning,
      StatusStopped
<1>3. ASSUME NEW p \in Command, Release(p)
      PROVE  UNCHANGED files \/ ReleaseStale(p) \/ HelperReleased(p)
  BY <1>3
  DEF Release, ReleaseNothing, ReleaseRefused, ReleaseLive, SignalHelper, HelperRetained,
      Report
<1>4. ASSUME NEW n \in Launch, Environment(n) PROVE UNCHANGED files
  BY <1>4
  DEF Environment, RuntimeServes, RuntimeWorks, RuntimeRests, RuntimeEnds,
      RuntimePidReused, HelperEnds, HelperPidReused
<1>5. ASSUME NEW p \in Command, Begin(p) \/ DrainRefused(p) \/ Crash(p)
      PROVE  UNCHANGED files
  BY <1>5 DEF Begin, DrainRefused, Crash
<1>6. CASE Reboot
  BY <1>6 DEF Reboot
<1>7. CASE UNCHANGED vars
  BY <1>7 DEF vars
<1>q. QED
  BY <1>1, <1>2, <1>3, <1>4, <1>5, <1>6, <1>7 DEF Next

(* Each step that changes a file finds it without a living process.        *)
LEMMA RecordsOutliveStep ==
  ASSUME SafetyInv, RecordsInv, [Next]_vars, NEW n \in Launch
  PROVE  /\ pidFile = Naming(n) /\ runtime[n] \in Running => pidFile' = pidFile
         /\ awakeFile = Naming(n) /\ helper[n] \in Running => awakeFile' = awakeFile
<1>1. CASE UNCHANGED files
  BY <1>1 DEF files
<1> USE DEF At
<1>2. ASSUME NEW p \in Command, CreatePidFile(p) \/ WritePidFile(p) \/ CompleteStop(p)
      PROVE  /\ awakeFile' = awakeFile
             /\ pidFile = Naming(n) => runtime[n] \notin Running
  BY <1>2, NamingFacts
  DEF CreatePidFile, WritePidFile, CompleteStop, RecordsInv, PidFileAtStep
<1>3. ASSUME NEW p \in Command, CreateGuardFile(p) \/ WriteGuardFile(p)
      PROVE  /\ pidFile' = pidFile
             /\ awakeFile # Naming(n)
  BY <1>3, NamingFacts DEF CreateGuardFile, WriteGuardFile, RecordsInv, AwakeFileAtStep
<1>4. ASSUME NEW p \in Command, RecoverGuard(p) \/ ReleaseStale(p)
      PROVE  /\ pidFile' = pidFile
             /\ awakeFile = Naming(n) => helper[n] \notin Running
  <2>1. pidFile' = pidFile
    BY <1>4 DEF RecoverGuard, ReleaseStale
  <2>2. PICK m \in Launch : awakeFile = Naming(m) /\ helper[m] = "gone"
    BY <1>4 DEF RecoverGuard, ReleaseStale
  <2>q. QED
    BY <2>1, <2>2, NamingFacts DEF Running
<1>5. ASSUME NEW p \in Command, HelperReleased(p)
      PROVE  /\ pidFile' = pidFile
             /\ awakeFile = Naming(n) => helper[n] \notin Running
  <2>1. /\ awakeFile = Naming(command[p].guard)
        /\ command[p].guard \in Launch
    BY <1>5
    DEF HelperReleased, RecordsInv, AwakeFileAtStep, SafetyInv, StepsNameProcesses
  <2>q. QED
    BY <1>5, <2>1, NamingFacts DEF HelperReleased, HelperGone, Running
<1>q. QED
  BY <1>1, <1>2, <1>3, <1>4, <1>5, FileSteps

(* With one command at a time, no record is removed or overwritten while   *)
(* its process lives.                                                      *)
THEOREM RecordsAreKept ==
  ASSUME OneAtATime
  PROVE  Spec => RecordsOutliveProcesses
<1> DEFINE Kept == \A n \in Launch :
         /\ pidFile = Naming(n) /\ runtime[n] \in Running => pidFile' = pidFile
         /\ awakeFile = Naming(n) /\ helper[n] \in Running => awakeFile' = awakeFile
<1>1. SafetyInv /\ RecordsInv /\ [Next]_vars => Kept
  BY RecordsOutliveStep
<1>q. QED
  BY <1>1, RecordsHold, PTL DEF Spec, RecordsOutliveProcesses

(* BookkeepingOutlivesRuntime fails only by commands that overlap: with    *)
(* one at a time, status, stop and a failed start remove the pid file      *)
(* only when the Runtime it names has ended.                               *)
THEOREM BookkeepingIsKept ==
  ASSUME OneAtATime
  PROVE  Spec => BookkeepingOutlivesRuntime
<1> DEFINE Kept == \A n \in Launch : pidFile = Naming(n) /\ pidFile' = Absent =>
         runtime[n] \notin Running
<1>1. SafetyInv /\ RecordsInv /\ [Next]_vars => Kept
  BY RecordsOutliveStep DEF Naming, Absent
<1>q. QED
  BY <1>1, RecordsHold, PTL DEF Spec, BookkeepingOutlivesRuntime

(* With one command at a time, the awake guard is never released under a   *)
(* recorded Runtime, nor under the releasing command's own.                *)
THEOREM GuardIsKept ==
  ASSUME OneAtATime
  PROVE  Spec => GuardOutlivesRuntime
<1> DEFINE Kept == \A p \in Command : At(p, "kill") /\ At(p, "waithelper")' =>
         \A n \in recorded \cup ({command[p].runtime} \cap Launch) :
            runtime[n] \notin Running
<1>1. SafetyInv /\ RecordsInv => Kept
  BY DEF RecordsInv, QuietAtRelease, At
<1>q. QED
  BY <1>1, RecordsHold, PTL DEF Spec, GuardOutlivesRuntime

(* With one command at a time, SAFE TO SHUT DOWN is never reported while a *)
(* recorded Runtime or helper runs.                                        *)
THEOREM SafeIsSafe ==
  ASSUME OneAtATime
  PROVE  Spec => []SafeMeansStopped
<1>1. RecordsInv => SafeMeansStopped
  BY DEF RecordsInv, QuietAtRelease, SafeMeansStopped, At
<1>q. QED
  BY <1>1, RecordsHold, PTL
=============================================================================
