--------------------------- MODULE ProjectControl ---------------------------
(***************************************************************************)
(* project.py: start, stop, stop-now, finish, status and the stop-now of a *)
(* project whose profile cannot be resolved, over the pid file, the        *)
(* Runtime's process, the awake guard's file and its helper process.       *)
(*                                                                         *)
(* A command is a host process.  It reads, waits, signals and writes in    *)
(* separate steps; it may be killed between any two, and the host may be   *)
(* rebooted.  A child of a living command that dies stays a zombie until   *)
(* the command reaps it or exits.                                          *)
(***************************************************************************)
EXTENDS Integers

CONSTANTS
    Command,      \* project.py processes that may be alive at the same time
    MaxLaunches   \* bound: Runtimes, and helpers, that are ever launched

ASSUME ControlAssumption == MaxLaunches \in Nat

VARIABLES
    runtime,     \* status of each launched Runtime, by launch
    helper,      \* status of each launched awake helper, by launch
    pidFile,     \* symphony.pid: whether it exists, and whom it names
    awakeFile,   \* host-awake.json, likewise
    command,     \* the commands
    recorded,    \* history: Runtimes the pid file has named
    guarded,     \* history: helpers the awake file has named
    struck       \* history: whether an unrelated process was signalled

processes == <<runtime, helper>>
files == <<pidFile, awakeFile>>
history == <<recorded, guarded, struck>>
vars == <<runtime, helper, pidFile, awakeFile, command, recorded, guarded, struck>>

-----------------------------------------------------------------------------
Launch == 1..MaxLaunches

(* up: started, not serving its dashboard yet (a helper stays up); serving *)
(* and idle; working on an issue; ending after a signal; gone; and reused: *)
(* gone, its pid now an unrelated process's.                               *)
Running == {"up", "serving", "working", "ending"}
Status == Running \cup {"none", "zombie", "gone", "reused"}

\* Mutant: the pid is taken for the identity.
PidAlive(status) == status \in Running \cup {"zombie", "reused"}

(* matches: boot id and start time are those of the record.  A zombie has  *)
(* them still.                                                             *)
IdentityAlive(status) == status \in Running \cup {"zombie"}

(* Names 0: the file is empty, not written yet or never.                   *)
File == [exists : BOOLEAN, names : 0..MaxLaunches]
Absent == [exists |-> FALSE, names |-> 0]
Empty == [exists |-> TRUE, names |-> 0]
Naming(n) == [exists |-> TRUE, names |-> n]

Action == {"start", "stop", "stop-now", "finish", "status", "recover"}
Step == {"idle", "check", "guard", "guardfile", "guardwrite", "launch", "pidfile",
         "pidwrite", "await", "read", "view", "signal", "wait", "complete",
         "release", "kill", "waithelper", "find", "drain", "look",
         "safe", "incomplete"}

(* runtime is the Runtime a start has launched or a stop works on, child   *)
(* the helper that a start has launched, guard the helper to release.      *)
CommandRecord == [action : Action \cup {"none"}, step : Step, runtime : 0..MaxLaunches,
                  child : 0..MaxLaunches, guard : 0..MaxLaunches]
Idle == [action |-> "none", step |-> "idle", runtime |-> 0, child |-> 0, guard |-> 0]

FirstStep == [action \in Action |->
                 CASE action = "start" -> "check"
                   [] action = "finish" -> "find"
                   [] action = "status" -> "look"
                   [] OTHER -> "read"]

Init ==
    /\ runtime = [n \in Launch |-> "none"]
    /\ helper = [n \in Launch |-> "none"]
    /\ pidFile = Absent
    /\ awakeFile = Absent
    /\ command = [p \in Command |-> Idle]
    /\ recorded = {}
    /\ guarded = {}
    /\ struck = FALSE

-----------------------------------------------------------------------------
(* Helpers of the actions.                                                 *)

At(p, step) == command[p].step = step
Moves(p, step) == command' = [command EXCEPT ![p].step = step]
Goto(p, step) == Moves(p, step) /\ UNCHANGED processes

RuntimeChild(p, n) == command[p].action = "start" /\ command[p].runtime = n
HelperChild(p, n) == command[p].child = n

(* A command that exits, or is killed, leaves its zombies to init.         *)
Exit(p) ==
    /\ command' = [command EXCEPT ![p] = Idle]
    /\ runtime' = [n \in Launch |-> IF RuntimeChild(p, n) /\ runtime[n] = "zombie"
                                    THEN "gone" ELSE runtime[n]]
    /\ helper' = [n \in Launch |-> IF HelperChild(p, n) /\ helper[n] = "zombie"
                                   THEN "gone" ELSE helper[n]]

(* SIGTERM to a pid whose process is in this condition.                    *)
Signalled(status) == IF status \in Running THEN "ending" ELSE status

CanLaunch(launched) == \E n \in Launch : launched[n] = "none"

NextLaunch(launched) == CHOOSE n \in Launch : launched[n] = "none"

(* _managed_identity *)
Managed(n) == pidFile = Naming(n) /\ n # 0 /\ IdentityAlive(runtime[n])

Begin(p) ==
    /\ At(p, "idle")
    /\ \E action \in Action :
          command' = [command EXCEPT ![p] = [@ EXCEPT !.action = action,
                                                      !.step = FirstStep[action]]]
    /\ UNCHANGED <<processes, files, history>>

-----------------------------------------------------------------------------
(* start                                                                   *)

(* Nobody serves the dashboard's port. *)
PortIsFree == \A n \in Launch : runtime[n] \notin {"serving", "working"}

\* Mutant: only the dashboard's port is looked at.
MayStartOnFreePort == PortIsFree

(* There is no pid file either, stale or not.                              *)
MayStart == PortIsFree /\ ~pidFile.exists

StartAdmitted(p) ==
    /\ At(p, "check")
    /\ MayStart
    /\ Goto(p, "guard")
    /\ UNCHANGED <<files, history>>

(* These or other checks fail: deployment, runtime lock, containment.      *)
StartRefused(p) ==
    /\ At(p, "check")
    /\ Exit(p)
    /\ UNCHANGED <<files, history>>

(* establish_awake_guard: the profile does not ask for one, or the         *)
(* recorded helper is alive.                                               *)
GuardStands(p) ==
    /\ At(p, "guard")
    /\ Goto(p, "launch")
    /\ UNCHANGED <<files, history>>

(* The record of a helper that is gone is removed.                         *)
RecoverGuard(p) ==
    /\ At(p, "guard")
    /\ \E n \in Launch : awakeFile = Naming(n) /\ helper[n] = "gone"
    /\ awakeFile' = Absent
    /\ UNCHANGED <<processes, pidFile, command, history>>

LaunchHelper(p) ==
    /\ At(p, "guard")
    /\ ~awakeFile.exists
    /\ CanLaunch(helper)
    /\ helper' = [helper EXCEPT ![NextLaunch(helper)] = "up"]
    /\ command' = [command EXCEPT ![p] = [@ EXCEPT !.step = "guardfile",
                                                   !.child = NextLaunch(helper)]]
    /\ UNCHANGED <<runtime, files, history>>

(* An unreadable record, a reused pid, no helper to launch.                *)
GuardRefused(p) ==
    /\ At(p, "guard")
    /\ ~ \E n \in Launch : awakeFile = Naming(n) /\ IdentityAlive(helper[n])
    /\ Exit(p)
    /\ UNCHANGED <<files, history>>

(* Its identity cannot be captured: it is terminated, and waited for until *)
(* it ends or the time is over.                                            *)
HelperUnverified(p) ==
    /\ At(p, "guardfile")
    /\ \/ helper' = [helper EXCEPT ![command[p].child] = "gone"]
       \/ /\ helper[command[p].child] \in Running
          /\ helper' = [helper EXCEPT ![command[p].child] = "ending"]
    /\ Moves(p, "incomplete")
    /\ UNCHANGED <<runtime, files, history>>

(* A file is truncated first and written then.                             *)
CreateGuardFile(p) ==
    /\ At(p, "guardfile")
    /\ awakeFile' = Empty
    /\ Goto(p, "guardwrite")
    /\ UNCHANGED <<pidFile, history>>

WriteGuardFile(p) ==
    /\ At(p, "guardwrite")
    /\ awakeFile' = Naming(command[p].child)
    /\ guarded' = guarded \cup {command[p].child}
    /\ Goto(p, "launch")
    /\ UNCHANGED <<pidFile, recorded, struck>>

LaunchRuntime(p) ==
    /\ At(p, "launch")
    /\ CanLaunch(runtime)
    /\ runtime' = [runtime EXCEPT ![NextLaunch(runtime)] = "up"]
    /\ command' = [command EXCEPT ![p] = [@ EXCEPT !.step = "pidfile",
                                                   !.runtime = NextLaunch(runtime)]]
    /\ UNCHANGED <<helper, files, history>>

LaunchFails(p) ==
    /\ At(p, "launch")
    /\ Goto(p, "release")
    /\ UNCHANGED <<files, history>>

\* Mutant: the guard is released although the Runtime has not exited.
ReleaseUnverified(p) ==
    /\ At(p, "pidfile")
    /\ runtime' = [runtime EXCEPT ![command[p].runtime] = Signalled(@)]
    /\ Moves(p, "release")
    /\ UNCHANGED <<helper, files, history>>

(* _terminate_unverified_child: the identity cannot be captured, and the   *)
(* child is terminated, killed and reaped; if it does not exit in time the *)
(* guard is retained.                                                      *)
RuntimeUnverified(p) ==
    /\ At(p, "pidfile")
    /\ \/ /\ runtime' = [runtime EXCEPT ![command[p].runtime] = "gone"]
          /\ Moves(p, "release")
       \/ /\ runtime[command[p].runtime] \in Running
          /\ runtime' = [runtime EXCEPT ![command[p].runtime] = "ending"]
          /\ Moves(p, "incomplete")
    /\ UNCHANGED <<helper, files, history>>

(* _write_process_state *)
CreatePidFile(p) ==
    /\ At(p, "pidfile")
    /\ pidFile' = Empty
    /\ Goto(p, "pidwrite")
    /\ UNCHANGED <<awakeFile, history>>

WritePidFile(p) ==
    /\ At(p, "pidwrite")
    /\ pidFile' = Naming(command[p].runtime)
    /\ recorded' = recorded \cup {command[p].runtime}
    /\ Goto(p, "await")
    /\ UNCHANGED <<awakeFile, guarded, struck>>

(* Whoever serves the dashboard.                                           *)
StartSucceeds(p) ==
    /\ At(p, "await")
    /\ ~PortIsFree
    /\ Exit(p)
    /\ UNCHANGED <<files, history>>

(* poll reaps the child. *)
StartSeesExit(p) ==
    /\ At(p, "await")
    /\ runtime[command[p].runtime] = "zombie"
    /\ runtime' = [runtime EXCEPT ![command[p].runtime] = "gone"]
    /\ Moves(p, "complete")
    /\ UNCHANGED <<helper, files, history>>

\* Mutant: there is no deadline for the dashboard.
StartNeverTimesOut(p) == StartSeesExit(p)

(* The child is alive or, not polled any more, a zombie: it is signalled.  *)
StartTimesOut(p) ==
    /\ At(p, "await")
    /\ IdentityAlive(runtime[command[p].runtime])
    /\ Goto(p, "signal")
    /\ UNCHANGED <<files, history>>

(* It still matches at the deadline, and the records are retained.         *)
StartGivesUp(p) ==
    /\ At(p, "wait")
    /\ command[p].action = "start"
    /\ IdentityAlive(runtime[command[p].runtime])
    /\ Exit(p)
    /\ UNCHANGED <<files, history>>

-----------------------------------------------------------------------------
(* stop, stop-now, finish, status                                          *)

(* No pid file: there is nothing to stop, or nothing to recover.           *)
ReadNothing(p) ==
    /\ At(p, "read")
    /\ ~pidFile.exists
    /\ IF command[p].action = "recover" THEN Exit(p) ELSE Goto(p, "release")
    /\ UNCHANGED <<files, history>>

(* An unreadable file, or a pid that is alive and another's.               *)
ReadRefused(p) ==
    /\ At(p, "read")
    /\ \/ pidFile = Empty
       \/ \E n \in Launch : pidFile = Naming(n) /\ runtime[n] = "reused"
    /\ Exit(p)
    /\ UNCHANGED <<files, history>>

(* The process is gone; project.py takes a pid it may not signal for dead. *)
ReadStale(p) ==
    /\ At(p, "read")
    /\ \E n \in Launch : pidFile = Naming(n) /\ runtime[n] \in {"gone", "reused"}
    /\ Goto(p, "complete")
    /\ UNCHANGED <<files, history>>

(* stop, and finish at its end, look at the Runtime's activity first.      *)
StopStep(action) == IF action \in {"stop-now", "recover"} THEN "signal" ELSE "view"

ReadLive(p) ==
    /\ At(p, "read")
    /\ \E n \in Launch :
          /\ Managed(n)
          /\ command' = [command EXCEPT ![p] =
                            [@ EXCEPT !.runtime = n,
                                      !.step = StopStep(command[p].action)]]
    /\ UNCHANGED <<processes, files, history>>

ViewIdle(p) ==
    /\ At(p, "view")
    /\ \E n \in Launch : runtime[n] = "serving"
    /\ Goto(p, "signal")
    /\ UNCHANGED <<files, history>>

ViewRefused(p) ==
    /\ At(p, "view")
    /\ Exit(p)
    /\ UNCHANGED <<files, history>>

SignalRuntime(p) ==
    LET n == command[p].runtime IN
    /\ At(p, "signal")
    /\ Moves(p, IF runtime[n] = "gone" THEN "complete" ELSE "wait")
    /\ runtime' = [runtime EXCEPT ![n] = Signalled(@)]
    /\ struck' = (struck \/ runtime[n] = "reused")
    /\ UNCHANGED <<helper, files, recorded, guarded>>

\* Mutant: the record is removed once the signal is sent.
SignalSent(p) == TRUE

(* stop waits without a deadline for the signalled process to be gone, and *)
(* start with one, but nobody reaps its child meanwhile.                   *)
Stopped(p) == ~IdentityAlive(runtime[command[p].runtime])

WaitForExit(p) ==
    /\ At(p, "wait")
    /\ Stopped(p)
    /\ Goto(p, "complete")
    /\ UNCHANGED <<files, history>>

(* The pid file is removed, and then the awake guard released.             *)
CompleteStop(p) ==
    /\ At(p, "complete")
    /\ pidFile' = Absent
    /\ Goto(p, "release")
    /\ UNCHANGED <<awakeFile, history>>

FinishFindsNothing(p) ==
    /\ At(p, "find")
    /\ ~ \E n \in Launch : Managed(n)
    /\ Goto(p, "release")
    /\ UNCHANGED <<files, history>>

FinishFinds(p) ==
    /\ At(p, "find")
    /\ \E n \in Launch : Managed(n)
    /\ Goto(p, "drain")
    /\ UNCHANGED <<files, history>>

(* Once the Runtime reports no active issue the normal stop follows.       *)
Drained(p) ==
    /\ At(p, "drain")
    /\ \E n \in Launch : runtime[n] = "serving"
    /\ Goto(p, "read")
    /\ UNCHANGED <<files, history>>

(* The dashboard does not answer, or another issue has appeared.           *)
DrainRefused(p) ==
    /\ At(p, "drain")
    /\ Exit(p)
    /\ UNCHANGED <<files, history>>

StatusRunning(p) ==
    /\ At(p, "look")
    /\ \E n \in Launch : Managed(n)
    /\ Exit(p)
    /\ UNCHANGED <<files, history>>

StatusStopped(p) ==
    /\ At(p, "look")
    /\ ~ \E n \in Launch : Managed(n)
    /\ Goto(p, "complete")
    /\ UNCHANGED <<files, history>>

-----------------------------------------------------------------------------
(* release_awake_guard_at, and the report.                                 *)

(* A failed start says that it failed, any other command that it is safe   *)
(* to shut down.                                                           *)
Released(p) == IF command[p].action = "start" THEN Exit(p) ELSE Goto(p, "safe")

ReleaseNothing(p) ==
    /\ At(p, "release")
    /\ ~awakeFile.exists
    /\ Released(p)
    /\ UNCHANGED <<files, history>>

ReleaseRefused(p) ==
    /\ At(p, "release")
    /\ \/ awakeFile = Empty
       \/ \E n \in Launch : awakeFile = Naming(n) /\ helper[n] = "reused"
    /\ Goto(p, "incomplete")
    /\ UNCHANGED <<files, history>>

ReleaseStale(p) ==
    /\ At(p, "release")
    /\ \E n \in Launch : awakeFile = Naming(n) /\ helper[n] = "gone"
    /\ awakeFile' = Absent
    /\ Released(p)
    /\ UNCHANGED <<pidFile, history>>

ReleaseLive(p) ==
    /\ At(p, "release")
    /\ \E n \in Launch :
          /\ awakeFile = Naming(n)
          /\ IdentityAlive(helper[n])
          /\ command' = [command EXCEPT ![p] = [@ EXCEPT !.step = "kill", !.guard = n]]
    /\ UNCHANGED <<processes, files, history>>

SignalHelper(p) ==
    LET n == command[p].guard IN
    /\ At(p, "kill")
    /\ Moves(p, "waithelper")
    /\ helper' = [helper EXCEPT ![n] = Signalled(@)]
    /\ struck' = (struck \/ helper[n] = "reused")
    /\ UNCHANGED <<runtime, files, recorded, guarded>>

\* Mutant: the deadline passes for the helper's end.
HelperAssumedGone(p) == TRUE

HelperGone(p) == helper[command[p].guard] = "gone"

HelperReleased(p) ==
    /\ At(p, "waithelper")
    /\ HelperGone(p)
    /\ awakeFile' = Absent
    /\ Released(p)
    /\ UNCHANGED <<pidFile, history>>

(* At the deadline of five seconds it still matches, or its pid is reused. *)
HelperRetained(p) ==
    /\ At(p, "waithelper")
    /\ helper[command[p].guard] # "gone"
    /\ Goto(p, "incomplete")
    /\ UNCHANGED <<files, history>>

Report(p) ==
    /\ command[p].step \in {"safe", "incomplete"}
    /\ Exit(p)
    /\ UNCHANGED <<files, history>>

-----------------------------------------------------------------------------
(* The processes themselves, and the host.                                 *)

RuntimeServes(n) ==
    /\ runtime[n] = "up"
    /\ PortIsFree
    /\ runtime' = [runtime EXCEPT ![n] = "serving"]
    /\ UNCHANGED <<helper, files, command, history>>

RuntimeWorks(n) ==
    /\ runtime[n] = "serving"
    /\ runtime' = [runtime EXCEPT ![n] = "working"]
    /\ UNCHANGED <<helper, files, command, history>>

RuntimeRests(n) ==
    /\ runtime[n] = "working"
    /\ runtime' = [runtime EXCEPT ![n] = "serving"]
    /\ UNCHANGED <<helper, files, command, history>>

RuntimeEnds(n) ==
    /\ runtime[n] \in Running
    /\ runtime' = [runtime EXCEPT ![n] = IF \E p \in Command : RuntimeChild(p, n)
                                         THEN "zombie" ELSE "gone"]
    /\ UNCHANGED <<helper, files, command, history>>

HelperEnds(n) ==
    /\ helper[n] \in Running
    /\ helper' = [helper EXCEPT ![n] = IF \E p \in Command : HelperChild(p, n)
                                       THEN "zombie" ELSE "gone"]
    /\ UNCHANGED <<runtime, files, command, history>>

(* A pid is not handed out again in the moment between a command's look at *)
(* an identity and its signal.                                             *)
RuntimePidReused(n) ==
    /\ runtime[n] = "gone"
    /\ ~ \E p \in Command : command[p].step \in {"view", "signal"} /\ command[p].runtime = n
    /\ runtime' = [runtime EXCEPT ![n] = "reused"]
    /\ UNCHANGED <<helper, files, command, history>>

HelperPidReused(n) ==
    /\ helper[n] = "gone"
    /\ ~ \E p \in Command : At(p, "kill") /\ command[p].guard = n
    /\ helper' = [helper EXCEPT ![n] = "reused"]
    /\ UNCHANGED <<runtime, files, command, history>>

Crash(p) ==
    /\ ~At(p, "idle")
    /\ Exit(p)
    /\ UNCHANGED <<files, history>>

Reboot ==
    /\ runtime' = [n \in Launch |-> IF runtime[n] = "none" THEN "none" ELSE "gone"]
    /\ helper' = [n \in Launch |-> IF helper[n] = "none" THEN "none" ELSE "gone"]
    /\ command' = [p \in Command |-> Idle]
    /\ UNCHANGED <<files, history>>

-----------------------------------------------------------------------------
Start(p) ==
    \/ StartAdmitted(p)
    \/ StartRefused(p)
    \/ GuardStands(p)
    \/ RecoverGuard(p)
    \/ LaunchHelper(p)
    \/ GuardRefused(p)
    \/ HelperUnverified(p)
    \/ CreateGuardFile(p)
    \/ WriteGuardFile(p)
    \/ LaunchRuntime(p)
    \/ LaunchFails(p)
    \/ RuntimeUnverified(p)
    \/ CreatePidFile(p)
    \/ WritePidFile(p)
    \/ StartSucceeds(p)
    \/ StartSeesExit(p)
    \/ StartTimesOut(p)
    \/ StartGivesUp(p)

Stop(p) ==
    \/ ReadNothing(p)
    \/ ReadRefused(p)
    \/ ReadStale(p)
    \/ ReadLive(p)
    \/ ViewIdle(p)
    \/ ViewRefused(p)
    \/ SignalRuntime(p)
    \/ WaitForExit(p)
    \/ CompleteStop(p)
    \/ FinishFindsNothing(p)
    \/ FinishFinds(p)
    \/ Drained(p)
    \/ StatusRunning(p)
    \/ StatusStopped(p)

Release(p) ==
    \/ ReleaseNothing(p)
    \/ ReleaseRefused(p)
    \/ ReleaseStale(p)
    \/ ReleaseLive(p)
    \/ SignalHelper(p)
    \/ HelperReleased(p)
    \/ HelperRetained(p)
    \/ Report(p)

Environment(n) ==
    \/ RuntimeServes(n)
    \/ RuntimeWorks(n)
    \/ RuntimeRests(n)
    \/ RuntimeEnds(n)
    \/ RuntimePidReused(n)
    \/ HelperEnds(n)
    \/ HelperPidReused(n)

Next ==
    \/ \E p \in Command :
          Begin(p) \/ Start(p) \/ Stop(p) \/ DrainRefused(p) \/ Release(p) \/ Crash(p)
    \/ \E n \in Launch : Environment(n)
    \/ Reboot

Spec == Init /\ [][Next]_vars

-----------------------------------------------------------------------------
(* Properties.                                                             *)

(* Processes, files and commands hold values of their types.               *)
TypeOK ==
    /\ runtime \in [Launch -> Status]
    /\ helper \in [Launch -> Status]
    /\ pidFile \in File
    /\ awakeFile \in File
    /\ command \in [Command -> CommandRecord]
    /\ recorded \in SUBSET Launch
    /\ guarded \in SUBSET Launch
    /\ struck \in BOOLEAN

(* Whatever a stale or half-written record, a crash or a reboot has left,  *)
(* no command ever signals a process whose identity was not proven.        *)
NoStrangerSignalled == ~struck

(* At most one Runtime of a project that was ever recorded is alive: start *)
(* refuses while a record remains, even when nobody serves the dashboard.  *)
SingleRuntime ==
    \A m, n \in recorded : runtime[m] \in Running /\ runtime[n] \in Running => m = n

(* The record of a Runtime or of a helper is never removed or overwritten  *)
(* while the process it names is alive, on any path of any command (of one *)
(* command at a time: see BookkeepingOutlivesRuntime).                     *)
RecordsOutliveProcesses ==
    [][\A n \in Launch :
         /\ pidFile = Naming(n) /\ runtime[n] \in Running => pidFile' = pidFile
         /\ awakeFile = Naming(n) /\ helper[n] \in Running => awakeFile' = awakeFile]_vars

(* "Remove process bookkeeping only after stop" (project.py:165): the step *)
(* that removes the pid file never removes the record of a living Runtime. *)
BookkeepingOutlivesRuntime ==
    [][\A n \in Launch : pidFile = Naming(n) /\ pidFile' = Absent =>
         runtime[n] \notin Running]_vars

(* The awake guard is never released under a Runtime: neither a recorded   *)
(* one nor the releasing command's own is running when the helper is told  *)
(* to end.                                                                 *)
GuardOutlivesRuntime ==
    [][\A p \in Command : At(p, "kill") /\ At(p, "waithelper")' =>
         \A n \in recorded \cup ({command[p].runtime} \cap Launch) :
            runtime[n] \notin Running]_vars

(* When a command reports SAFE TO SHUT DOWN every Runtime and every helper *)
(* that was ever recorded has ended.  (One whose start was killed before   *)
(* it could write the record is not seen by any command.)                  *)
SafeMeansStopped ==
    \A p \in Command : At(p, "safe") =>
       /\ \A n \in recorded : runtime[n] \notin Running
       /\ \A n \in guarded : helper[n] \notin Running

-----------------------------------------------------------------------------
(* Fairness: a command goes on (its deadlines pass), a signalled process   *)
(* ends, and a Runtime's issue ends; finish is not always shown the next,  *)
(* and gives up when the dashboard does not answer.                        *)
Fairness ==
    /\ \A p \in Command :
          /\ WF_vars(Start(p) \/ Stop(p) \/ Release(p))
          /\ SF_vars(Drained(p))
          /\ WF_vars(PortIsFree /\ DrainRefused(p))
    /\ \A n \in Launch :
          /\ WF_vars(runtime[n] = "ending" /\ RuntimeEnds(n))
          /\ WF_vars(helper[n] = "ending" /\ HelperEnds(n))
          /\ WF_vars(RuntimeRests(n))

FairSpec == Spec /\ Fairness

(* No command waits for ever, although stop and finish have no deadline.   *)
CommandEnds == \A p \in Command : ~At(p, "idle") ~> At(p, "idle")
=============================================================================
