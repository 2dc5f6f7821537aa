------------------------- MODULE ContainedExecution -------------------------
(***************************************************************************)
(* One command run for a Windows caller: wsl_adapter.execute starts        *)
(* wsl.exe, which runs the Linux supervisor wsl_contained_exec, which runs *)
(* the command in a namespace through containment.run_task_domain.         *)
(*                                                                         *)
(* The adapter and run_task_domain wait for their child in the same way:   *)
(* two threads drain its pipes into bounded buffers while the main loop    *)
(* watches for the end, a full buffer, a failed reader and the deadline.   *)
(* Data is counted in chunks of the 8192 bytes that a thread reads.        *)
(***************************************************************************)
EXTENDS Integers

CONSTANTS
    MaxOutput,   \* chunks kept per stream (512)
    PipeSize     \* bound: chunks a pipe holds

ASSUME OutputAssumption == MaxOutput \in Nat \ {0} /\ PipeSize \in Nat \ {0}

VARIABLES
    host,        \* the adapter and the supervisor: where its wait is
    child,       \* the process each waits for: wsl.exe, unshare
    pipe,        \* chunks in each pipe
    buffer,      \* chunks each reader has kept
    reader,      \* the draining threads
    entry,       \* the supervisor's program
    unprinted,   \* chunks that the supervisor has still to print
    contained,   \* the processes in the namespace
    artifact     \* the release output: a plain file (or none), or poisoned

waits == <<host, child>>
data == <<pipe, buffer, reader>>
vars == <<host, child, pipe, buffer, reader, entry, unprinted, contained, artifact>>

-----------------------------------------------------------------------------
Level == {"adapter", "domain"}
Stream == {"stdout", "stderr"}

(* answer: what the wait gives its caller.  command: the command's own     *)
(* status and all of its output; blocked: wsl_contained_exec's 78.         *)
Answer == {"none", "command", "blocked", "killed", "timeout", "output_limit", "error"}
Host == [step : {"idle", "polling", "waiting", "joining", "answered"},
         termination : {"completed", "output_error", "output_limit", "timeout"},
         answer : Answer]

(* A child that is signalled may take its time, or never end.              *)
Child == {"none", "running", "signalled", "gone"}

(* full: the thread met a chunk too many, set output_limit and returned.   *)
Reader == {"idle", "reading", "eof", "full", "failed"}

(* The supervisor: checking deployment, project and backend; running the   *)
(* domain; checking the outputs; printing; ended, or killed from outside.  *)
Entry == {"none", "checking", "running", "outputs", "printing", "command", "blocked", "dead"}

(* Contained processes hold the pipes, or have closed them, or are gone.   *)
Contained == {"none", "writing", "detached", "gone"}

Init ==
    /\ host = [l \in Level |-> [step |-> "idle", termination |-> "completed",
                                answer |-> "none"]]
    /\ child = [l \in Level |-> "none"]
    /\ pipe = [l \in Level |-> [s \in Stream |-> 0]]
    /\ buffer = [l \in Level |-> [s \in Stream |-> 0]]
    /\ reader = [l \in Level |-> [s \in Stream |-> "idle"]]
    /\ entry = "none"
    /\ unprinted = [s \in Stream |-> 0]
    /\ contained = "none"
    /\ artifact = "file"

-----------------------------------------------------------------------------
Steps(l, step) == host[l].step = step
Ready(l) == IF l = "adapter" THEN TRUE ELSE entry = "running"

OutputLimit(l) == \E s \in Stream : reader[l][s] = "full"
ReaderError(l) == \E s \in Stream : reader[l][s] = "failed"
ReadersEnded(l) == \A s \in Stream : reader[l][s] # "reading"

(* Whether somebody holds the writing end of the pipes.                    *)
Held(l) ==
    IF l = "adapter" THEN child[l] # "gone"
    ELSE child[l] # "gone" \/ contained = "writing"

(* Popen and the two threads.                                              *)
Launches(l) ==
    /\ child' = [child EXCEPT ![l] = "running"]
    /\ reader' = [reader EXCEPT ![l] = [s \in Stream |-> "reading"]]
    /\ host' = [host EXCEPT ![l].step = "polling"]
    /\ UNCHANGED <<pipe, buffer>>

(* The end of a wait.  What it leaves in pipes and buffers when it answers *)
(* without the command's output is of no further effect.                   *)
Answers(l, answer) ==
    /\ host' = [host EXCEPT ![l] = [step |-> "answered", termination |-> "completed",
                                    answer |-> answer]]
    /\ IF answer = "command" \/ (l = "domain" /\ answer = "timeout")
       THEN UNCHANGED data
       ELSE /\ pipe' = [pipe EXCEPT ![l] = [s \in Stream |-> 0]]
            /\ buffer' = [buffer EXCEPT ![l] = [s \in Stream |-> 0]]
            /\ reader' = [reader EXCEPT ![l] = [s \in Stream |-> "idle"]]

-----------------------------------------------------------------------------
(* The draining threads, which live in the process that waits.  One left   *)
(* behind by a wait that was answered is of no effect.                     *)

Draining(l, s) == Ready(l) /\ ~Steps(l, "answered") /\ reader[l][s] = "reading"

\* Mutant: a chunk is kept before the limit is looked at.
ReadUnbounded(l, s) ==
    /\ Draining(l, s)
    /\ pipe[l][s] > 0
    /\ pipe' = [pipe EXCEPT ![l][s] = @ - 1]
    /\ buffer' = [buffer EXCEPT ![l][s] = @ + 1]
    /\ reader' = [reader EXCEPT ![l][s] = IF buffer[l][s] < MaxOutput THEN @ ELSE "full"]
    /\ UNCHANGED <<waits, entry, unprinted, contained, artifact>>

Read(l, s) ==
    /\ Draining(l, s)
    /\ pipe[l][s] > 0
    /\ pipe' = [pipe EXCEPT ![l][s] = @ - 1]
    /\ IF buffer[l][s] < MaxOutput
       THEN /\ buffer' = [buffer EXCEPT ![l][s] = @ + 1]
            /\ UNCHANGED reader
       ELSE /\ reader' = [reader EXCEPT ![l][s] = "full"]
            /\ UNCHANGED buffer
    /\ UNCHANGED <<waits, entry, unprinted, contained, artifact>>

ReadEnd(l, s) ==
    /\ Draining(l, s)
    /\ pipe[l][s] = 0 /\ ~Held(l)
    /\ reader' = [reader EXCEPT ![l][s] = "eof"]
    /\ UNCHANGED <<waits, pipe, buffer, entry, unprinted, contained, artifact>>

ReadFails(l, s) ==
    /\ Draining(l, s)
    /\ reader' = [reader EXCEPT ![l][s] = "failed"]
    /\ UNCHANGED <<waits, pipe, buffer, entry, unprinted, contained, artifact>>

-----------------------------------------------------------------------------
(* The main loop.                                                          *)

(* process.poll() answers, or the wait after a kill does.                  *)
ChildEnded(l) ==
    /\ Ready(l)
    /\ Steps(l, "polling") \/ Steps(l, "waiting")
    /\ child[l] = "gone"
    /\ host' = [host EXCEPT ![l].step = "joining"]
    /\ UNCHANGED <<child, data, entry, unprinted, contained, artifact>>

\* Mutant: the deadline is not among the reasons.
ReasonsOfOutput(l) ==
    {why \in {"output_error", "output_limit"} :
        /\ why = "output_error" => ReaderError(l)
        /\ why = "output_limit" => OutputLimit(l)}

Reasons(l) ==
    {why \in {"output_error", "output_limit", "timeout"} :
        /\ why = "output_error" => ReaderError(l)
        /\ why = "output_limit" => OutputLimit(l)}

(* One of the three checks of an iteration stops the wait.  The child may  *)
(* have ended since the poll; the signal then finds nobody.                *)
Stop(l) ==
    /\ Ready(l)
    /\ Steps(l, "polling")
    /\ \E why \in Reasons(l) :
          host' = [host EXCEPT ![l] = [@ EXCEPT !.step = "waiting", !.termination = why]]
    /\ child' = [child EXCEPT ![l] = IF @ = "running" THEN "signalled" ELSE @]
    /\ UNCHANGED <<data, entry, unprinted, contained, artifact>>

(* process.wait(timeout=10) expires. *)
WaitExpires(l) ==
    /\ Ready(l)
    /\ Steps(l, "waiting")
    /\ child[l] # "gone"
    /\ Answers(l, "error")
    /\ UNCHANGED <<child, entry, unprinted, contained, artifact>>

\* Mutant: the threads are joined without a limit of time.
JoinForever(l) == FALSE

(* thread.join(timeout=10) returns with the thread alive. *)
JoinExpires(l) ==
    /\ Ready(l)
    /\ Steps(l, "joining")
    /\ ~ReadersEnded(l)
    /\ Answers(l, "error")
    /\ UNCHANGED <<child, entry, unprinted, contained, artifact>>

(* What the adapter makes of a child that has ended.                       *)
AdapterAnswer ==
    LET termination == host["adapter"].termination IN
    CASE ReaderError("adapter") -> "error"
      [] ~ReaderError("adapter") /\ termination = "timeout" -> "timeout"
      [] ~ReaderError("adapter") /\ termination # "timeout" /\ OutputLimit("adapter") ->
             "output_limit"
      [] OTHER -> IF entry \in {"command", "blocked"} THEN entry ELSE "killed"

\* Mutant: the buffers are taken as they are.
DomainAnswerCut ==
    IF host["domain"].termination = "timeout" THEN "timeout" ELSE "command"

(* What run_task_domain makes of one; output that is not UTF-8 is an error *)
(* too.                                                                    *)
DomainAnswer ==
    CASE ReaderError("domain") \/ OutputLimit("domain") -> "error"
      [] OTHER -> IF host["domain"].termination = "timeout" THEN "timeout" ELSE "command"

AnswerOf(l) == IF l = "adapter" THEN AdapterAnswer ELSE DomainAnswer

Joined(l) ==
    /\ Ready(l)
    /\ Steps(l, "joining")
    /\ ReadersEnded(l)
    /\ \E answer \in {AnswerOf(l), "error"} : Answers(l, answer)
    /\ UNCHANGED <<child, entry, unprinted, contained, artifact>>

-----------------------------------------------------------------------------
(* The adapter's call.                                                     *)

(* The call is refused: command, timeout, project; a cwd that readlink or  *)
(* test does not accept; wsl.exe does not start.                           *)
CallRefused ==
    /\ Steps("adapter", "idle")
    /\ Answers("adapter", "error")
    /\ UNCHANGED <<child, entry, unprinted, contained, artifact>>

Call ==
    /\ Steps("adapter", "idle")
    /\ Launches("adapter")
    /\ entry' = "checking"
    /\ UNCHANGED <<unprinted, contained, artifact>>

(* wsl.exe ends with the program it runs, or by the adapter's signal.      *)
WslEnds ==
    /\ \/ child["adapter"] = "running" /\ entry \in {"command", "blocked", "dead"}
       \/ child["adapter"] = "signalled"
    /\ child' = [child EXCEPT !["adapter"] = "gone"]
    /\ UNCHANGED <<host, data, entry, unprinted, contained, artifact>>

(* The Linux side is killed: by the end of its session, or by anybody.     *)
EntryKilled ==
    /\ entry \in {"checking", "running", "outputs", "printing"}
    /\ entry' = "dead"
    /\ UNCHANGED <<waits, data, unprinted, contained, artifact>>

-----------------------------------------------------------------------------
(* The supervisor.                                                         *)

(* main: an exception is reported on stderr, and the status is 78.         *)
Blocks ==
    /\ entry' = "printing"
    /\ unprinted' = [stdout |-> 0, stderr |-> 1]

(* Deployment, project, cwd, toolchain, backend, outputs, Popen: refused.  *)
RunRefused ==
    /\ entry = "checking"
    /\ Blocks
    /\ host' = [host EXCEPT !["domain"] = [@ EXCEPT !.step = "answered", !.answer = "error"]]
    /\ UNCHANGED <<child, data, contained, artifact>>

RunDomain ==
    /\ entry = "checking"
    /\ entry' = "running"
    /\ Launches("domain")
    /\ contained' = "writing"
    /\ UNCHANGED <<unprinted, artifact>>

(* The finally clause: the outputs are checked whatever the run gave.      *)
DomainAnswered ==
    /\ entry = "running"
    /\ Steps("domain", "answered")
    /\ entry' = "outputs"
    /\ UNCHANGED <<waits, data, unprinted, contained, artifact>>

OutputsValid == artifact # "poisoned"

(* All of stdout, then all of stderr; a timeout adds main's message.       *)
StartPrinting(answer) ==
    /\ entry' = "printing"
    /\ unprinted' = [stdout |-> buffer["domain"]["stdout"],
                     stderr |-> buffer["domain"]["stderr"]
                                  + (IF answer = "timeout" THEN 1 ELSE 0)]

OutputsChecked ==
    /\ entry = "outputs"
    /\ IF OutputsValid /\ host["domain"].answer \in {"command", "timeout"}
       THEN StartPrinting(host["domain"].answer) /\ UNCHANGED host
       ELSE Blocks /\ host' = [host EXCEPT !["domain"].answer = "error"]
    /\ UNCHANGED <<child, data, contained, artifact>>

Prints(s) ==
    /\ entry = "printing"
    /\ unprinted[s] > 0
    /\ s = "stderr" => unprinted["stdout"] = 0
    /\ pipe["adapter"][s] < PipeSize
    /\ child["adapter"] # "gone"
    /\ pipe' = [pipe EXCEPT !["adapter"][s] = @ + 1]
    /\ unprinted' = [unprinted EXCEPT ![s] = @ - 1]
    /\ UNCHANGED <<waits, buffer, reader, entry, contained, artifact>>

Exits ==
    /\ entry = "printing"
    /\ \A s \in Stream : unprinted[s] = 0
    /\ entry' = IF host["domain"].answer = "command" THEN "command" ELSE "blocked"
    /\ UNCHANGED <<waits, data, unprinted, contained, artifact>>

(* Nobody reads any more: the print raises.                                *)
BrokenPipe ==
    /\ entry = "printing"
    /\ child["adapter"] = "gone"
    /\ \E s \in Stream : unprinted[s] > 0
    /\ entry' = "dead"
    /\ UNCHANGED <<waits, data, unprinted, contained, artifact>>

-----------------------------------------------------------------------------
(* The namespace.  What it writes to pipes that nobody will drain counts   *)
(* for nothing.                                                            *)

DomainWrites(s) ==
    /\ contained = "writing"
    /\ entry = "running" /\ ~Steps("domain", "answered")
    /\ pipe["domain"][s] < PipeSize
    /\ pipe' = [pipe EXCEPT !["domain"][s] = @ + 1]
    /\ UNCHANGED <<waits, buffer, reader, entry, unprinted, contained, artifact>>

DomainWorks ==
    /\ contained \in {"writing", "detached"}
    /\ \/ /\ artifact' \in {"file", "poisoned"}
          /\ UNCHANGED contained
       \/ contained' = "detached" /\ UNCHANGED artifact
    /\ UNCHANGED <<waits, data, entry, unprinted>>

(* The first process of the namespace ends, and every other with it before *)
(* unshare has its status.                                                 *)
DomainEnds ==
    /\ child["domain"] = "running"
    /\ contained' = "gone"
    /\ child' = [child EXCEPT !["domain"] = "gone"]
    /\ UNCHANGED <<host, data, entry, unprinted, artifact>>

(* unshare dies by its signal; --kill-child then ends the namespace.       *)
UnshareDies ==
    /\ child["domain"] = "signalled"
    /\ child' = [child EXCEPT !["domain"] = "gone"]
    /\ UNCHANGED <<host, data, entry, unprinted, contained, artifact>>

KillChild ==
    /\ child["domain"] = "gone"
    /\ contained \in {"writing", "detached"}
    /\ contained' = "gone"
    /\ UNCHANGED <<waits, data, entry, unprinted, artifact>>

-----------------------------------------------------------------------------
Kernel == WslEnds \/ UnshareDies \/ KillChild
Supervisor == RunDomain \/ RunRefused \/ DomainAnswered \/ OutputsChecked
                \/ Exits \/ BrokenPipe \/ \E s \in Stream : Prints(s)
Loop(l) == ChildEnded(l) \/ Stop(l) \/ WaitExpires(l) \/ JoinExpires(l) \/ Joined(l)
Drain(l, s) == Read(l, s) \/ ReadEnd(l, s) \/ ReadFails(l, s)

Next ==
    \/ CallRefused \/ Call \/ EntryKilled
    \/ Kernel \/ Supervisor
    \/ \E l \in Level : Loop(l) \/ \E s \in Stream : Drain(l, s)
    \/ DomainWorks \/ DomainEnds \/ \E s \in Stream : DomainWrites(s)

Spec == Init /\ [][Next]_vars

(* The hosts' loops go on, deadlines included, and so does the supervisor; *)
(* the kernel ends what was signalled.  Nothing is assumed of the command, *)
(* nor of the threads.                                                     *)
FairSpec ==
    /\ Spec
    /\ \A l \in Level : WF_vars(Loop(l))
    /\ WF_vars(Supervisor)
    /\ WF_vars(Kernel)

-----------------------------------------------------------------------------
TypeOK ==
    /\ host \in [Level -> Host]
    /\ child \in [Level -> Child]
    /\ pipe \in [Level -> [Stream -> 0..PipeSize]]
    /\ buffer \in [Level -> [Stream -> 0..MaxOutput]]
    /\ reader \in [Level -> [Stream -> Reader]]
    /\ entry \in Entry
    /\ unprinted \in [Stream -> 0..(MaxOutput + 1)]
    /\ contained \in Contained
    /\ artifact \in {"file", "poisoned"}

Answered == host["adapter"].answer

(* A caller told that the command completed has all of its output, nothing *)
(* of the command runs any more, and the release output that the caller    *)
(* may consume is a plain file or absent.                                  *)
CompletedIsTrue ==
    Answered = "command" =>
        /\ \A s \in Stream : /\ buffer["adapter"][s] = buffer["domain"][s]
                             /\ \A l \in Level : pipe[l][s] = 0 /\ reader[l][s] = "eof"
        /\ child["domain"] = "gone" /\ contained = "gone"
        /\ artifact # "poisoned"

(* Every call is answered, whatever command, threads and kernel do.        *)
CallEnds == Steps("adapter", "polling") ~> Steps("adapter", "answered")

(* A command does not outlive its deadline for ever while its supervisor   *)
(* lives.                                                                  *)
DomainIsEnded ==
    contained \in {"writing", "detached"} ~> contained = "gone" \/ entry = "dead"
=============================================================================
