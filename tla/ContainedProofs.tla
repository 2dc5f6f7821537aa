-------------------------- MODULE ContainedProofs --------------------------
(***************************************************************************)
(* Proofs about ContainedExecution, for any limit of output and any size   *)
(* of pipe: its types, and that an answer that says completed is true.     *)
(***************************************************************************)
EXTENDS ContainedExecution, TLAPS

Waiting(l) == host[l].step \in {"polling", "waiting", "joining"}

(* A wait has a child and both of its threads, and has not been stopped    *)
(* unless its termination says so; the child it joins for has ended.       *)
WaitsAreSound ==
    \A l \in Level :
       /\ host[l].step \in {"idle", "polling"} => host[l].termination = "completed"
       /\ Waiting(l) => child[l] # "none" /\ \A s \in Stream : reader[l][s] # "idle"
       /\ Steps(l, "joining") => child[l] = "gone"
       /\ host[l].termination = "completed" /\ Waiting(l) => child[l] # "signalled"
       /\ host[l].termination = "output_error" => ReaderError(l)
       /\ host[l].termination = "output_limit" => OutputLimit(l)

(* A thread that has met the end has taken everything there will be.       *)
EndsAreReal ==
    \A l \in Level : \A s \in Stream :
       reader[l][s] = "eof" => pipe[l][s] = 0 /\ ~Held(l)

(* Before the supervisor prints, nothing is in the pipes of the adapter,   *)
(* and before it runs the domain there is none.                            *)
NothingTooEarly ==
    /\ Steps("adapter", "idle") => entry = "none"
    /\ entry \in {"none", "checking"} =>
          /\ Steps("domain", "idle")
          /\ child["domain"] = "none"
          /\ contained = "none"
    /\ contained = "writing" => child["domain"] # "none"
    /\ entry \in {"none", "checking", "running", "outputs"} =>
          /\ unprinted = [s \in Stream |-> 0]
          /\ ~Steps("adapter", "answered") =>
                \A s \in Stream : buffer["adapter"][s] = 0 /\ pipe["adapter"][s] = 0

(* A child that ends by itself takes the namespace with it; a run that     *)
(* answered with the command's output left nothing undrained.              *)
DomainIsOver ==
    /\ Waiting("domain") /\ host["domain"].termination = "completed"
         /\ child["domain"] = "gone" => contained = "gone"
    /\ host["domain"].answer = "command" =>
          /\ Steps("domain", "answered")
          /\ entry \notin {"none", "checking"}
          /\ child["domain"] = "gone"
          /\ contained = "gone"
          /\ \A s \in Stream : reader["domain"][s] = "eof" /\ pipe["domain"][s] = 0

(* What is printed of a completed command is on its way or has arrived,    *)
(* unless the adapter's limit cut it; and its outputs were valid.          *)
PrintsAreWhole ==
    /\ entry = "command" => /\ host["domain"].answer = "command"
                            /\ unprinted = [s \in Stream |-> 0]
    /\ entry \in {"printing", "command"} /\ host["domain"].answer = "command" =>
          /\ artifact # "poisoned"
          /\ ~Steps("adapter", "answered") =>
                \A s \in Stream :
                   reader["adapter"][s] # "full" =>
                      buffer["adapter"][s] + pipe["adapter"][s] + unprinted[s]
                        = buffer["domain"][s]

(* The answer "command" of the adapter is the one of the whole call.       *)
AnswersAreWhole ==
    /\ host["adapter"].answer # "none" => Steps("adapter", "answered")
    /\ Answered = "command" =>
          /\ entry = "command"
          /\ \A s \in Stream : /\ reader["adapter"][s] = "eof"
                               /\ pipe["adapter"][s] = 0
                               /\ buffer["adapter"][s] = buffer["domain"][s]

(* The inductive invariant.                                                *)
ContainedInv ==
    /\ TypeOK
    /\ WaitsAreSound
    /\ EndsAreReal
    /\ NothingTooEarly
    /\ DomainIsOver
    /\ PrintsAreWhole
    /\ AnswersAreWhole

-----------------------------------------------------------------------------
(* The invariant holds initially.                                          *)
LEMMA ContainedInitially ==
  ASSUME Init
  PROVE  ContainedInv
<1> USE OutputAssumption DEF Init, Level, Stream, Steps
<1>1. TypeOK
  BY DEF TypeOK, Host, Answer, Child, Reader, Entry, Contained
<1>2. WaitsAreSound /\ EndsAreReal
  BY DEF WaitsAreSound, EndsAreReal, Waiting
<1>3. NothingTooEarly /\ DomainIsOver /\ PrintsAreWhole /\ AnswersAreWhole
  BY DEF NothingTooEarly, DomainIsOver, PrintsAreWhole, AnswersAreWhole, Waiting, Answered
<1> QED BY <1>1, <1>2, <1>3 DEF ContainedInv

(* Every step preserves the types.                                         *)
LEMMA TypesStep ==
  ASSUME TypeOK, [Next]_vars
  PROVE  TypeOK'
<1> USE OutputAssumption DEF TypeOK, Host, Answer, Child, Reader, Entry,
                             Contained, Level, Stream
<1>1. CASE \/ EntryKilled \/ WslEnds \/ UnshareDies \/ KillChild
           \/ DomainAnswered \/ Exits \/ BrokenPipe \/ DomainWorks
           \/ DomainEnds
           \/ UNCHANGED vars
  BY <1>1 DEF EntryKilled, WslEnds, UnshareDies, KillChild, DomainAnswered,
              Exits, BrokenPipe, DomainWorks, DomainEnds, waits, data, Steps,
              vars
<1>2. CASE CallRefused
  BY <1>2 DEF CallRefused, Answers, data, Steps
<1>3. CASE Call
  BY <1>3 DEF Call, Launches, Steps
<1>4. CASE RunDomain
  BY <1>4 DEF RunDomain, Launches
<1>5. CASE RunRefused
  <2> DEFINE refused == [host["domain"] EXCEPT !.step = "answered", !.answer = "error"]
  <2>1. refused \in Host
    OBVIOUS
  <2>2. host' = [host EXCEPT !["domain"] = refused]
    BY <1>5 DEF RunRefused
  <2>3. host' \in [Level -> Host]
    <3> HIDE DEF refused, Host
    <3> QED BY <2>1, <2>2
  <2> QED BY <1>5, <2>3 DEF RunRefused, Blocks, data
<1>6. CASE OutputsChecked
  BY <1>6 DEF OutputsChecked, OutputsValid, StartPrinting, Blocks, data
<1>7. ASSUME NEW s \in Stream, Prints(s)
      PROVE  TypeOK'
  BY <1>7 DEF Prints, waits
<1>8. ASSUME NEW l \in Level, ChildEnded(l)
      PROVE  TypeOK'
  BY <1>8 DEF ChildEnded, Ready, Steps, data
<1>9. ASSUME NEW l \in Level, Stop(l)
      PROVE  TypeOK'
  <2>1. PICK why \in Reasons(l) :
            host' = [host EXCEPT ![l] = [@ EXCEPT !.step = "waiting", !.termination = why]]
    BY <1>9 DEF Stop
  <2> DEFINE stopped == [host[l] EXCEPT !.step = "waiting", !.termination = why]
  <2>2. stopped \in Host
    <3>1. host[l] \in Host
      OBVIOUS
    <3>2. why \in {"output_error", "output_limit", "timeout"}
      BY <2>1 DEF Reasons
    <3> QED BY <3>1, <3>2
  <2>3. host' = [host EXCEPT ![l] = stopped]
    BY <2>1
  <2>4. host' \in [Level -> Host]
    <3> HIDE DEF stopped, Host
    <3> QED BY <2>2, <2>3
  <2> QED BY <1>9, <2>4 DEF Stop, data
<1>10. ASSUME NEW l \in Level, WaitExpires(l)
      PROVE  TypeOK'
  BY <1>10 DEF WaitExpires, Answers, data, Steps
<1>11. ASSUME NEW l \in Level, JoinExpires(l)
      PROVE  TypeOK'
  BY <1>11 DEF JoinExpires, Answers, data, Steps
<1>12. ASSUME NEW l \in Level, Joined(l)
      PROVE  TypeOK'
  BY <1>12 DEF Joined, Ready, Steps, ReadersEnded, Answers, AnswerOf,
               AdapterAnswer, DomainAnswer, OutputLimit, ReaderError, data
<1>13. ASSUME NEW l \in Level, NEW s \in Stream, Read(l, s)
      PROVE  TypeOK'
  BY <1>13 DEF Read, Draining, Ready, waits, Steps
<1>14. ASSUME NEW l \in Level, NEW s \in Stream, ReadEnd(l, s)
      PROVE  TypeOK'
  BY <1>14 DEF ReadEnd, Draining, Ready, Held, waits, Steps
<1>15. ASSUME NEW l \in Level, NEW s \in Stream, ReadFails(l, s)
      PROVE  TypeOK'
  BY <1>15 DEF ReadFails, Draining, Ready, waits, Steps
<1>16. ASSUME NEW s \in Stream, DomainWrites(s)
      PROVE  TypeOK'
  BY <1>16 DEF DomainWrites, waits, Steps
<1> QED BY <1>1, <1>2, <1>3, <1>4, <1>5, <1>6, <1>7, <1>8, <1>9, <1>10, <1>11,
           <1>12, <1>13, <1>14, <1>15, <1>16
           DEF Next, Kernel, Supervisor, Loop, Drain

(* Every step leaves the waits sound.                                      *)
LEMMA WaitsStep ==
  ASSUME ContainedInv, [Next]_vars
  PROVE  WaitsAreSound'
<1> USE OutputAssumption DEF ContainedInv, TypeOK, NothingTooEarly,
                             WaitsAreSound, Waiting, OutputLimit, ReaderError,
                             Steps, Host, Child, Reader, Level, Stream
<1>1. CASE \/ EntryKilled \/ KillChild \/ DomainAnswered \/ Exits
           \/ BrokenPipe \/ DomainWorks
           \/ \E s \in Stream : DomainWrites(s) \/ Prints(s)
           \/ UNCHANGED vars
  BY <1>1 DEF EntryKilled, KillChild, DomainAnswered, Exits, BrokenPipe,
              DomainWorks, DomainWrites, Prints, waits, data, vars
<1>2. CASE CallRefused
  BY <1>2 DEF CallRefused, Answers, data
<1>3. CASE Call
  BY <1>3 DEF Call, Launches
<1>4. CASE WslEnds
  BY <1>4 DEF WslEnds, data
<1>5. CASE UnshareDies
  BY <1>5 DEF UnshareDies, data
<1>6. CASE RunDomain
  BY <1>6 DEF RunDomain, Launches
<1>7. CASE RunRefused
  BY <1>7 DEF RunRefused, Blocks, data
<1>8. CASE OutputsChecked
  BY <1>8 DEF OutputsChecked, OutputsValid, StartPrinting, Blocks, data
<1>9. ASSUME NEW l \in Level, ChildEnded(l)
      PROVE  WaitsAreSound'
  BY <1>9 DEF ChildEnded, Ready, data
<1>10. ASSUME NEW l \in Level, Stop(l)
      PROVE  WaitsAreSound'
  BY <1>10 DEF Stop, Ready, Reasons, data
<1>11. ASSUME NEW l \in Level, WaitExpires(l)
      PROVE  WaitsAreSound'
  BY <1>11 DEF WaitExpires, Answers, data
<1>12. ASSUME NEW l \in Level, JoinExpires(l)
      PROVE  WaitsAreSound'
  BY <1>12 DEF JoinExpires, Answers, data
<1>13. ASSUME NEW l \in Level, Joined(l)
      PROVE  WaitsAreSound'
  BY <1>13 DEF Joined, Ready, ReadersEnded, Answers, AnswerOf, AdapterAnswer,
               DomainAnswer, data
<1>14. ASSUME NEW l \in Level, NEW s \in Stream, Read(l, s)
      PROVE  WaitsAreSound'
  BY <1>14 DEF Read, Draining, Ready, waits
<1>15. ASSUME NEW l \in Level, NEW s \in Stream, ReadEnd(l, s)
      PROVE  WaitsAreSound'
  BY <1>15 DEF ReadEnd, Draining, Ready, Held, waits
<1>16. ASSUME NEW l \in Level, NEW s \in Stream, ReadFails(l, s)
      PROVE  WaitsAreSound'
  BY <1>16 DEF ReadFails, Draining, Ready, waits
<1>17. CASE DomainEnds
  BY <1>17 DEF DomainEnds, data
<1> QED BY <1>1, <1>2, <1>3, <1>4, <1>5, <1>6, <1>7, <1>8, <1>9, <1>10, <1>11,
           <1>12, <1>13, <1>14, <1>15, <1>16, <1>17
           DEF Next, Kernel, Supervisor, Loop, Drain

(* A pipe that nobody holds stays empty once it is.                        *)
LEMMA EndsStep ==
  ASSUME ContainedInv, [Next]_vars
  PROVE  EndsAreReal'
<1> USE OutputAssumption DEF ContainedInv, TypeOK, EndsAreReal,
                             NothingTooEarly, Held, Steps, Host, Child,
                             Reader, Level, Stream
<1>1. CASE \/ EntryKilled \/ RunRefused \/ DomainAnswered
           \/ OutputsChecked \/ Exits \/ BrokenPipe
           \/ \E l \in Level : ChildEnded(l)
           \/ UNCHANGED vars
  BY <1>1 DEF EntryKilled, RunRefused, DomainAnswered, OutputsChecked, Exits,
              BrokenPipe, ChildEnded, waits, data, Blocks, OutputsValid,
              StartPrinting, Ready, vars
<1>2. CASE CallRefused
  BY <1>2 DEF CallRefused, Answers, data
<1>3. CASE Call
  BY <1>3 DEF Call, Launches
<1>4. CASE WslEnds
  BY <1>4 DEF WslEnds, data
<1>5. CASE UnshareDies
  BY <1>5 DEF UnshareDies, data
<1>6. CASE KillChild
  BY <1>6 DEF KillChild, waits, data
<1>7. CASE RunDomain
  BY <1>7 DEF RunDomain, Launches
<1>8. ASSUME NEW s \in Stream, Prints(s)
      PROVE  EndsAreReal'
  BY <1>8 DEF Prints, waits
<1>9. ASSUME NEW l \in Level, Stop(l)
      PROVE  EndsAreReal'
  BY <1>9 DEF Stop, Ready, Reasons, data, OutputLimit, ReaderError
<1>10. ASSUME NEW l \in Level, WaitExpires(l)
      PROVE  EndsAreReal'
  BY <1>10 DEF WaitExpires, Answers, data
<1>11. ASSUME NEW l \in Level, JoinExpires(l)
      PROVE  EndsAreReal'
  BY <1>11 DEF JoinExpires, Answers, data
<1>12. ASSUME NEW l \in Level, Joined(l)
      PROVE  EndsAreReal'
  BY <1>12 DEF Joined, Ready, ReadersEnded, Answers, AnswerOf, AdapterAnswer,
               DomainAnswer, OutputLimit, ReaderError, data
<1>13. ASSUME NEW l \in Level, NEW s \in Stream, Read(l, s)
      PROVE  EndsAreReal'
  BY <1>13 DEF Read, Draining, Ready, waits
<1>14. ASSUME NEW l \in Level, NEW s \in Stream, ReadEnd(l, s)
      PROVE  EndsAreReal'
  BY <1>14 DEF ReadEnd, Draining, Ready, waits
<1>15. ASSUME NEW l \in Level, NEW s \in Stream, ReadFails(l, s)
      PROVE  EndsAreReal'
  BY <1>15 DEF ReadFails, Draining, Ready, waits
<1>16. CASE DomainWorks
  BY <1>16 DEF DomainWorks, waits, data
<1>17. CASE DomainEnds
  BY <1>17 DEF DomainEnds, data
<1>18. ASSUME NEW s \in Stream, DomainWrites(s)
      PROVE  EndsAreReal'
  BY <1>18 DEF DomainWrites, waits
<1> QED BY <1>1, <1>2, <1>3, <1>4, <1>5, <1>6, <1>7, <1>8, <1>9, <1>10, <1>11,
           <1>12, <1>13, <1>14, <1>15, <1>16, <1>17, <1>18
           DEF Next, Kernel, Supervisor, Loop, Drain

(* Nothing is printed or contained before its time.                        *)
LEMMA EarlyStep ==
  ASSUME ContainedInv, [Next]_vars
  PROVE  NothingTooEarly'
<1> USE OutputAssumption DEF ContainedInv, TypeOK, NothingTooEarly,
                             DomainIsOver, Steps, Host, Child, Reader, Entry,
                             Level, Stream
<1>1. CASE \/ WslEnds \/ EntryKilled
           \/ UNCHANGED vars
  BY <1>1 DEF WslEnds, EntryKilled, data, waits, vars
<1>2. CASE CallRefused
  BY <1>2 DEF CallRefused, Answers, data
<1>3. CASE Call
  BY <1>3 DEF Call, Launches
<1>4. CASE UnshareDies
  BY <1>4 DEF UnshareDies, data
<1>5. CASE KillChild
  BY <1>5 DEF KillChild, waits, data
<1>6. CASE RunDomain
  BY <1>6 DEF RunDomain, Launches
<1>7. CASE RunRefused
  BY <1>7 DEF RunRefused, Blocks, data
<1>8. CASE DomainAnswered
  BY <1>8 DEF DomainAnswered, waits, data
<1>9. CASE OutputsChecked
  BY <1>9 DEF OutputsChecked, OutputsValid, StartPrinting, Blocks, data
<1>10. CASE Exits
  BY <1>10 DEF Exits, waits, data
<1>11. CASE BrokenPipe
  BY <1>11 DEF BrokenPipe, waits, data
<1>12. ASSUME NEW s \in Stream, Prints(s)
      PROVE  NothingTooEarly'
  BY <1>12 DEF Prints, waits
<1>13. ASSUME NEW l \in Level, ChildEnded(l)
      PROVE  NothingTooEarly'
  BY <1>13 DEF ChildEnded, Ready, data
<1>14. ASSUME NEW l \in Level, Stop(l)
      PROVE  NothingTooEarly'
  BY <1>14 DEF Stop, Ready, Reasons, data, OutputLimit, ReaderError
<1>15. ASSUME NEW l \in Level, WaitExpires(l)
      PROVE  NothingTooEarly'
  BY <1>15 DEF WaitExpires, Answers, data
<1>16. ASSUME NEW l \in Level, JoinExpires(l)
      PROVE  NothingTooEarly'
  BY <1>16 DEF JoinExpires, Answers, data
<1>17. ASSUME NEW l \in Level, Joined(l)
      PROVE  NothingTooEarly'
  BY <1>17 DEF Joined, Ready, ReadersEnded, Answers, AnswerOf, AdapterAnswer,
               DomainAnswer, OutputLimit, ReaderError, data
<1>18. ASSUME NEW l \in Level, NEW s \in Stream, Read(l, s)
      PROVE  NothingTooEarly'
  BY <1>18 DEF Read, Draining, Ready, waits
<1>19. ASSUME NEW l \in Level, NEW s \in Stream, ReadEnd(l, s)
      PROVE  NothingTooEarly'
  BY <1>19 DEF ReadEnd, Draining, Ready, Held, waits
<1>20. ASSUME NEW l \in Level, NEW s \in Stream, ReadFails(l, s)
      PROVE  NothingTooEarly'
  BY <1>20 DEF ReadFails, Draining, Ready, waits
<1>21. CASE DomainWorks
  BY <1>21 DEF DomainWorks, waits, data
<1>22. CASE DomainEnds
  BY <1>22 DEF DomainEnds, data
<1>23. ASSUME NEW s \in Stream, DomainWrites(s)
      PROVE  NothingTooEarly'
  BY <1>23 DEF DomainWrites, waits
<1> QED BY <1>1, <1>2, <1>3, <1>4, <1>5, <1>6, <1>7, <1>8, <1>9, <1>10, <1>11,
           <1>12, <1>13, <1>14, <1>15, <1>16, <1>17, <1>18, <1>19, <1>20,
           <1>21, <1>22, <1>23
           DEF Next, Kernel, Supervisor, Loop, Drain

(* A domain that has answered for its command is over.                     *)
LEMMA OverStep ==
  ASSUME ContainedInv, [Next]_vars
  PROVE  DomainIsOver'
<1> USE OutputAssumption DEF ContainedInv, TypeOK, WaitsAreSound, EndsAreReal,
                             NothingTooEarly, DomainIsOver, Waiting, Held,
                             Steps, Host, Child, Reader, Entry, Level, Stream
<1>1. CASE \/ CallRefused \/ Call \/ EntryKilled \/ WslEnds
           \/ DomainAnswered \/ Exits \/ BrokenPipe \/ DomainWorks
           \/ \E s \in Stream : Prints(s)
           \/ UNCHANGED vars
  BY <1>1 DEF CallRefused, Call, EntryKilled, WslEnds, DomainAnswered, Exits,
              BrokenPipe, Prints, DomainWorks, Answers, data, Launches, waits,
              vars
<1>2. CASE UnshareDies
  BY <1>2 DEF UnshareDies, data
<1>3. CASE KillChild
  BY <1>3 DEF KillChild, waits, data
<1>4. CASE RunDomain
  BY <1>4 DEF RunDomain, Launches
<1>5. CASE RunRefused
  BY <1>5 DEF RunRefused, Blocks, data
<1>6. CASE OutputsChecked
  BY <1>6 DEF OutputsChecked, OutputsValid, StartPrinting, Blocks, data
<1>7. ASSUME NEW l \in Level, ChildEnded(l)
      PROVE  DomainIsOver'
  BY <1>7 DEF ChildEnded, Ready, data
<1>8. ASSUME NEW l \in Level, Stop(l)
      PROVE  DomainIsOver'
  BY <1>8 DEF Stop, Ready, Reasons, data, OutputLimit, ReaderError
<1>9. ASSUME NEW l \in Level, WaitExpires(l)
      PROVE  DomainIsOver'
  BY <1>9 DEF WaitExpires, Answers, data
<1>10. ASSUME NEW l \in Level, JoinExpires(l)
      PROVE  DomainIsOver'
  BY <1>10 DEF JoinExpires, Answers, data
<1>11. ASSUME NEW l \in Level, Joined(l)
      PROVE  DomainIsOver'
  BY <1>11 DEF Joined, Ready, ReadersEnded, Answers, AnswerOf, AdapterAnswer,
               DomainAnswer, OutputLimit, ReaderError, data
<1>12. ASSUME NEW l \in Level, NEW s \in Stream, Read(l, s)
      PROVE  DomainIsOver'
  BY <1>12 DEF Read, Draining, Ready, waits
<1>13. ASSUME NEW l \in Level, NEW s \in Stream, ReadEnd(l, s)
      PROVE  DomainIsOver'
  BY <1>13 DEF ReadEnd, Draining, Ready, waits
<1>14. ASSUME NEW l \in Level, NEW s \in Stream, ReadFails(l, s)
      PROVE  DomainIsOver'
  BY <1>14 DEF ReadFails, Draining, Ready, waits
<1>15. CASE DomainEnds
  BY <1>15 DEF DomainEnds, data
<1>16. ASSUME NEW s \in Stream, DomainWrites(s)
      PROVE  DomainIsOver'
  BY <1>16 DEF DomainWrites, waits
<1> QED BY <1>1, <1>2, <1>3, <1>4, <1>5, <1>6, <1>7, <1>8, <1>9, <1>10, <1>11,
           <1>12, <1>13, <1>14, <1>15, <1>16
           DEF Next, Kernel, Supervisor, Loop, Drain

(* What the supervisor prints is the whole output of a finished command.   *)
LEMMA PrintsStep ==
  ASSUME ContainedInv, [Next]_vars
  PROVE  PrintsAreWhole'
<1> USE OutputAssumption DEF ContainedInv, TypeOK, NothingTooEarly,
                             DomainIsOver, PrintsAreWhole, Steps, Host, Child,
                             Reader, Entry, Level, Stream
<1>1. CASE \/ WslEnds \/ UnshareDies \/ KillChild \/ DomainEnds
           \/ UNCHANGED vars
  BY <1>1 DEF WslEnds, UnshareDies, KillChild, DomainEnds, data, waits, vars
<1>2. CASE CallRefused
  BY <1>2 DEF CallRefused, Answers, data
<1>3. CASE Call
  BY <1>3 DEF Call, Launches
<1>4. CASE EntryKilled
  BY <1>4 DEF EntryKilled, waits, data
<1>5. CASE RunDomain
  BY <1>5 DEF RunDomain, Launches
<1>6. CASE RunRefused
  BY <1>6 DEF RunRefused, Blocks, data
<1>7. CASE DomainAnswered
  BY <1>7 DEF DomainAnswered, waits, data
<1>8. CASE OutputsChecked
  BY <1>8 DEF OutputsChecked, OutputsValid, StartPrinting, Blocks, data
<1>9. CASE Exits
  BY <1>9 DEF Exits, waits, data
<1>10. CASE BrokenPipe
  BY <1>10 DEF BrokenPipe, waits, data
<1>11. ASSUME NEW s \in Stream, Prints(s)
      PROVE  PrintsAreWhole'
  BY <1>11 DEF Prints, waits
<1>12. ASSUME NEW l \in Level, ChildEnded(l)
      PROVE  PrintsAreWhole'
  BY <1>12 DEF ChildEnded, Ready, data
<1>13. ASSUME NEW l \in Level, Stop(l)
      PROVE  PrintsAreWhole'
  BY <1>13 DEF Stop, Ready, Reasons, data, OutputLimit, ReaderError
<1>14. ASSUME NEW l \in Level, WaitExpires(l)
      PROVE  PrintsAreWhole'
  BY <1>14 DEF WaitExpires, Answers, data
<1>15. ASSUME NEW l \in Level, JoinExpires(l)
      PROVE  PrintsAreWhole'
  BY <1>15 DEF JoinExpires, Answers, data
<1>16. ASSUME NEW l \in Level, Joined(l)
      PROVE  PrintsAreWhole'
  BY <1>16 DEF Joined, Ready, ReadersEnded, Answers, AnswerOf, AdapterAnswer,
               DomainAnswer, OutputLimit, ReaderError, data
<1>17. ASSUME NEW l \in Level, NEW s \in Stream, Read(l, s)
      PROVE  PrintsAreWhole'
  BY <1>17 DEF Read, Draining, Ready, waits
<1>18. ASSUME NEW l \in Level, NEW s \in Stream, ReadEnd(l, s)
      PROVE  PrintsAreWhole'
  BY <1>18 DEF ReadEnd, Draining, Ready, Held, waits
<1>19. ASSUME NEW l \in Level, NEW s \in Stream, ReadFails(l, s)
      PROVE  PrintsAreWhole'
  BY <1>19 DEF ReadFails, Draining, Ready, waits
<1>20. CASE DomainWorks
  BY <1>20 DEF DomainWorks, waits, data
<1>21. ASSUME NEW s \in Stream, DomainWrites(s)
      PROVE  PrintsAreWhole'
  BY <1>21 DEF DomainWrites, waits
<1> QED BY <1>1, <1>2, <1>3, <1>4, <1>5, <1>6, <1>7, <1>8, <1>9, <1>10, <1>11,
           <1>12, <1>13, <1>14, <1>15, <1>16, <1>17, <1>18, <1>19, <1>20,
           <1>21
           DEF Next, Kernel, Supervisor, Loop, Drain

(* What the adapter answers is what the supervisor made of the command.    *)
LEMMA AnswersStep ==
  ASSUME ContainedInv, [Next]_vars
  PROVE  AnswersAreWhole'
<1> USE OutputAssumption DEF ContainedInv, TypeOK, WaitsAreSound, EndsAreReal,
                             NothingTooEarly, PrintsAreWhole, AnswersAreWhole,
                             Answered, DomainIsOver, Waiting, Steps, Host,
                             Child, Reader, Entry, Level, Stream
<1>1. CASE \/ WslEnds \/ UnshareDies \/ KillChild \/ DomainEnds
           \/ DomainWorks
           \/ UNCHANGED vars
  BY <1>1 DEF WslEnds, UnshareDies, KillChild, DomainEnds, DomainWorks, data,
              waits, vars
<1>2. CASE CallRefused
  BY <1>2 DEF CallRefused, Answers, data
<1>3. CASE Call
  BY <1>3 DEF Call, Launches
<1>4. CASE EntryKilled
  BY <1>4 DEF EntryKilled, waits, data
<1>5. CASE RunDomain
  BY <1>5 DEF RunDomain, Launches
<1>6. CASE RunRefused
  BY <1>6 DEF RunRefused, Blocks, data
<1>7. CASE DomainAnswered
  BY <1>7 DEF DomainAnswered, waits, data
<1>8. CASE OutputsChecked
  BY <1>8 DEF OutputsChecked, OutputsValid, StartPrinting, Blocks, data
<1>9. CASE Exits
  BY <1>9 DEF Exits, waits, data
<1>10. CASE BrokenPipe
  BY <1>10 DEF BrokenPipe, waits, data
<1>11. ASSUME NEW s \in Stream, Prints(s)
      PROVE  AnswersAreWhole'
  BY <1>11 DEF Prints, waits
<1>12. ASSUME NEW l \in Level, ChildEnded(l)
      PROVE  AnswersAreWhole'
  BY <1>12 DEF ChildEnded, Ready, data
<1>13. ASSUME NEW l \in Level, Stop(l)
      PROVE  AnswersAreWhole'
  BY <1>13 DEF Stop, Ready, Reasons, data, OutputLimit, ReaderError
<1>14. ASSUME NEW l \in Level, WaitExpires(l)
      PROVE  AnswersAreWhole'
  BY <1>14 DEF WaitExpires, Answers, data
<1>15. ASSUME NEW l \in Level, JoinExpires(l)
      PROVE  AnswersAreWhole'
  BY <1>15 DEF JoinExpires, Answers, data
<1>16. ASSUME NEW l \in Level, Joined(l)
      PROVE  AnswersAreWhole'
  BY <1>16 DEF Joined, Ready, ReadersEnded, Answers, AnswerOf, AdapterAnswer,
               DomainAnswer, OutputLimit, ReaderError, data
<1>17. ASSUME NEW l \in Level, NEW s \in Stream, Read(l, s)
      PROVE  AnswersAreWhole'
  BY <1>17 DEF Read, Draining, Ready, waits
<1>18. ASSUME NEW l \in Level, NEW s \in Stream, ReadEnd(l, s)
      PROVE  AnswersAreWhole'
  BY <1>18 DEF ReadEnd, Draining, Ready, Held, waits
<1>19. ASSUME NEW l \in Level, NEW s \in Stream, ReadFails(l, s)
      PROVE  AnswersAreWhole'
  BY <1>19 DEF ReadFails, Draining, Ready, waits
<1>20. ASSUME NEW s \in Stream, DomainWrites(s)
      PROVE  AnswersAreWhole'
  BY <1>20 DEF DomainWrites, waits
<1> QED BY <1>1, <1>2, <1>3, <1>4, <1>5, <1>6, <1>7, <1>8, <1>9, <1>10, <1>11,
           <1>12, <1>13, <1>14, <1>15, <1>16, <1>17, <1>18, <1>19, <1>20
           DEF Next, Kernel, Supervisor, Loop, Drain

-----------------------------------------------------------------------------
(* The invariant holds in every state of every behaviour.                  *)
THEOREM ContainedInvariant == Spec => []ContainedInv
<1>1. ContainedInv /\ [Next]_vars => ContainedInv'
  BY TypesStep, WaitsStep, EndsStep, EarlyStep, OverStep, PrintsStep, AnswersStep
     DEF ContainedInv
<1> QED BY ContainedInitially, <1>1, PTL DEF Spec

(* TypeOK: buffers and pipes keep their limits, and a step of the code     *)
(* (containment.py, wsl_adapter.py, wsl_contained_exec.py) finds every     *)
(* variable among the values it expects.                                   *)
THEOREM ContainedTypes == Spec => []TypeOK
<1>1. ContainedInv => TypeOK
  BY DEF ContainedInv
<1> QED BY <1>1, ContainedInvariant, PTL

(* CompletedIsTrue: wsl_adapter.execute returns "completed" only with all  *)
(* of the command's output, with nothing of it running, and with a release *)
(* output that the check of wsl_contained_exec's finally clause accepted.  *)
THEOREM CompletedCommandsAreWhole == Spec => []CompletedIsTrue
<1>1. ContainedInv => CompletedIsTrue
  BY DEF ContainedInv, AnswersAreWhole, PrintsAreWhole, DomainIsOver, CompletedIsTrue,
         Answered, Level, Stream
<1> QED BY <1>1, ContainedInvariant, PTL
=============================================================================
