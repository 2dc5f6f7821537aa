----------------------------- MODULE StoreProofs -----------------------------
(***************************************************************************)
(* Proofs about ControlStore.  Whenever an operator restores with every    *)
(* other process offline, nobody works on a replaced file; when the log is *)
(* empty as well, the numbers are dense and the store is the one of        *)
(* StoreContract.                                                          *)
(***************************************************************************)
EXTENDS ControlStore, TLAPS

(* The operator's discipline.                                              *)
RestoresOffline == RestoreWhen # "any"
RestoresClean == RestoreWhen = "clean"

(* Whoever restores is alone, and has no connection itself.                *)
RestoresAlone ==
    \A p \in Process :
       proc[p].task = "restore" => ~Open(p) /\ \A q \in Others(p) : ~Open(q) /\ Idle(q)

(* A migration or a backup has its connection.                             *)
WorkIsOpen == \A p \in Process : proc[p].task \in {"migrate", "backup"} => Open(p)

(* Before the first open there are no rows.                                *)
NothingBeforeOpen == live = 0 => wal = {} /\ \A f \in File : file[f] = {}

(* The invariant of offline restores.                                      *)
OfflineInv == TypeOK /\ RestoresAlone /\ WorkIsOpen /\ NothingBeforeOpen /\ HandlesAreLive

(* Task numbers without a gap.                                             *)
Dense(rows) == \A n \in Tasks(rows) : \A m \in 1..n : m \in rows

(* A content without its schema is empty; a connection that is not to      *)
(* migrate it has seen the schema.                                         *)
SchemaFirst ==
    /\ Schema \in LiveRows \/ LiveRows = {}
    /\ \A p \in Process : Open(p) /\ proc[p].task # "migrate" => Schema \in LiveRows

(* A copy under way, and the backup.                                       *)
CopiesAreSound ==
    /\ Dense(backup)
    /\ \A p \in Process :
          /\ Dense(proc[p].copied)
          /\ proc[p].task \in {"none", "migrate"} => proc[p].copied = {}
          /\ proc[p].task = "restore" => Schema \in proc[p].copied

(* No log outlives the restore of another file.                            *)
LogIsEmpty == \A p \in Process : proc[p].task = "restore" => wal = {}

(* The invariant of restores over an empty log.                            *)
CleanInv == OfflineInv /\ Dense(LiveRows) /\ SchemaFirst /\ CopiesAreSound /\ LogIsEmpty

-----------------------------------------------------------------------------
(* The file numbers.                                                       *)
LEMMA FileFacts ==
  /\ 0 \notin File
  /\ 1 \in File
  /\ \A n \in File \cup {0} : n <= MaxRestores => n + 1 \in File
  /\ \A n \in File \cup {0} : n + 1 # 0
  BY StoreAssumption DEF File

(* Rows are numbers, the schema and the damage, three different things.    *)
LEMMA RowFacts ==
  /\ Schema \notin Number /\ Damage \notin Number /\ Schema # Damage
  /\ Number \subseteq Row /\ Schema \in Row /\ Damage \in Row
  /\ Number \subseteq Int
  BY StoreAssumption DEF Number, Row

(* The rows that are read, of the file at the path.                        *)
LEMMA SeenIsLive ==
  ASSUME TypeOK, HandlesAreLive, NEW p \in Process, Open(p)
  PROVE  /\ Seen(p) = LiveRows
         /\ proc[p].handle = live
         /\ live \in File
         /\ live # 0
  BY FileFacts DEF TypeOK, HandlesAreLive, Open, Seen, LiveRows

(* Nobody has anything open or under way at first.                         *)
LEMMA AwayFacts ==
  /\ Away \in ProcessRecord
  /\ Away.handle = 0 /\ Away.task = "none" /\ Away.copied = {}
  BY DEF Away, ProcessRecord, Task

-----------------------------------------------------------------------------
(* Types, whatever the operator does.                                      *)

(* What a step does to the process that takes it.                          *)
LEMMA ProcessTypes ==
  ASSUME TypeOK, NEW p \in Process, NEW record \in ProcessRecord,
         proc' = [proc EXCEPT ![p] = record]
  PROVE  /\ proc' \in [Process -> ProcessRecord]
         /\ proc'[p] = record
         /\ \A q \in Process \ {p} : proc'[q] = proc[q]
  BY DEF TypeOK

(* A step that only opens, begins or ends something.                       *)
LEMMA SameRowsType ==
  ASSUME TypeOK, NEW p \in Process, NEW record \in ProcessRecord,
         proc' = [proc EXCEPT ![p] = record], UNCHANGED <<file, live, wal, backup>>
  PROVE  TypeOK'
  BY ProcessTypes DEF TypeOK

(* A closing connection.                                                   *)
LEMMA ClosesType ==
  ASSUME TypeOK, NEW p \in Process, Closes(p)
  PROVE  TypeOK'
<1>1. /\ wal' \in SUBSET Row
      /\ file' \in [File -> SUBSET Row]
  BY DEF TypeOK, Closes
<1>q. QED
  BY <1>1, AwayFacts, ProcessTypes DEF TypeOK, Closes

(* A record whose task alone changes, or its copy too.                     *)
LEMMA TaskTypes ==
  ASSUME TypeOK, NEW p \in Process, NEW task \in Task, NEW rows \in SUBSET Row
  PROVE  /\ [proc[p] EXCEPT !.task = task] \in ProcessRecord
         /\ [proc[p] EXCEPT !.task = task, !.copied = rows] \in ProcessRecord
  BY DEF TypeOK, ProcessRecord

(* The types are kept.                                                     *)
LEMMA NextTypes == TypeOK /\ [Next]_vars => TypeOK'
<1> SUFFICES ASSUME TypeOK, [Next]_vars
             PROVE  TypeOK'
  OBVIOUS
<1>0. {"none", "migrate", "backup", "restore"} = Task /\ {} \in SUBSET Row
  BY DEF Task
<1>1. CASE UNCHANGED vars
  BY <1>1 DEF TypeOK, vars
<1>2. CASE BackupSpoilt
  BY <1>2, RowFacts DEF TypeOK, BackupSpoilt
<1>3. ASSUME NEW p \in Process, Connect(p)
      PROVE  TypeOK'
  <2> DEFINE record == [handle |-> live', writes |-> TRUE, copied |-> {},
                        task |-> IF Schema \in LiveRows THEN "none" ELSE "migrate"]
  <2>1. live' \in File \cup {0}
    BY <1>3, FileFacts DEF TypeOK, Connect
  <2>2. record \in ProcessRecord
    BY <2>1 DEF ProcessRecord, Task
  <2>3. /\ proc' = [proc EXCEPT ![p] = record]
        /\ UNCHANGED <<file, wal, backup>>
    BY <1>3 DEF Connect
  <2> HIDE DEF record
  <2>q. QED
    BY <2>1, <2>2, <2>3, ProcessTypes DEF TypeOK
<1>4. ASSUME NEW p \in Process, ConnectReadonly(p)
      PROVE  TypeOK'
  <2>1. [Away EXCEPT !.handle = live] \in ProcessRecord
    BY DEF TypeOK, Away, ProcessRecord, Task
  <2>q. QED
    BY <1>4, <2>1, SameRowsType DEF ConnectReadonly
<1>5. ASSUME NEW p \in Process, Migrate(p)
      PROVE  TypeOK'
  <2>1. proc' = [proc EXCEPT ![p] = [proc[p] EXCEPT !.task = "none"]]
    BY <1>5 DEF Migrate
  <2>2. wal' \in SUBSET Row
    BY <1>5, RowFacts DEF Migrate, TypeOK
  <2>q. QED
    BY <1>0, <1>5, <2>1, <2>2, TaskTypes, ProcessTypes DEF Migrate, TypeOK
<1>6. ASSUME NEW p \in Process, MigrationOvertaken(p) \/ Close(p)
      PROVE  TypeOK'
  BY <1>6, ClosesType DEF MigrationOvertaken, Close
<1>7. ASSUME NEW p \in Process, Create(p)
      PROVE  TypeOK'
  <2>1. PICK n \in 1..(MaxNumber + 1) : Fits(n) /\ wal' = wal \cup {n}
    BY <1>7 DEF Create
  <2>2. n \in Number
    BY <2>1, StoreAssumption DEF Fits, Number
  <2>q. QED
    BY <1>7, <2>1, <2>2, RowFacts DEF Create, TypeOK
<1>8. ASSUME NEW p \in Process, Checkpoint(p)
      PROVE  TypeOK'
  <2>1. /\ wal' \in SUBSET Row
        /\ file' \in [File -> SUBSET Row]
    BY <1>8 DEF TypeOK, Checkpoint
  <2>q. QED
    BY <1>8, <2>1 DEF Checkpoint, TypeOK
<1>9. ASSUME NEW p \in Process, Crash(p)
      PROVE  TypeOK'
  BY <1>9, AwayFacts, SameRowsType DEF Crash
<1>10. ASSUME NEW p \in Process, BackupCopies(p)
       PROVE  TypeOK'
  <2>1. Seen(p) \in SUBSET Row
    BY <1>10 DEF BackupCopies, TypeOK, Seen, Open, ProcessRecord
  <2>q. QED
    BY <1>0, <1>10, <2>1, TaskTypes, SameRowsType DEF BackupCopies
<1>11. ASSUME NEW p \in Process, BackupReplaces(p)
       PROVE  TypeOK'
  <2>1. proc[p].copied \in SUBSET Row
    BY DEF TypeOK, ProcessRecord
  <2>2. [proc[p] EXCEPT !.task = "none", !.copied = {}] \in ProcessRecord
    BY <1>0, TaskTypes
  <2>q. QED
    BY <1>11, <2>1, <2>2, ProcessTypes DEF BackupReplaces, TypeOK
<1>12. ASSUME NEW p \in Process, RestoreCopies(p)
       PROVE  TypeOK'
  <2>1. [proc[p] EXCEPT !.task = "restore", !.copied = backup] \in ProcessRecord
    BY <1>0, TaskTypes DEF TypeOK
  <2>q. QED
    BY <1>12, <2>1, SameRowsType DEF RestoreCopies
<1>13. ASSUME NEW p \in Process, RestoreReplaces(p)
       PROVE  TypeOK'
  <2>1. proc[p].copied \in SUBSET Row
    BY DEF TypeOK, ProcessRecord
  <2>2. [proc[p] EXCEPT !.task = "none", !.copied = {}] \in ProcessRecord
    BY <1>0, TaskTypes
  <2>3. live' \in File
    BY <1>13, FileFacts DEF RestoreReplaces, TypeOK
  <2>4. file' \in [File -> SUBSET Row]
    BY <1>13, <2>1, <2>3 DEF RestoreReplaces, TypeOK
  <2>q. QED
    BY <1>13, <2>2, <2>3, <2>4, ProcessTypes DEF RestoreReplaces, TypeOK
<1>q. QED
  BY <1>1, <1>2, <1>3, <1>4, <1>5, <1>6, <1>7, <1>8, <1>9, <1>10, <1>11, <1>12, <1>13
     DEF Next

-----------------------------------------------------------------------------
(* Restores with every other process offline.                              *)

(* What a step of one process has to respect.                              *)
LEMMA OfflineStep ==
  ASSUME OfflineInv, TypeOK', NothingBeforeOpen', NEW p \in Process, NEW record,
         proc' = [proc EXCEPT ![p] = record],
         record.handle # 0 => record.handle = live',
         live' # live => \A q \in Others(p) : ~Open(q),
         record.task \in {"migrate", "backup"} => record.handle # 0,
         record.task = "restore" =>
            /\ record.handle = 0
            /\ \A q \in Others(p) : ~Open(q) /\ Idle(q),
         record.handle # 0 \/ record.task # "none" =>
            \A q \in Others(p) : proc[q].task # "restore"
  PROVE  OfflineInv'
<1>0. /\ proc'[p] = record
      /\ \A q \in Others(p) : proc'[q] = proc[q]
  BY DEF OfflineInv, TypeOK, Others
<1>1. ASSUME NEW q \in Process, proc'[q].task = "restore"
      PROVE  /\ proc'[q].handle = 0
             /\ \A s \in Others(q) : proc'[s].handle = 0 /\ proc'[s].task = "none"
  <2>1. CASE q = p
    BY <1>0, <1>1, <2>1 DEF Open, Idle, Others
  <2>2. CASE q # p
    <3>1. /\ q \in Others(p) /\ p \in Others(q)
          /\ proc'[q] = proc[q]
      BY <1>0, <2>2 DEF Others
    <3>2. /\ proc[q].handle = 0
          /\ \A s \in Others(q) : proc[s].handle = 0 /\ proc[s].task = "none"
      BY <1>1, <3>1 DEF OfflineInv, RestoresAlone, Open, Idle
    <3>3. record.handle = 0 /\ record.task = "none"
      BY <1>1, <3>1
    <3>q. QED
      BY <1>0, <3>1, <3>2, <3>3 DEF Others
  <2>q. QED
    BY <2>1, <2>2
<1>2. RestoresAlone'
  BY <1>1 DEF RestoresAlone, Open, Idle, Others
<1>3. ASSUME NEW q \in Process, proc'[q].handle # 0
      PROVE  proc'[q].handle = live'
  <2>1. CASE q = p
    BY <1>0, <1>3, <2>1
  <2>2. CASE q # p
    BY <1>0, <1>3, <2>2 DEF OfflineInv, HandlesAreLive, Open, Others
  <2>q. QED
    BY <2>1, <2>2
<1>4. HandlesAreLive'
  BY <1>3 DEF HandlesAreLive, Open
<1>5. WorkIsOpen'
  BY <1>0 DEF WorkIsOpen, OfflineInv, Open, Others
<1>q. QED
  BY <1>2, <1>4, <1>5 DEF OfflineInv

(* A connection opens only when nobody restores.                           *)
LEMMA OpenedOffline ==
  ASSUME RestoresOffline, OfflineInv, TypeOK', NEW p \in Process,
         Connect(p) \/ ConnectReadonly(p)
  PROVE  OfflineInv'
<1>0. \A q \in Process : proc[q].task # "restore"
  BY DEF Connect, ConnectReadonly, NobodyRestores, RestoresOffline
<1>1. CASE Connect(p)
  <2> DEFINE record == [handle |-> live', writes |-> TRUE, copied |-> {},
                        task |-> IF Schema \in LiveRows THEN "none" ELSE "migrate"]
  <2>1. /\ proc' = [proc EXCEPT ![p] = record]
        /\ live' = IF live = 0 THEN 1 ELSE live
    BY <1>1 DEF Connect
  <2>2. live' # live => \A q \in Process : ~Open(q)
    BY <2>1 DEF OfflineInv, HandlesAreLive, Open
  <2>3. NothingBeforeOpen'
    BY <2>1, FileFacts DEF NothingBeforeOpen
  <2>4. record.handle = live' /\ live' # 0 /\ record.task # "restore"
    BY <2>1
  <2> HIDE DEF record
  <2>q. QED
    BY <1>0, <2>1, <2>2, <2>3, <2>4, OfflineStep DEF Others
<1>2. CASE ConnectReadonly(p)
  <2> DEFINE record == [Away EXCEPT !.handle = live]
  <2>1. /\ proc' = [proc EXCEPT ![p] = record]
        /\ UNCHANGED <<file, live, wal>>
    BY <1>2 DEF ConnectReadonly
  <2>2. record.handle = live /\ record.task = "none"
    BY DEF Away
  <2>3. NothingBeforeOpen'
    BY <2>1 DEF OfflineInv, NothingBeforeOpen
  <2> HIDE DEF record
  <2>q. QED
    BY <1>0, <2>1, <2>2, <2>3, OfflineStep DEF Others
<1>q. QED
  BY <1>1, <1>2

(* Whoever has a connection open is not beside a restore.                  *)
LEMMA NoRestoreBesideOpen ==
  ASSUME OfflineInv, NEW p \in Process, Open(p)
  PROVE  \A q \in Process : proc[q].task # "restore"
  BY DEF OfflineInv, RestoresAlone, Others

(* Connections are closed, or their processes killed.                      *)
LEMMA EndedOffline ==
  ASSUME OfflineInv, TypeOK', NEW p \in Process,
         \/ Closes(p) /\ Open(p)
         \/ Crash(p)
  PROVE  OfflineInv'
<1>1. proc' = [proc EXCEPT ![p] = Away] /\ live' = live
  BY DEF Closes, Crash
<1>2. NothingBeforeOpen'
  <2>1. CASE Closes(p) /\ Open(p)
    BY <1>1, <2>1, SeenIsLive DEF OfflineInv, NothingBeforeOpen
  <2>2. CASE Crash(p)
    BY <2>2 DEF OfflineInv, NothingBeforeOpen, Crash
  <2>q. QED
    BY <2>1, <2>2
<1>q. QED
  BY <1>1, <1>2, AwayFacts, OfflineStep

(* Commits, checkpoints and backups of an open connection.                 *)
LEMMA UsedOffline ==
  ASSUME OfflineInv, TypeOK', NEW p \in Process,
         \/ Migrate(p) \/ Create(p) \/ Checkpoint(p)
         \/ BackupCopies(p) \/ BackupReplaces(p)
  PROVE  OfflineInv'
<1> Open(p)
  BY DEF OfflineInv, WorkIsOpen, Migrate, Create, Checkpoint, BackupCopies, BackupReplaces
<1>0. /\ TypeOK /\ proc[p] \in ProcessRecord
      /\ \A q \in Process : proc[q].task # "restore"
      /\ proc[p].handle = live /\ live # 0
  BY NoRestoreBesideOpen, SeenIsLive DEF OfflineInv, TypeOK
<1>1. live' = live
  BY DEF Migrate, Create, Checkpoint, BackupCopies, BackupReplaces
<1>2. NothingBeforeOpen'
  BY <1>0, <1>1 DEF NothingBeforeOpen
<1>3. PICK task \in {"none", "migrate", "backup"}, rows \in SUBSET Row :
         proc' = [proc EXCEPT ![p] = [proc[p] EXCEPT !.task = task, !.copied = rows]]
  <2>1. proc[p].copied \in SUBSET Row
    BY <1>0 DEF ProcessRecord
  <2>2. CASE Migrate(p)
    <3>1. proc' = [proc EXCEPT ![p] = [proc[p] EXCEPT !.task = "none"]]
      BY <2>2 DEF Migrate
    <3>2. [proc[p] EXCEPT !.task = "none"]
            = [proc[p] EXCEPT !.task = "none", !.copied = proc[p].copied]
      BY <1>0 DEF ProcessRecord
    <3>q. QED
      BY <2>1, <3>1, <3>2
  <2>3. CASE Create(p) \/ Checkpoint(p)
    <3>1. proc' = proc
      BY <2>3 DEF Create, Checkpoint
    <3>2. proc = [proc EXCEPT ![p] = proc[p]]
      BY <1>0 DEF TypeOK
    <3>3. proc[p] = [proc[p] EXCEPT !.task = proc[p].task, !.copied = proc[p].copied]
      BY <1>0 DEF ProcessRecord
    <3>4. proc[p].task \in {"none", "migrate", "backup"}
      BY <1>0 DEF ProcessRecord, Task
    <3>q. QED
      BY <2>1, <3>1, <3>2, <3>3, <3>4
  <2>4. CASE BackupCopies(p)
    BY <1>0, <2>4 DEF BackupCopies, Seen, TypeOK, ProcessRecord
  <2>5. CASE BackupReplaces(p)
    BY <2>5 DEF BackupReplaces
  <2>q. QED
    BY <2>2, <2>3, <2>4, <2>5
<1> DEFINE record == [proc[p] EXCEPT !.task = task, !.copied = rows]
<1>4. record.handle = proc[p].handle /\ record.task = task
  BY <1>0 DEF ProcessRecord
<1> HIDE DEF record
<1>q. QED
  BY <1>0, <1>1, <1>2, <1>3, <1>4, OfflineStep DEF record, Others

(* A restore: its process is alone from the copy to the replacement.       *)
LEMMA RestoredOffline ==
  ASSUME RestoresOffline, OfflineInv, TypeOK', NEW p \in Process,
         RestoreCopies(p) \/ RestoreReplaces(p)
  PROVE  OfflineInv'
<1>0. TypeOK /\ proc[p] \in ProcessRecord
  BY DEF OfflineInv, TypeOK
<1>1. CASE RestoreCopies(p)
  <2> DEFINE record == [proc[p] EXCEPT !.task = "restore", !.copied = backup]
  <2>1. /\ proc' = [proc EXCEPT ![p] = record]
        /\ UNCHANGED <<file, live, wal>>
    BY <1>1 DEF RestoreCopies
  <2>2. record.handle = 0 /\ record.task = "restore"
    BY <1>0, <1>1 DEF RestoreCopies, RestoreAdmitted, Open, ProcessRecord
  <2>3. \A q \in Others(p) : ~Open(q) /\ Idle(q)
    BY <1>1 DEF RestoreCopies, RestoreAdmitted, OperatorRestores, RestoresOffline, Offline
  <2>4. NothingBeforeOpen'
    BY <2>1 DEF OfflineInv, NothingBeforeOpen
  <2> HIDE DEF record
  <2>q. QED
    BY <2>1, <2>2, <2>3, <2>4, OfflineStep DEF Idle
<1>2. CASE RestoreReplaces(p)
  <2> DEFINE record == [proc[p] EXCEPT !.task = "none", !.copied = {}]
  <2>1. /\ proc' = [proc EXCEPT ![p] = record]
        /\ live' = live + 1
    BY <1>2 DEF RestoreReplaces
  <2>2. proc[p].handle = 0 /\ \A q \in Others(p) : ~Open(q) /\ Idle(q)
    BY <1>2 DEF OfflineInv, RestoresAlone, RestoreReplaces, Open
  <2>3. record.handle = 0 /\ record.task = "none"
    BY <1>0, <2>2 DEF ProcessRecord
  <2>4. NothingBeforeOpen'
    BY <1>0, <2>1, FileFacts DEF TypeOK, NothingBeforeOpen
  <2> HIDE DEF record
  <2>q. QED
    BY <2>1, <2>2, <2>3, <2>4, OfflineStep
<1>q. QED
  BY <1>1, <1>2

(* Every step keeps the invariant of offline restores.                     *)
LEMMA NextOffline ==
  ASSUME RestoresOffline, OfflineInv, [Next]_vars
  PROVE  OfflineInv'
<1>1. TypeOK'
  BY NextTypes DEF OfflineInv
<1>2. CASE UNCHANGED <<file, live, wal, proc>>
  BY <1>1, <1>2 DEF OfflineInv, RestoresAlone, WorkIsOpen, NothingBeforeOpen,
                    HandlesAreLive, Open, Idle, Others
<1>3. CASE BackupSpoilt \/ UNCHANGED vars
  BY <1>2, <1>3 DEF BackupSpoilt, vars
<1>4. ASSUME NEW p \in Process, MigrationOvertaken(p) \/ Close(p)
      PROVE  OfflineInv'
  BY <1>1, <1>4, EndedOffline DEF MigrationOvertaken, Close, OfflineInv, WorkIsOpen
<1>q. QED
  BY <1>1, <1>3, <1>4, OpenedOffline, EndedOffline, UsedOffline, RestoredOffline DEF Next

(* It holds at first.                                                      *)
LEMMA InitOffline == Init => OfflineInv
<1> SUFFICES ASSUME Init
             PROVE  OfflineInv
  OBVIOUS
<1>1. \A p \in Process : proc[p] = Away
  BY DEF Init
<1>2. TypeOK
  <2>1. proc \in [Process -> ProcessRecord]
    BY AwayFacts DEF Init
  <2>q. QED
    BY <2>1 DEF Init, TypeOK
<1>3. RestoresAlone /\ WorkIsOpen /\ HandlesAreLive
  BY <1>1, AwayFacts DEF RestoresAlone, WorkIsOpen, HandlesAreLive, Open
<1>4. NothingBeforeOpen
  BY DEF Init, NothingBeforeOpen
<1>q. QED
  BY <1>2, <1>3, <1>4 DEF OfflineInv

-----------------------------------------------------------------------------
(* Restores over an empty log: what a step does to the content.            *)

(* Opening, closing, checkpoints, kills and copies leave it alone.         *)
LEMMA ContentStays ==
  ASSUME OfflineInv, TypeOK', NEW p \in Process,
         \/ Connect(p) \/ ConnectReadonly(p) \/ Checkpoint(p) \/ Crash(p)
         \/ (Closes(p) /\ Open(p))
         \/ BackupCopies(p) \/ BackupReplaces(p) \/ RestoreCopies(p)
  PROVE  LiveRows' = LiveRows
<1>0. TypeOK /\ NothingBeforeOpen
  BY DEF OfflineInv
<1>1. CASE UNCHANGED <<file, live, wal>>
  BY <1>1 DEF LiveRows
<1>2. CASE Connect(p)
  BY <1>0, <1>2, FileFacts DEF Connect, LiveRows, NothingBeforeOpen
<1>3. CASE Checkpoint(p)
  <2>1. proc[p].handle = live /\ live \in File /\ live # 0
    BY <1>3, SeenIsLive DEF OfflineInv, Checkpoint
  <2>2. file'[live] = file[live] \cup wal
    BY <1>0, <1>3, <2>1 DEF Checkpoint, TypeOK
  <2>q. QED
    BY <1>3, <2>1, <2>2 DEF Checkpoint, LiveRows
<1>4. CASE Closes(p) /\ Open(p)
  <2>1. proc[p].handle = live /\ live \in File /\ live # 0
    BY <1>4, SeenIsLive DEF OfflineInv
  <2>2. \/ UNCHANGED <<file, live, wal>>
        \/ file'[live] = file[live] \cup wal /\ wal' = {} /\ live' = live
    BY <1>0, <1>4, <2>1 DEF Closes, TypeOK
  <2>q. QED
    BY <2>1, <2>2 DEF LiveRows
<1>q. QED
  BY <1>1, <1>2, <1>3, <1>4
     DEF ConnectReadonly, Crash, BackupCopies, BackupReplaces, RestoreCopies

(* A commit adds to it.                                                    *)
LEMMA CommitAdds ==
  ASSUME OfflineInv, NEW p \in Process, Open(p), NEW row, wal' = wal \cup {row},
         UNCHANGED <<file, live>>
  PROVE  LiveRows' = LiveRows \cup {row}
<1>1. live # 0
  BY SeenIsLive DEF OfflineInv
<1>q. QED
  BY <1>1 DEF LiveRows

(* A restore over an empty log replaces it by the copy.                    *)
LEMMA RestoreInstalls ==
  ASSUME CleanInv, NEW p \in Process, RestoreReplaces(p)
  PROVE  LiveRows' = proc[p].copied
<1>1. TypeOK /\ wal = {}
  BY DEF CleanInv, OfflineInv, LogIsEmpty, RestoreReplaces
<1>2. live' \in File /\ live' # 0
  BY <1>1, FileFacts DEF TypeOK, RestoreReplaces
<1>3. file'[live'] = proc[p].copied /\ wal' = {}
  BY <1>1, <1>2 DEF TypeOK, RestoreReplaces
<1>q. QED
  BY <1>2, <1>3 DEF LiveRows

(* The number allocated is the first that is free.                         *)
LEMMA NextIsFirstFree ==
  ASSUME NEW rows \in SUBSET Row, Dense(rows), NEW n \in Number, IsNext(n, rows)
  PROVE  /\ \A m \in Number : m \in rows <=> m < n
         /\ Dense(rows \cup {n})
<1>0. Number = 1..MaxNumber /\ MaxNumber \in Nat
  BY StoreAssumption DEF Number
<1>1. ASSUME NEW m \in Number, m < n
      PROVE  m \in rows
  <2>1. n - 1 \in Tasks(rows) /\ m \in 1..(n - 1)
    BY <1>0, <1>1 DEF IsNext
  <2>q. QED
    BY <2>1 DEF Dense
<1>2. ASSUME NEW m \in Number, m \in rows
      PROVE  m < n
  BY <1>2 DEF IsNext, Tasks
<1>3. ASSUME NEW k \in Tasks(rows \cup {n}), NEW m \in 1..k
      PROVE  m \in rows \cup {n}
  <2>1. CASE k = n
    <3>1. m \in Number /\ (m = n \/ m < n)
      BY <1>0, <1>3, <2>1
    <3>q. QED
      BY <1>1, <3>1
  <2>2. CASE k # n
    BY <1>3, <2>2 DEF Dense, Tasks
  <2>q. QED
    BY <2>1, <2>2
<1>q. QED
  BY <1>1, <1>2, <1>3 DEF Dense

(* The schema and the damage are no numbers.                               *)
LEMMA DenseOtherRows ==
  ASSUME NEW rows \in SUBSET Row, Dense(rows)
  PROVE  Dense(rows \cup {Schema}) /\ Dense(rows \cup {Damage})
  BY RowFacts DEF Dense, Tasks

(* What the rows of a state are.                                           *)
LEMMA RowTypes ==
  ASSUME TypeOK
  PROVE  /\ LiveRows \in SUBSET Row
         /\ backup \in SUBSET Row
         /\ \A p \in Process : proc[p].copied \in SUBSET Row
  BY DEF TypeOK, LiveRows, ProcessRecord

-----------------------------------------------------------------------------
(* What a step of one process has to respect.                              *)
LEMMA CleanStep ==
  ASSUME CleanInv, OfflineInv', NEW p \in Process, NEW record,
         proc' = [proc EXCEPT ![p] = record],
         Dense(LiveRows'), Dense(backup'), Dense(record.copied),
         Schema \in LiveRows' \/ LiveRows' = {},
         record.handle # 0 /\ record.task # "migrate" => Schema \in LiveRows',
         \A q \in Others(p) : Open(q) /\ Schema \in LiveRows => Schema \in LiveRows',
         record.task \in {"none", "migrate"} => record.copied = {},
         record.task = "restore" => Schema \in record.copied /\ wal' = {},
         wal' # wal /\ wal' # {} => \A q \in Others(p) : proc[q].task # "restore"
  PROVE  CleanInv'
<1>0. /\ proc'[p] = record
      /\ \A q \in Others(p) : proc'[q] = proc[q]
  BY DEF CleanInv, OfflineInv, TypeOK, Others
<1>1. SchemaFirst'
  <2>1. ASSUME NEW q \in Process, proc'[q].handle # 0, proc'[q].task # "migrate"
        PROVE  Schema \in LiveRows'
    <3>1. CASE q = p
      BY <1>0, <2>1, <3>1
    <3>2. CASE q # p
      BY <1>0, <2>1, <3>2 DEF CleanInv, SchemaFirst, Open, Others
    <3>q. QED
      BY <3>1, <3>2
  <2>q. QED
    BY <2>1 DEF SchemaFirst, Open
<1>2. CopiesAreSound'
  <2>1. ASSUME NEW q \in Process
        PROVE  /\ Dense(proc'[q].copied)
               /\ proc'[q].task \in {"none", "migrate"} => proc'[q].copied = {}
               /\ proc'[q].task = "restore" => Schema \in proc'[q].copied
    <3>1. CASE q = p
      BY <1>0, <3>1
    <3>2. CASE q # p
      BY <1>0, <3>2 DEF CleanInv, CopiesAreSound, Others
    <3>q. QED
      BY <3>1, <3>2
  <2>q. QED
    BY <2>1 DEF CopiesAreSound, Dense, Tasks, Number
<1>3. LogIsEmpty'
  BY <1>0 DEF CleanInv, LogIsEmpty, Others
<1>q. QED
  BY <1>1, <1>2, <1>3 DEF CleanInv, Dense, Tasks, Number

(* A step that leaves the content, the backup and the copies as they are.  *)
LEMMA QuietClean ==
  ASSUME CleanInv, OfflineInv', NEW p \in Process, NEW record,
         proc' = [proc EXCEPT ![p] = record], LiveRows' = LiveRows, backup' = backup,
         record.copied = {}, record.task \in {"none", "migrate"},
         record.handle # 0 /\ record.task # "migrate" => Schema \in LiveRows,
         wal' = wal \/ wal' = {}
  PROVE  CleanInv'
<1>1. Dense(LiveRows') /\ Dense(record.copied)
  BY DEF CleanInv, Dense, Tasks
<1>2. Dense(backup')
  BY DEF CleanInv, CopiesAreSound
<1>3. Schema \in LiveRows' \/ LiveRows' = {}
  BY DEF CleanInv, SchemaFirst
<1>q. QED
  BY <1>1, <1>2, <1>3, CleanStep

(* Opening, closing and being killed.                                      *)
LEMMA OpenedClean ==
  ASSUME CleanInv, OfflineInv', NEW p \in Process,
         \/ Connect(p) \/ ConnectReadonly(p) \/ Crash(p)
         \/ (Closes(p) /\ Open(p))
  PROVE  CleanInv'
<1>0. TypeOK' /\ OfflineInv
  BY DEF CleanInv, OfflineInv
<1>1. LiveRows' = LiveRows
  BY <1>0, ContentStays
<1>2. CASE Connect(p)
  <2> DEFINE record == [handle |-> live', writes |-> TRUE, copied |-> {},
                        task |-> IF Schema \in LiveRows THEN "none" ELSE "migrate"]
  <2>1. proc' = [proc EXCEPT ![p] = record] /\ UNCHANGED <<wal, backup>>
    BY <1>2 DEF Connect
  <2>2. /\ record.copied = {} /\ record.task \in {"none", "migrate"}
        /\ record.task # "migrate" => Schema \in LiveRows
    OBVIOUS
  <2> HIDE DEF record
  <2>q. QED
    BY <1>1, <2>1, <2>2, QuietClean
<1>3. CASE ConnectReadonly(p)
  <2> DEFINE record == [Away EXCEPT !.handle = live]
  <2>1. /\ proc' = [proc EXCEPT ![p] = record]
        /\ UNCHANGED <<wal, backup>>
        /\ Schema \in LiveRows
    BY <1>3 DEF ConnectReadonly, Valid
  <2>2. record.copied = {} /\ record.task = "none"
    BY DEF Away
  <2> HIDE DEF record
  <2>q. QED
    BY <1>1, <2>1, <2>2, QuietClean
<1>4. CASE Crash(p) \/ Closes(p)
  <2>1. /\ proc' = [proc EXCEPT ![p] = Away]
        /\ backup' = backup
        /\ wal' = wal \/ wal' = {}
    BY <1>4 DEF Crash, Closes
  <2>q. QED
    BY <1>1, <2>1, AwayFacts, QuietClean
<1>q. QED
  BY <1>2, <1>3, <1>4

(* Commits and checkpoints.                                                *)
LEMMA CommittedClean ==
  ASSUME CleanInv, OfflineInv', NEW p \in Process,
         Migrate(p) \/ Create(p) \/ Checkpoint(p)
  PROVE  CleanInv'
<1>0. /\ TypeOK /\ TypeOK' /\ OfflineInv /\ Open(p)
      /\ proc[p] \in ProcessRecord
      /\ \A q \in Process : proc[q].task # "restore"
      /\ Dense(LiveRows) /\ LiveRows \in SUBSET Row
      /\ Seen(p) = LiveRows
  BY NoRestoreBesideOpen, RowTypes, SeenIsLive
     DEF CleanInv, OfflineInv, WorkIsOpen, Migrate, Create, Checkpoint, TypeOK
<1>1. CASE Migrate(p)
  <2> DEFINE record == [proc[p] EXCEPT !.task = "none"]
  <2>1. proc' = [proc EXCEPT ![p] = record] /\ backup' = backup
    BY <1>1 DEF Migrate
  <2>2. LiveRows' = LiveRows \cup {Schema}
    BY <1>0, <1>1, CommitAdds DEF Migrate
  <2>3. Dense(LiveRows')
    BY <1>0, <2>2, DenseOtherRows
  <2>4. proc[p].copied = {}
    BY <1>1 DEF Migrate, CleanInv, CopiesAreSound
  <2>5. record.task = "none" /\ record.copied = {}
    BY <1>0, <2>4 DEF ProcessRecord
  <2>6. Dense(record.copied) /\ Dense(backup')
    BY <2>1, <2>5 DEF CleanInv, CopiesAreSound, Dense, Tasks
  <2> HIDE DEF record
  <2>q. QED
    BY <1>0, <2>1, <2>2, <2>3, <2>5, <2>6, CleanStep DEF Others
<1>2. CASE Create(p)
  <2>1. PICK n \in 1..(MaxNumber + 1) : /\ IsNext(n, LiveRows) /\ Fits(n)
                                        /\ wal' = wal \cup {n}
    BY <1>0, <1>2 DEF Create
  <2>2. n \in Number
    BY <2>1, StoreAssumption DEF Fits, Number
  <2>3. LiveRows' = LiveRows \cup {n}
    BY <1>0, <1>2, <2>1, CommitAdds DEF Create
  <2>4. Dense(LiveRows')
    BY <1>0, <2>1, <2>2, <2>3, NextIsFirstFree
  <2>5. Schema \in LiveRows
    BY <1>0, <1>2 DEF Create, Idle, CleanInv, SchemaFirst
  <2>6. UNCHANGED <<proc, backup>>
    BY <1>2 DEF Create
  <2>7. SchemaFirst'
    BY <2>3, <2>5, <2>6 DEF SchemaFirst, Open
  <2>8. CopiesAreSound' /\ LogIsEmpty'
    BY <1>0, <2>6 DEF CleanInv, CopiesAreSound, LogIsEmpty, Dense, Tasks
  <2>q. QED
    BY <2>4, <2>7, <2>8 DEF CleanInv, Dense, Tasks, Number
<1>3. CASE Checkpoint(p)
  <2>1. LiveRows' = LiveRows /\ UNCHANGED <<proc, backup>>
    BY <1>0, <1>3, ContentStays DEF Checkpoint
  <2>2. SchemaFirst' /\ CopiesAreSound' /\ LogIsEmpty'
    BY <1>0, <2>1 DEF CleanInv, SchemaFirst, Open, CopiesAreSound, LogIsEmpty, Dense, Tasks
  <2>q. QED
    BY <1>0, <2>1, <2>2 DEF CleanInv, Dense, Tasks
<1>q. QED
  BY <1>1, <1>2, <1>3

(* Backups and restores.                                                   *)
LEMMA CopiedClean ==
  ASSUME RestoresClean, CleanInv, OfflineInv', NEW p \in Process,
         BackupCopies(p) \/ BackupReplaces(p) \/ RestoreCopies(p) \/ RestoreReplaces(p)
  PROVE  CleanInv'
<1>0. /\ TypeOK /\ TypeOK' /\ OfflineInv
      /\ proc[p] \in ProcessRecord
      /\ Dense(LiveRows) /\ Dense(backup) /\ Dense(proc[p].copied) /\ Dense({})
      /\ Schema \in LiveRows \/ LiveRows = {}
  BY DEF CleanInv, OfflineInv, TypeOK, CopiesAreSound, SchemaFirst, Dense, Tasks
<1>1. CASE BackupCopies(p)
  <2> DEFINE record == [proc[p] EXCEPT !.task = "backup", !.copied = Seen(p)]
  <2>1. proc' = [proc EXCEPT ![p] = record] /\ UNCHANGED <<wal, backup>>
    BY <1>1 DEF BackupCopies
  <2>2. LiveRows' = LiveRows
    BY <1>0, <1>1, ContentStays
  <2>3. Seen(p) = LiveRows /\ Schema \in LiveRows
    BY <1>0, <1>1, SeenIsLive DEF BackupCopies, Valid, OfflineInv
  <2>4. record.task = "backup" /\ record.copied = LiveRows
    BY <1>0, <2>3 DEF ProcessRecord
  <2>5. Dense(LiveRows') /\ Dense(backup') /\ Dense(record.copied)
    BY <1>0, <2>1, <2>2, <2>4
  <2> HIDE DEF record
  <2>q. QED
    BY <1>0, <2>1, <2>2, <2>3, <2>4, <2>5, CleanStep
<1>2. CASE BackupReplaces(p)
  <2> DEFINE record == [proc[p] EXCEPT !.task = "none", !.copied = {}]
  <2>1. /\ proc' = [proc EXCEPT ![p] = record]
        /\ wal' = wal /\ backup' = proc[p].copied
    BY <1>2 DEF BackupReplaces
  <2>2. LiveRows' = LiveRows
    BY <1>0, <1>2, ContentStays
  <2>3. Schema \in LiveRows
    BY <1>2 DEF BackupReplaces, CleanInv, OfflineInv, WorkIsOpen, SchemaFirst
  <2>4. record.task = "none" /\ record.copied = {}
    BY <1>0 DEF ProcessRecord
  <2>5. Dense(LiveRows') /\ Dense(backup') /\ Dense(record.copied)
    BY <1>0, <2>1, <2>2, <2>4
  <2> HIDE DEF record
  <2>q. QED
    BY <1>0, <2>1, <2>2, <2>3, <2>4, <2>5, CleanStep
<1>3. CASE RestoreCopies(p)
  <2> DEFINE record == [proc[p] EXCEPT !.task = "restore", !.copied = backup]
  <2>1. /\ proc' = [proc EXCEPT ![p] = record]
        /\ UNCHANGED <<wal, backup>>
        /\ Schema \in backup
    BY <1>3 DEF RestoreCopies, Valid
  <2>2. LiveRows' = LiveRows
    BY <1>0, <1>3, ContentStays
  <2>3. proc[p].handle = 0 /\ wal = {}
    BY <1>3 DEF RestoreCopies, RestoreAdmitted, OperatorRestores, RestoresClean, Open
  <2>4. record.task = "restore" /\ record.copied = backup /\ record.handle = 0
    BY <1>0, <2>3 DEF ProcessRecord
  <2>5. Dense(LiveRows') /\ Dense(backup') /\ Dense(record.copied)
    BY <1>0, <2>1, <2>2, <2>4
  <2> HIDE DEF record
  <2>q. QED
    BY <1>0, <2>1, <2>2, <2>3, <2>4, <2>5, CleanStep
<1>4. CASE RestoreReplaces(p)
  <2> DEFINE record == [proc[p] EXCEPT !.task = "none", !.copied = {}]
  <2>1. proc' = [proc EXCEPT ![p] = record] /\ UNCHANGED <<wal, backup>>
    BY <1>4 DEF RestoreReplaces
  <2>2. LiveRows' = proc[p].copied /\ Schema \in proc[p].copied
    BY <1>4, RestoreInstalls DEF RestoreReplaces, CleanInv, CopiesAreSound
  <2>3. record.task = "none" /\ record.copied = {}
    BY <1>0 DEF ProcessRecord
  <2>4. Dense(LiveRows') /\ Dense(backup') /\ Dense(record.copied)
    BY <1>0, <2>1, <2>2, <2>3
  <2> HIDE DEF record
  <2>q. QED
    BY <1>0, <2>1, <2>2, <2>3, <2>4, CleanStep
<1>q. QED
  BY <1>1, <1>2, <1>3, <1>4

(* Every step keeps the invariant of clean restores.                       *)
LEMMA NextClean ==
  ASSUME RestoresClean, CleanInv, [Next]_vars
  PROVE  CleanInv'
<1>0. OfflineInv'
  BY NextOffline DEF RestoresClean, RestoresOffline, CleanInv
<1>1. CASE UNCHANGED vars
  BY <1>0, <1>1 DEF vars, CleanInv, SchemaFirst, LiveRows, Open, CopiesAreSound, LogIsEmpty,
                    Dense, Tasks
<1>2. CASE BackupSpoilt
  <2>1. Dense(backup')
    BY <1>2, DenseOtherRows, RowTypes DEF BackupSpoilt, CleanInv, OfflineInv, CopiesAreSound
  <2>2. UNCHANGED <<file, live, wal, proc>>
    BY <1>2 DEF BackupSpoilt
  <2>q. QED
    BY <1>0, <2>1, <2>2 DEF CleanInv, SchemaFirst, LiveRows, Open, CopiesAreSound,
                            LogIsEmpty, Dense, Tasks
<1>3. ASSUME NEW p \in Process, MigrationOvertaken(p) \/ Close(p)
      PROVE  CleanInv'
  <2>1. Closes(p) /\ Open(p)
    BY <1>3 DEF MigrationOvertaken, Close, CleanInv, OfflineInv, WorkIsOpen
  <2>q. QED
    BY <1>0, <2>1, OpenedClean
<1>q. QED
  BY <1>0, <1>1, <1>2, <1>3, OpenedClean, CommittedClean, CopiedClean DEF Next

(* It holds at first.                                                      *)
LEMMA InitClean == Init => CleanInv
<1> SUFFICES ASSUME Init
             PROVE  CleanInv
  OBVIOUS
<1>1. \A p \in Process : proc[p] = Away
  BY DEF Init
<1>2. LiveRows = {}
  BY DEF Init, LiveRows
<1>q. QED
  BY <1>1, <1>2, AwayFacts, InitOffline
     DEF Init, CleanInv, SchemaFirst, CopiesAreSound, LogIsEmpty, Open, Dense, Tasks

-----------------------------------------------------------------------------
(* Every step is one of the store's, or changes nothing of it.             *)

(* What a process's record says of its copy.                               *)
CopyIn(record) ==
    [from |-> CASE record.task = "backup" -> "content"
                [] record.task = "restore" -> "backup"
                [] OTHER -> "nothing",
     rows |-> record.copied]
Copies == [p \in Process |-> CopyOf(p)]

(* The copies after the step of a process.                                 *)
LEMMA CopiesAfter ==
  ASSUME TypeOK, NEW p \in Process, NEW record, proc' = [proc EXCEPT ![p] = record]
  PROVE  /\ Copies' = [Copies EXCEPT ![p] = CopyIn(record)]
         /\ Copies[p] = CopyIn(proc[p])
<1>1. /\ proc'[p] = record
      /\ \A q \in Process \ {p} : proc'[q] = proc[q]
  BY DEF TypeOK
<1>2. \A q \in Process : /\ Copies[q] = CopyIn(proc[q])
                         /\ Copies'[q] = CopyIn(proc'[q])
  BY DEF Copies, CopyOf, CopyIn
<1>3. \A q \in Process : Copies'[q] = [Copies EXCEPT ![p] = CopyIn(record)][q]
  BY <1>1, <1>2 DEF Copies
<1>q. QED
  BY <1>2, <1>3 DEF Copies

(* A record without a copy.                                                *)
LEMMA NothingCopied ==
  ASSUME NEW record, record.task \in {"none", "migrate"}, record.copied = {}
  PROVE  CopyIn(record) = Store!NoCopy
  BY DEF CopyIn, Store!NoCopy

(* A step that begins and ends without a copy leaves the copies alone.     *)
LEMMA NoCopyChanges ==
  ASSUME TypeOK, NEW p \in Process, NEW record, proc' = [proc EXCEPT ![p] = record],
         record.task \in {"none", "migrate"}, record.copied = {},
         proc[p].task \in {"none", "migrate"}, proc[p].copied = {}
  PROVE  Copies' = Copies
<1>1. /\ CopyIn(record) = Store!NoCopy
      /\ CopyIn(proc[p]) = Store!NoCopy
  BY NothingCopied
<1>2. /\ Copies' = [Copies EXCEPT ![p] = CopyIn(record)]
      /\ Copies[p] = CopyIn(proc[p])
  BY CopiesAfter
<1>q. QED
  BY <1>1, <1>2 DEF Copies

(* Opening, closing, checkpoints: nothing of the store changes; a kill     *)
(* forgets the copy.                                                       *)
LEMMA QuietStore ==
  ASSUME CleanInv, OfflineInv', NEW p \in Process,
         \/ Connect(p) \/ ConnectReadonly(p) \/ Checkpoint(p) \/ Crash(p)
         \/ (Closes(p) /\ Open(p) /\ proc[p].task \in {"none", "migrate"})
  PROVE  [Store!StoreNext]_(Store!storeVars)
<1>0. /\ TypeOK /\ TypeOK' /\ OfflineInv
      /\ proc[p].task \in {"none", "migrate"} => proc[p].copied = {}
  BY DEF CleanInv, OfflineInv, CopiesAreSound
<1>1. LiveRows' = LiveRows
  BY <1>0, ContentStays
<1>2. CASE Connect(p)
  <2> DEFINE record == [handle |-> live', writes |-> TRUE, copied |-> {},
                        task |-> IF Schema \in LiveRows THEN "none" ELSE "migrate"]
  <2>1. /\ proc' = [proc EXCEPT ![p] = record]
        /\ backup' = backup
        /\ proc[p].task = "none"
    BY <1>2 DEF Connect, Idle
  <2>2. record.copied = {} /\ record.task \in {"none", "migrate"}
    OBVIOUS
  <2> HIDE DEF record
  <2>3. Copies' = Copies
    BY <1>0, <2>1, <2>2, NoCopyChanges
  <2>q. QED
    BY <1>1, <2>1, <2>3 DEF Store!storeVars, Copies
<1>3. CASE ConnectReadonly(p)
  <2> DEFINE record == [Away EXCEPT !.handle = live]
  <2>1. /\ proc' = [proc EXCEPT ![p] = record]
        /\ backup' = backup
        /\ proc[p].task = "none"
    BY <1>3 DEF ConnectReadonly, Idle
  <2>2. record.copied = {} /\ record.task = "none"
    BY DEF Away
  <2> HIDE DEF record
  <2>3. Copies' = Copies
    BY <1>0, <2>1, <2>2, NoCopyChanges
  <2>q. QED
    BY <1>1, <2>1, <2>3 DEF Store!storeVars, Copies
<1>4. CASE Checkpoint(p)
  <2>1. Copies' = Copies /\ backup' = backup
    BY <1>4 DEF Checkpoint, Copies, CopyOf
  <2>q. QED
    BY <1>1, <2>1 DEF Store!storeVars, Copies
<1>5. CASE Crash(p)
  <2>0. CopyIn(Away) = Store!NoCopy
    BY AwayFacts, NothingCopied
  <2>1. Copies' = [Copies EXCEPT ![p] = Store!NoCopy]
    BY <1>0, <1>5, <2>0, CopiesAfter DEF Crash
  <2>2. Store!Forget(p)
    BY <1>1, <1>5, <2>1 DEF Crash, Store!Forget, Copies
  <2>q. QED
    BY <2>2 DEF Store!StoreNext
<1>6. CASE Closes(p) /\ proc[p].task \in {"none", "migrate"}
  <2>1. Copies' = Copies
    BY <1>0, <1>6, AwayFacts, NoCopyChanges DEF Closes
  <2>q. QED
    BY <1>1, <1>6, <2>1 DEF Closes, Store!storeVars, Copies
<1>q. QED
  BY <1>2, <1>3, <1>4, <1>5, <1>6

(* A migration initialises the store, a task is added to it.               *)
LEMMA CommittedStore ==
  ASSUME CleanInv, OfflineInv', NEW p \in Process, Migrate(p) \/ Create(p)
  PROVE  Store!StoreNext
<1>0. /\ TypeOK /\ OfflineInv /\ Open(p)
      /\ proc[p] \in ProcessRecord
      /\ Dense(LiveRows) /\ LiveRows \in SUBSET Row
      /\ Schema \in LiveRows \/ LiveRows = {}
      /\ Seen(p) = LiveRows
  BY RowTypes, SeenIsLive
     DEF CleanInv, OfflineInv, WorkIsOpen, SchemaFirst, Migrate, Create, TypeOK
<1>1. CASE Migrate(p)
  <2> DEFINE record == [proc[p] EXCEPT !.task = "none"]
  <2>1. /\ proc' = [proc EXCEPT ![p] = record]
        /\ backup' = backup
        /\ proc[p].task = "migrate" /\ proc[p].copied = {}
    BY <1>1 DEF Migrate, CleanInv, CopiesAreSound
  <2>2. record.task = "none" /\ record.copied = {}
    BY <1>0, <2>1 DEF ProcessRecord
  <2> HIDE DEF record
  <2>3. Copies' = Copies
    BY <1>0, <2>1, <2>2, NoCopyChanges
  <2>4. LiveRows = {} /\ LiveRows' = {Schema}
    BY <1>0, <1>1, CommitAdds DEF Migrate
  <2>5. Store!Initialise
    BY <2>1, <2>3, <2>4 DEF Store!Initialise, Copies
  <2>q. QED
    BY <2>5 DEF Store!StoreNext
<1>2. CASE Create(p)
  <2>1. PICK n \in 1..(MaxNumber + 1) : /\ IsNext(n, LiveRows) /\ Fits(n)
                                        /\ wal' = wal \cup {n}
    BY <1>0, <1>2 DEF Create
  <2>2. n \in Number
    BY <2>1, StoreAssumption DEF Fits, Number
  <2>3. LiveRows' = LiveRows \cup {n}
    BY <1>0, <1>2, <2>1, CommitAdds DEF Create
  <2>4. \A m \in Number : m \in LiveRows <=> m < n
    BY <1>0, <2>1, <2>2, NextIsFirstFree
  <2>5. Schema \in LiveRows
    BY <1>0, <1>2 DEF Create, Idle, CleanInv, SchemaFirst
  <2>6. Copies' = Copies /\ backup' = backup
    BY <1>2 DEF Create, Copies, CopyOf
  <2>7. Store!AddTask
    BY <2>2, <2>3, <2>4, <2>5, <2>6
       DEF Store!AddTask, Store!IsFirstFree, Store!Number, Number, Copies
  <2>q. QED
    BY <2>7 DEF Store!StoreNext
<1>q. QED
  BY <1>1, <1>2

(* Backups and restores copy and publish.                                  *)
LEMMA CopiedStore ==
  ASSUME CleanInv, OfflineInv', NEW p \in Process,
         BackupCopies(p) \/ BackupReplaces(p) \/ RestoreCopies(p) \/ RestoreReplaces(p)
  PROVE  Store!StoreNext
<1>0. TypeOK /\ TypeOK' /\ OfflineInv /\ proc[p] \in ProcessRecord
  BY DEF CleanInv, OfflineInv, TypeOK
<1>1. CASE BackupCopies(p)
  <2> DEFINE record == [proc[p] EXCEPT !.task = "backup", !.copied = Seen(p)]
  <2>1. proc' = [proc EXCEPT ![p] = record] /\ backup' = backup
    BY <1>1 DEF BackupCopies
  <2>2. LiveRows' = LiveRows /\ Seen(p) = LiveRows
    BY <1>0, <1>1, ContentStays, SeenIsLive DEF BackupCopies, OfflineInv
  <2>3. record.task = "backup" /\ record.copied = LiveRows
    BY <1>0, <2>2 DEF ProcessRecord
  <2> HIDE DEF record
  <2>4. Copies' = [Copies EXCEPT ![p] = [from |-> "content", rows |-> LiveRows]]
    BY <1>0, <2>1, <2>3, CopiesAfter DEF CopyIn
  <2>5. Store!CopyContent(p)
    BY <2>1, <2>2, <2>4 DEF Store!CopyContent, Copies
  <2>q. QED
    BY <2>5 DEF Store!StoreNext
<1>2. CASE BackupReplaces(p)
  <2> DEFINE record == [proc[p] EXCEPT !.task = "none", !.copied = {}]
  <2>1. /\ proc' = [proc EXCEPT ![p] = record]
        /\ backup' = proc[p].copied
        /\ proc[p].task = "backup"
    BY <1>2 DEF BackupReplaces
  <2>2. LiveRows' = LiveRows
    BY <1>0, <1>2, ContentStays
  <2>3. record.task = "none" /\ record.copied = {}
    BY <1>0 DEF ProcessRecord
  <2> HIDE DEF record
  <2>4. /\ Copies' = [Copies EXCEPT ![p] = Store!NoCopy]
        /\ Copies[p].from = "content" /\ Copies[p].rows = proc[p].copied
    <3>1. CopyIn(record) = Store!NoCopy
      BY <2>3, NothingCopied
    <3>2. CopyIn(proc[p]).from = "content" /\ CopyIn(proc[p]).rows = proc[p].copied
      BY <2>1 DEF CopyIn
    <3>q. QED
      BY <1>0, <2>1, <3>1, <3>2, CopiesAfter
  <2>5. Store!PublishBackup(p)
    BY <2>1, <2>2, <2>4 DEF Store!PublishBackup, Copies
  <2>q. QED
    BY <2>5 DEF Store!StoreNext
<1>3. CASE RestoreCopies(p)
  <2> DEFINE record == [proc[p] EXCEPT !.task = "restore", !.copied = backup]
  <2>1. /\ proc' = [proc EXCEPT ![p] = record]
        /\ backup' = backup
        /\ Schema \in backup /\ Damage \notin backup
    BY <1>3 DEF RestoreCopies, Valid
  <2>2. LiveRows' = LiveRows
    BY <1>0, <1>3, ContentStays
  <2>3. record.task = "restore" /\ record.copied = backup
    BY <1>0 DEF ProcessRecord
  <2> HIDE DEF record
  <2>4. Copies' = [Copies EXCEPT ![p] = [from |-> "backup", rows |-> backup]]
    BY <1>0, <2>1, <2>3, CopiesAfter DEF CopyIn
  <2>5. Store!CopyBackup(p)
    BY <2>1, <2>2, <2>4 DEF Store!CopyBackup, Copies
  <2>q. QED
    BY <2>5 DEF Store!StoreNext
<1>4. CASE RestoreReplaces(p)
  <2> DEFINE record == [proc[p] EXCEPT !.task = "none", !.copied = {}]
  <2>1. /\ proc' = [proc EXCEPT ![p] = record]
        /\ backup' = backup
        /\ proc[p].task = "restore"
    BY <1>4 DEF RestoreReplaces
  <2>2. LiveRows' = proc[p].copied
    BY <1>4, RestoreInstalls
  <2>3. record.task = "none" /\ record.copied = {}
    BY <1>0 DEF ProcessRecord
  <2> HIDE DEF record
  <2>4. /\ Copies' = [Copies EXCEPT ![p] = Store!NoCopy]
        /\ Copies[p].from = "backup" /\ Copies[p].rows = proc[p].copied
    <3>1. CopyIn(record) = Store!NoCopy
      BY <2>3, NothingCopied
    <3>2. CopyIn(proc[p]).from = "backup" /\ CopyIn(proc[p]).rows = proc[p].copied
      BY <2>1 DEF CopyIn
    <3>q. QED
      BY <1>0, <2>1, <3>1, <3>2, CopiesAfter
  <2>5. Store!InstallBackup(p)
    BY <2>1, <2>2, <2>4 DEF Store!InstallBackup, Copies
  <2>q. QED
    BY <2>5 DEF Store!StoreNext
<1>q. QED
  BY <1>1, <1>2, <1>3, <1>4

(* Every step of the processes.                                            *)
LEMMA NextStore ==
  ASSUME CleanInv, CleanInv', [Next]_vars
  PROVE  [Store!StoreNext]_(Store!storeVars)
<1>0. OfflineInv'
  BY DEF CleanInv
<1>1. CASE UNCHANGED vars
  BY <1>1 DEF vars, LiveRows, CopyOf, Store!storeVars
<1>2. CASE BackupSpoilt
  <2>1. LiveRows' = LiveRows /\ Copies' = Copies
    BY <1>2 DEF BackupSpoilt, LiveRows, Copies, CopyOf
  <2>2. Store!SpoilBackup
    BY <1>2, <2>1 DEF BackupSpoilt, Store!SpoilBackup, Copies
  <2>q. QED
    BY <2>2 DEF Store!StoreNext
<1>3. ASSUME NEW p \in Process, MigrationOvertaken(p) \/ Close(p)
      PROVE  [Store!StoreNext]_(Store!storeVars)
  <2>1. Closes(p) /\ Open(p) /\ proc[p].task \in {"none", "migrate"}
    BY <1>3 DEF MigrationOvertaken, Close, Idle, CleanInv, OfflineInv, WorkIsOpen
  <2>q. QED
    BY <1>0, <2>1, QuietStore
<1>q. QED
  BY <1>0, <1>1, <1>2, <1>3, QuietStore, CommittedStore, CopiedStore DEF Next

-----------------------------------------------------------------------------
(* Files, log, backup and processes keep their types, whatever the         *)
(* operator does.                                                          *)
THEOREM StoreTypes == Spec => []TypeOK
<1>1. Init => TypeOK
  BY InitOffline DEF OfflineInv
<1>q. QED
  BY <1>1, NextTypes, PTL DEF Spec

(* restore_from with every other process offline, which _OPEN_DATABASE_    *)
(* PATHS checks for the own process only: nobody then works on a file that *)
(* is no longer at the path, and loses what it commits.                    *)
THEOREM HandlesStayLive ==
  ASSUME RestoresOffline
  PROVE  Spec => []HandlesAreLive
<1>1. OfflineInv /\ [Next]_vars => OfflineInv'
  BY NextOffline
<1>2. OfflineInv => HandlesAreLive
  BY DEF OfflineInv
<1>q. QED
  BY <1>1, <1>2, InitOffline, PTL DEF Spec

(* The invariant of restores over an empty log.                            *)
LEMMA CleanHolds ==
  ASSUME RestoresClean
  PROVE  Spec => []CleanInv
<1>1. CleanInv /\ [Next]_vars => CleanInv'
  BY NextClean
<1>q. QED
  BY <1>1, InitClean, PTL DEF Spec

(* _allocate_identifier inside BEGIN IMMEDIATE: no process, kill, backup   *)
(* or clean restore leaves a gap in the task numbers.                      *)
THEOREM NumbersStayDense ==
  ASSUME RestoresClean
  PROVE  Spec => []NumbersAreDense
<1>1. CleanInv => NumbersAreDense
  BY DEF CleanInv, Dense, NumbersAreDense
<1>q. QED
  BY <1>1, CleanHolds, PTL

(* restore_from over an empty log: what it leaves at the path is exactly   *)
(* the backup that it validated.                                           *)
THEOREM RestoresInstallBackups ==
  ASSUME RestoresClean
  PROVE  Spec => RestoredIsBackup
<1> DEFINE Installed == \A p \in Process : RestoreReplaces(p) => LiveRows' = proc[p].copied
<1>1. CleanInv => Installed
  BY RestoreInstalls
<1>q. QED
  BY <1>1, CleanHolds, PTL DEF Spec, RestoredIsBackup

(* The database of control_db.py, with its log, its processes, their kills *)
(* and the operator's clean restores, is the store of StoreContract.       *)
THEOREM StoreImplemented ==
  ASSUME RestoresClean
  PROVE  Spec => ImplementsStore
<1>1. Init => Store!StoreInit
  <2> SUFFICES ASSUME Init
               PROVE  Store!StoreInit
    OBVIOUS
  <2>1. \A p \in Process : CopyOf(p) = Store!NoCopy
    BY AwayFacts DEF Init, CopyOf, Store!NoCopy
  <2>q. QED
    BY <2>1 DEF Init, LiveRows, Store!StoreInit
<1>2. CleanInv /\ CleanInv' /\ [Next]_vars => [Store!StoreNext]_(Store!storeVars)
  BY NextStore
<1>q. QED
  BY <1>1, <1>2, CleanHolds, PTL DEF Spec, ImplementsStore, Store!StoreSpec
=============================================================================
