---------------------------- MODULE ControlStore ----------------------------
(***************************************************************************)
(* control_db.py below its transactions: opening and migrating the         *)
(* database, allocating task identifiers, closing, online backup and       *)
(* restore, by processes that may be killed at any step.                   *)
(*                                                                         *)
(* SQLite (external) keeps a database in two places: the file, and a       *)
(* write-ahead log found by the file's PATH.  A commit goes to the log;    *)
(* a checkpoint moves the log into the file its connection has open.  The  *)
(* last writable connection to close does that too; the last read-only     *)
(* connection, or a killed process, leaves the log behind.  restore_from   *)
(* puts another file at the path.                                          *)
(***************************************************************************)
EXTENDS Integers

CONSTANTS
    Process,       \* host processes
    MaxNumber,     \* the last task number (999_999)
    MaxRestores,   \* bound: restores
    RestoreWhen,   \* when an operator restores: "any" time, with every other
                   \* process "offline", or "clean": offline and the log empty
    Schema,        \* the rows of the accepted schema and its history
    Damage         \* anything that the validation finds wrong

ASSUME StoreAssumption ==
    /\ MaxNumber \in Nat /\ MaxRestores \in Nat
    /\ RestoreWhen \in {"any", "offline", "clean"}
    /\ Schema \notin Int /\ Damage \notin Int /\ Schema # Damage

VARIABLES
    file,     \* rows of each file that has been at the path
    live,     \* the file at the path, 0 before the first open
    wal,      \* rows committed to the log at the path and not checkpointed
    backup,   \* rows of the backup file, {} if there is none
    proc      \* the processes

vars == <<file, live, wal, backup, proc>>

-----------------------------------------------------------------------------
Number == 1..MaxNumber
Row == Number \cup {Schema, Damage}
File == 1..(MaxRestores + 1)

(* handle: the file a connection has open, 0 if none; task: what is under  *)
(* way; copied: the rows in the temporary file of a backup or restore.     *)
Task == {"none", "migrate", "backup", "restore"}
ProcessRecord == [handle : File \cup {0}, writes : BOOLEAN, task : Task, copied : SUBSET Row]
Away == [handle |-> 0, writes |-> FALSE, task |-> "none", copied |-> {}]

Init ==
    /\ file = [f \in File |-> {}]
    /\ live = 0
    /\ wal = {}
    /\ backup = {}
    /\ proc = [p \in Process |-> Away]

-----------------------------------------------------------------------------
Open(p) == proc[p].handle # 0
Idle(p) == proc[p].task = "none"

(* What a connection reads: the log over the file it has open.             *)
Seen(p) == file[proc[p].handle] \cup wal

(* What the next process to open the database will read.                   *)
LiveRows == IF live = 0 THEN {} ELSE file[live] \cup wal

(* _validate_schema *)
Valid(rows) == Schema \in rows /\ Damage \notin rows

(* The rows of tasks, and the largest number.                              *)
Tasks(rows) == rows \cap Number

(* MAX(identifier) + 1 *)
IsNext(n, rows) ==
    /\ \A m \in Tasks(rows) : m < n
    /\ n = 1 \/ n - 1 \in Tasks(rows)

(* Allocation is refused after the last number.                            *)
Fits(n) == n <= MaxNumber

Others(p) == Process \ {p}
Offline(p) == \A q \in Others(p) : ~Open(q) /\ Idle(q)

(* The operator's discipline before restore_from.                          *)
OperatorRestores(p) ==
    /\ RestoreWhen # "any" => Offline(p)
    /\ RestoreWhen = "clean" => wal = {}

NobodyRestores == RestoreWhen # "any" => \A q \in Process : proc[q].task # "restore"

-----------------------------------------------------------------------------
(* Opening.                                                                *)

(* The connection and the read of the version in _migrate.  A database     *)
(* without the schema is to be migrated; the transaction comes later.      *)
Connect(p) ==
    /\ ~Open(p) /\ Idle(p) /\ NobodyRestores
    /\ live' = IF live = 0 THEN 1 ELSE live
    /\ LiveRows = {} \/ Valid(LiveRows)
    /\ proc' = [proc EXCEPT ![p] =
                  [handle |-> live', writes |-> TRUE, copied |-> {},
                   task |-> IF Schema \in LiveRows THEN "none" ELSE "migrate"]]
    /\ UNCHANGED <<file, wal, backup>>

ConnectReadonly(p) ==
    /\ ~Open(p) /\ Idle(p) /\ NobodyRestores
    /\ Valid(LiveRows)
    /\ proc' = [proc EXCEPT ![p] = [Away EXCEPT !.handle = live]]
    /\ UNCHANGED <<file, live, wal, backup>>

(* What a connection leaves when it closes: the log goes into its file if  *)
(* it is the last one and may write.                                       *)
Closes(p) ==
    /\ IF proc[p].writes /\ \A q \in Others(p) : ~Open(q)
       THEN /\ file' = [file EXCEPT ![proc[p].handle] = @ \cup wal]
            /\ wal' = {}
       ELSE UNCHANGED <<file, wal>>
    /\ proc' = [proc EXCEPT ![p] = Away]
    /\ UNCHANGED <<live, backup>>

\* Mutant: the version read before the transaction is believed, and the
\* tables that are there already are made anew.
Remigrate(p) ==
    /\ proc[p].task = "migrate"
    /\ wal' = {Schema}
    /\ file' = [file EXCEPT ![proc[p].handle] = {}]
    /\ proc' = [proc EXCEPT ![p].task = "none"]
    /\ UNCHANGED <<live, backup>>

Migrate(p) ==
    /\ proc[p].task = "migrate"
    /\ Schema \notin Seen(p)
    /\ wal' = wal \cup {Schema}
    /\ proc' = [proc EXCEPT ![p].task = "none"]
    /\ UNCHANGED <<file, live, backup>>

(* Another process has migrated since the version was read: the first      *)
(* CREATE TABLE fails, the transaction is rolled back, open() raises.      *)
MigrationOvertaken(p) ==
    /\ proc[p].task = "migrate"
    /\ Schema \in Seen(p)
    /\ Closes(p)

-----------------------------------------------------------------------------
(* Use.                                                                    *)

(* create_task: the number is allocated inside BEGIN IMMEDIATE.            *)
Create(p) ==
    /\ Open(p) /\ Idle(p) /\ proc[p].writes
    /\ \E n \in 1..(MaxNumber + 1) :
          /\ IsNext(n, Seen(p))
          /\ Fits(n)
          /\ wal' = wal \cup {n}
    /\ UNCHANGED <<file, live, backup, proc>>

Checkpoint(p) ==
    /\ Open(p) /\ proc[p].writes
    /\ wal # {}
    /\ file' = [file EXCEPT ![proc[p].handle] = @ \cup wal]
    /\ wal' = {}
    /\ UNCHANGED <<live, backup, proc>>

Close(p) ==
    /\ Open(p) /\ Idle(p)
    /\ Closes(p)

(* A killed process: no checkpoint, temporary files stay unpublished.      *)
Crash(p) ==
    /\ Open(p) \/ ~Idle(p)
    /\ proc' = [proc EXCEPT ![p] = Away]
    /\ UNCHANGED <<file, live, wal, backup>>

-----------------------------------------------------------------------------
(* Backup and restore.                                                     *)

BackupCopies(p) ==
    /\ Open(p) /\ Idle(p)
    /\ Valid(Seen(p))
    /\ proc' = [proc EXCEPT ![p] = [@ EXCEPT !.task = "backup", !.copied = Seen(p)]]
    /\ UNCHANGED <<file, live, wal, backup>>

BackupReplaces(p) ==
    /\ proc[p].task = "backup"
    /\ backup' = proc[p].copied
    /\ proc' = [proc EXCEPT ![p] = [@ EXCEPT !.task = "none", !.copied = {}]]
    /\ UNCHANGED <<file, live, wal>>

(* A disk, or a person, damages the backup file.                           *)
BackupSpoilt ==
    /\ backup # {}
    /\ backup' = backup \cup {Damage}
    /\ UNCHANGED <<file, live, wal, proc>>

\* Mutant: the process's own connections are not looked at either.
RestoreAdmittedOpen(p) == Idle(p) /\ OperatorRestores(p)

(* _OPEN_DATABASE_PATHS holds the connections of this process only.        *)
RestoreAdmitted(p) == ~Open(p) /\ Idle(p) /\ OperatorRestores(p)

RestoreCopies(p) ==
    /\ RestoreAdmitted(p)
    /\ Valid(backup)
    /\ proc' = [proc EXCEPT ![p] = [@ EXCEPT !.task = "restore", !.copied = backup]]
    /\ UNCHANGED <<file, live, wal, backup>>

\* Mutant: the backup is copied into the file that is at the path.
RestoreInPlace(p) ==
    /\ proc[p].task = "restore"
    /\ live # 0
    /\ file' = [file EXCEPT ![live] = @ \cup proc[p].copied]
    /\ proc' = [proc EXCEPT ![p] = [@ EXCEPT !.task = "none", !.copied = {}]]
    /\ UNCHANGED <<live, wal, backup>>

(* os.replace: the path names another file; the log at the path stays.     *)
RestoreReplaces(p) ==
    /\ proc[p].task = "restore"
    /\ live <= MaxRestores
    /\ live' = live + 1
    /\ file' = [file EXCEPT ![live'] = proc[p].copied]
    /\ proc' = [proc EXCEPT ![p] = [@ EXCEPT !.task = "none", !.copied = {}]]
    /\ UNCHANGED <<wal, backup>>

-----------------------------------------------------------------------------
Next ==
    \/ BackupSpoilt
    \/ \E p \in Process :
          \/ Connect(p) \/ ConnectReadonly(p) \/ Migrate(p) \/ MigrationOvertaken(p)
          \/ Create(p) \/ Checkpoint(p) \/ Close(p) \/ Crash(p)
          \/ BackupCopies(p) \/ BackupReplaces(p) \/ RestoreCopies(p) \/ RestoreReplaces(p)

Spec == Init /\ [][Next]_vars

-----------------------------------------------------------------------------
(* The files, the log and the processes have their types.                  *)
TypeOK ==
    /\ file \in [File -> SUBSET Row]
    /\ live \in File \cup {0}
    /\ wal \in SUBSET Row
    /\ backup \in SUBSET Row
    /\ proc \in [Process -> ProcessRecord]

(* Nobody works on a file that a restore has replaced: a commit into it    *)
(* would be acknowledged and lost.  restore_from requires the database to  *)
(* be offline for that reason.                                             *)
HandlesAreLive == \A p \in Process : Open(p) => proc[p].handle = live

(* Task identifiers are T-000001, T-000002, ... without a gap, whatever    *)
(* processes, kills and restores: the allocation is exhausted only when    *)
(* every number is used, and no allocated number is refused as a           *)
(* duplicate.                                                              *)
NumbersAreDense == \A n \in Tasks(LiveRows) : \A m \in 1..n : m \in LiveRows

(* What restore_from promises: when it returns, the database at the path   *)
(* is the backup it has validated.                                         *)
RestoredIsBackup ==
    [][\A p \in Process : RestoreReplaces(p) => LiveRows' = proc[p].copied]_vars

(* File, log, processes, kills and checkpoints together behave as one      *)
(* store: a commit is seen by whoever opens the database next, a restore   *)
(* installs exactly a sound backup, nothing else changes the content.      *)
CopyOf(p) ==
    [from |-> CASE proc[p].task = "backup" -> "content"
                [] proc[p].task = "restore" -> "backup"
                [] OTHER -> "nothing",
     rows |-> proc[p].copied]

Store == INSTANCE StoreContract WITH
            content <- LiveRows,
            copy <- [p \in Process |-> CopyOf(p)]

ImplementsStore == Store!StoreSpec
=============================================================================
