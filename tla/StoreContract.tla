--------------------------- MODULE StoreContract ---------------------------
(***************************************************************************)
(* What the control database promises, whatever files, logs and processes  *)
(* lie below: one content that is initialised once and grows by one task   *)
(* at a time, numbered 1, 2, 3 ...; a backup is the content of one moment, *)
(* and a restore makes a sound backup the content and does nothing else.   *)
(***************************************************************************)
EXTENDS Integers

CONSTANTS Process, MaxNumber, Schema, Damage

VARIABLES
    content,   \* the rows that the next process to open the database sees
    backup,    \* the rows of the backup file
    copy       \* what each process is copying: from where, and the rows

storeVars == <<content, backup, copy>>

Number == 1..MaxNumber

(* The rows of a database: its schema and history, one per task, and       *)
(* Damage for whatever the validation finds wrong.                         *)
Row == Number \cup {Schema, Damage}

Copy == [from : {"nothing", "content", "backup"}, rows : SUBSET Row]
NoCopy == [from |-> "nothing", rows |-> {}]

IsFirstFree(n, rows) == \A m \in Number : m \in rows <=> m < n

StoreInit ==
    /\ content = {}
    /\ backup = {}
    /\ copy = [p \in Process |-> NoCopy]

Initialise ==
    /\ content = {}
    /\ content' = {Schema}
    /\ UNCHANGED <<backup, copy>>

AddTask ==
    /\ Schema \in content
    /\ \E n \in Number : IsFirstFree(n, content) /\ content' = content \cup {n}
    /\ UNCHANGED <<backup, copy>>

CopyContent(p) ==
    /\ copy' = [copy EXCEPT ![p] = [from |-> "content", rows |-> content]]
    /\ UNCHANGED <<content, backup>>

PublishBackup(p) ==
    /\ copy[p].from = "content"
    /\ backup' = copy[p].rows
    /\ copy' = [copy EXCEPT ![p] = NoCopy]
    /\ UNCHANGED content

CopyBackup(p) ==
    /\ Schema \in backup /\ Damage \notin backup
    /\ copy' = [copy EXCEPT ![p] = [from |-> "backup", rows |-> backup]]
    /\ UNCHANGED <<content, backup>>

InstallBackup(p) ==
    /\ copy[p].from = "backup"
    /\ content' = copy[p].rows
    /\ copy' = [copy EXCEPT ![p] = NoCopy]
    /\ UNCHANGED backup

Forget(p) ==
    /\ copy' = [copy EXCEPT ![p] = NoCopy]
    /\ UNCHANGED <<content, backup>>

SpoilBackup ==
    /\ backup' = backup \cup {Damage}
    /\ UNCHANGED <<content, copy>>

StoreNext ==
    \/ Initialise \/ AddTask \/ SpoilBackup
    \/ \E p \in Process : \/ CopyContent(p) \/ PublishBackup(p) \/ CopyBackup(p)
                          \/ InstallBackup(p) \/ Forget(p)

StoreSpec == StoreInit /\ [][StoreNext]_storeVars
=============================================================================
