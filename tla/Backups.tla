-------------------------------- MODULE Backups --------------------------------
(***************************************************************************)
(* Backups of the SQLite database, their signatures and restores           *)
(* (services/backup_service.py and its pages).  The files are ordered by   *)
(* the time they were written; a name holds the second only, so that a     *)
(* later backup of the same second replaces the file.  The window of a     *)
(* restore and of a key rotation, in which other requests run, is kept.    *)
(***************************************************************************)
EXTENDS Integers, FiniteSets, FiniteSetsExt

CONSTANTS Retention, \* BACKUP_RETENTION
          MaxData, MaxKey, MaxSaves

None == 0
VARIABLES data,      \* version of the rows of picks.db
          edits,     \* the last version made
          key,       \* backup_hmac_key.txt, None when missing
          legacy,    \* backup_hmac_keys.txt
          files,     \* backups on disk: [name, at, data, key]
          second, saves, \* the clock, and how many files were written
          upload,    \* an uploaded zip that awaits its confirmation
          restore,   \* a restore between its backup and the replacement
          rotating,  \* a rotation between its two writes: the key that was current
          lostKey    \* a key was lost by a crash or by an import over it
vars == <<data, edits, key, legacy, files, second, saves, upload, restore, rotating, lostKey>>

NoZip == [data |-> None, key |-> None]
Idle == [zip |-> NoZip, before |-> None]
Init == /\ data = 1 /\ edits = 1 /\ key = None /\ legacy = {} /\ files = {} /\ second = 1 /\ saves = 0
        /\ upload = NoZip /\ restore = Idle /\ rotating = None /\ lostKey = FALSE

LastKey == Max({key, rotating} \cup legacy)
\* _get_all_hmac_keys, which makes the first key, and the key that signs.
Keys == (legacy \cup {key}) \ {None}
Signing == IF key # None THEN key ELSE IF legacy # {} THEN Min(legacy) ELSE 1
Ready == IF Keys = {} THEN 1 ELSE key

\* save_backup_zip_to_disk: the newest Retention files stay.
Newest(all) == {f \in all : Cardinality({g \in all : g.at > f.at}) < Retention}
Saved(prefix) ==
    LET name == <<prefix, second>>
    IN Newest({f \in files : f.name # name} \cup {[name |-> name, at |-> saves + 1, data |-> data, key |-> Signing]})

\* validate_backup_zip_bytes, the signature.
Valid(zip) == zip.key \in Keys
Zips == {[data |-> f.data, key |-> f.key] : f \in files}

-------------------------------------------------------------------------------
\* GET /backup.zip
Backup ==
    /\ saves < MaxSaves /\ restore = Idle
    /\ files' = Saved("manual") /\ saves' = saves + 1 /\ key' = Ready
    /\ UNCHANGED <<data, edits, legacy, second, upload, restore, rotating, lostKey>>

Edit == edits < MaxData /\ edits' = edits + 1 /\ data' = edits' /\ UNCHANGED <<key, legacy, files, second, saves, upload, restore, rotating, lostKey>>
\* Seconds without a backup are left out.
Tick == (\E f \in files : f.name[2] = second) /\ second' = second + 1 /\ UNCHANGED <<data, edits, key, legacy, files, saves, upload, restore, rotating, lostKey>>

BeginRestore(zip) ==
    /\ restore = Idle /\ saves < MaxSaves
    /\ Valid(zip)
    /\ files' = Saved("auto_before_restore") /\ saves' = saves + 1 /\ key' = Ready
    /\ restore' = [zip |-> zip, before |-> data]
    /\ UNCHANGED <<data, edits, legacy, second, rotating, lostKey>>

\* POST /backups/restore, POST /restore and POST /restore/confirm.
FromHistory == (\E zip \in Zips : BeginRestore(zip)) /\ UNCHANGED upload
Upload == /\ upload = NoZip /\ \E zip \in Zips : Valid(zip) /\ upload' = zip
          /\ UNCHANGED <<data, edits, key, legacy, files, second, saves, restore, rotating, lostKey>>
Confirm == upload # NoZip /\ BeginRestore(upload) /\ upload' = NoZip

\* os.replace: the database is the one of the zip at once.
Replace ==
    /\ restore # Idle
    /\ data' = restore.zip.data /\ restore' = Idle
    /\ UNCHANGED <<edits, key, legacy, files, second, saves, upload, rotating, lostKey>>

\* rotate_hmac_key: the new key, then the old one to the list.
Rotate ==
    /\ rotating = None /\ LastKey < MaxKey
    /\ rotating' = key /\ key' = LastKey + 1
    /\ UNCHANGED <<data, edits, legacy, files, second, saves, upload, restore, lostKey>>
SlipListed == {rotating}
Listed == legacy \cup {rotating}
Keep ==
    /\ rotating # None
    /\ legacy' = Listed /\ rotating' = None
    /\ UNCHANGED <<data, edits, key, files, second, saves, upload, restore, lostKey>>

\* POST /backup-key/import-current and import-legacy replace the files; once.
Import ==
    /\ ~lostKey
    /\ \/ key' \in legacy /\ legacy' = legacy
       \/ legacy' \in {{k} : k \in Keys} /\ key' = key
    /\ lostKey' = TRUE
    /\ UNCHANGED <<data, edits, files, second, saves, upload, restore, rotating>>

\* The process dies: a restore stops before its replacement, a rotation before
\* the old key is listed.
Crash ==
    /\ restore # Idle \/ rotating # None
    /\ restore' = Idle /\ rotating' = None /\ lostKey' = (lostKey \/ rotating # None)
    /\ UNCHANGED <<data, edits, key, legacy, files, second, saves, upload>>

Next == \/ Backup \/ Edit \/ Tick \/ FromHistory \/ Upload \/ Confirm \/ Replace \/ Rotate \/ Keep \/ Import \/ Crash
Spec == Init /\ [][Next]_vars

-------------------------------------------------------------------------------
(* The page promises to keep old keys for old backups: whatever the rotations  *)
(* and restores, every backup on disk passes its signature check, but for the  *)
(* moment of a rotation and after a key was lost by a crash or an import.      *)
BackupsVerify == ~lostKey => \A f \in files : Valid(f) \/ f.key = rotating

(* A restore can be undone: what the database held when it began is on disk    *)
(* when it is replaced, although the retention dropped older files.            *)
RestoreUndoable == restore # Idle => \E f \in files : f.data = restore.before
===============================================================================
