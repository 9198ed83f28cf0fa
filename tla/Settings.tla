------------------------------ MODULE Settings ------------------------------
(***************************************************************************)
(* Settings: the rows of the settings table, the write-ahead log beside    *)
(* the database file, and the admin commands that work on them from        *)
(* another process: the import of the legacy files, a backup, and a        *)
(* restore, which replaces the file under whoever has it open.             *)
(***************************************************************************)
EXTENDS Sequences, SequencesExt, Absent

CONSTANTS
  Order,     \* the keys import_all goes through, in its order
  FileKey,   \* those that load_* reads from the legacy file while they have no row
  Edit,      \* bound: what the web saves
  Legacy,    \* the legacy files: what each is parsed to, or None
  Default    \* what a key is without row and file

Key == ToSet(Order)

ASSUME SettingsAssumption ==
  /\ Order \in Seq(Key) /\ FileKey \subseteq Key
  /\ None \notin Edit /\ DOMAIN Legacy = Key /\ DOMAIN Default = Key /\ None \notin Range(Default)

Stored == Edit \cup Range(Legacy) \cup Range(Default) \cup {None}
Rows   == [Key -> Stored]
Empty  == [k \in Key |-> None]

VARIABLES
  main,      \* the database file
  wal,       \* what the log beside it has since
  daemon,    \* down, up, or stale: what it has open may have been replaced or removed
  importing, \* the keys import has left, and whether it saw no row for the first
  restoring, \* what restore has done so far, and whether the daemon was down for it
  staged,    \* the copy that is to replace the file
  backup,    \* the last backup, or None
  expected,  \* history: the rows as the commands and edits that ended left them
  excused    \* history: keys whose row need not be what is expected

log           == <<main, wal>>
admin         == <<importing, restoring, staged, backup>>
settings_vars == <<log, daemon, admin, expected, excused>>

visible == [k \in Key |-> IF wal[k] # None THEN wal[k] ELSE main[k]]

(* load_units, load_oled_config, load_rtc_schedule: what a start uses. *)
load(k) ==
  IF visible[k] # None THEN visible[k]
  ELSE IF k \in FileKey /\ Legacy[k] # None THEN Legacy[k] ELSE Default[k]

no_import  == [left |-> <<>>, absent |-> FALSE]
no_restore == [at |-> "idle", quiet |-> TRUE]
idle == importing = no_import /\ restoring = no_restore

SettingsInit ==
  /\ main = Empty /\ wal = Empty
  /\ daemon = "up"
  /\ importing = no_import /\ restoring = no_restore
  /\ staged = Empty /\ backup = None
  /\ expected = Empty /\ excused = {}

-----------------------------------------------------------------------------
(* A PUT of the web server, one statement.  With a file replaced under it, *)
(* whether it is one of the old connections of the pool is chance.  One    *)
(* that falls between import's look and its write will be overwritten.     *)
Looked(k) == importing.absent /\ k = Head(importing.left)

save(k, v) ==
  /\ daemon # "down"
  /\ \/ wal' = [wal EXCEPT ![k] = v]
     \/ daemon = "stale" /\ UNCHANGED wal
  /\ expected' = [expected EXCEPT ![k] = v]
  /\ excused' = IF daemon = "stale" \/ Looked(k) THEN excused \cup {k} ELSE excused \ {k}
  /\ UNCHANGED <<main, daemon, admin>>

(* The frames of the log move to the file whenever a connection of the     *)
(* daemon or of a command likes, and when the last one closes.             *)
Checkpoint ==
  /\ daemon # "down" \/ restoring = no_restore
  /\ main' = visible /\ wal' = Empty
  /\ UNCHANGED <<daemon, admin, expected, excused>>

Stop ==
  /\ daemon # "down" /\ daemon' = "down"
  /\ UNCHANGED <<log, admin, expected, excused>>

StartUp ==
  /\ daemon = "down"
  /\ daemon' = IF restoring.at = "renamed" THEN "stale" ELSE "up"
  /\ restoring' = [restoring EXCEPT !.quiet = restoring = no_restore]
  /\ UNCHANGED <<log, importing, staged, backup, expected, excused>>

-----------------------------------------------------------------------------
(* admin import-legacy-config: by key, a look for a row and then a write.  *)
import_legacy_config ==
  /\ idle
  /\ importing' = [left |-> Order, absent |-> FALSE]
  /\ UNCHANGED <<log, daemon, restoring, staged, backup, expected, excused>>

mut_importable(k) == Legacy[k] # None
importable(k) == Legacy[k] # None /\ visible[k] = None

setting_exists ==
  /\ importing.left # <<>> /\ ~importing.absent
  /\ importing' = IF importable(Head(importing.left)) THEN [importing EXCEPT !.absent = TRUE]
                                                      ELSE [importing EXCEPT !.left = Tail(@)]
  /\ UNCHANGED <<log, daemon, restoring, staged, backup, expected, excused>>

mut_imported(k) == Default[k]
imported(k) == Legacy[k]

(* A write that fails is reported, and the next key follows. *)
set_setting_raw ==
  LET k == Head(importing.left)
  IN  /\ importing.absent
      /\ importing' = [left |-> Tail(importing.left), absent |-> FALSE]
      /\ \/ /\ wal' = [wal EXCEPT ![k] = imported(k)]
            /\ expected' = IF expected[k] = None THEN [expected EXCEPT ![k] = Legacy[k]] ELSE expected
         \/ UNCHANGED <<wal, expected>>
      /\ UNCHANGED <<main, daemon, restoring, staged, backup, excused>>

-----------------------------------------------------------------------------
(* admin backup: VACUUM INTO sees one state of the database. *)
make_backup ==
  /\ idle
  /\ backup' = visible
  /\ UNCHANGED <<log, daemon, importing, restoring, staged, expected, excused>>

(* admin restore: a copy beside the file, ... *)
restore ==
  /\ idle /\ backup # None
  /\ staged' = backup
  /\ restoring' = [at |-> "staged", quiet |-> daemon = "down"]
  /\ UNCHANGED <<log, daemon, importing, backup, expected, excused>>

(* ... the rename onto it; who has the old file open keeps it, ...         *)
Rename ==
  /\ restoring.at = "staged"
  /\ main' = staged /\ staged' = Empty
  /\ restoring' = [restoring EXCEPT !.at = "renamed"]
  /\ daemon' = IF daemon = "up" THEN "stale" ELSE daemon
  /\ expected' = staged /\ excused' = Key
  /\ UNCHANGED <<wal, importing, backup>>

(* ... and the removal of the log that belonged to the old one.            *)
mut_DropLog == UNCHANGED wal
DropLog == wal' = Empty

RemoveSidecars ==
  /\ restoring.at = "renamed"
  /\ DropLog
  /\ excused' = IF restoring.quiet THEN {} ELSE Key
  /\ restoring' = no_restore
  /\ UNCHANGED <<main, daemon, importing, staged, backup, expected>>

(* Either command is killed half-way. *)
Killed ==
  /\ ~idle
  /\ importing' = no_import /\ restoring' = no_restore
  /\ UNCHANGED <<log, daemon, staged, backup, expected, excused>>

SettingsNext ==
  \/ \E k \in Key, v \in Edit : save(k, v)
  \/ Checkpoint \/ Stop \/ StartUp
  \/ import_legacy_config \/ setting_exists \/ set_setting_raw
  \/ make_backup \/ restore \/ Rename \/ RemoveSidecars
  \/ Killed

SettingsSpec == SettingsInit /\ [][SettingsNext]_settings_vars

-----------------------------------------------------------------------------
(* Every variable has its type, and import looks at a row only once.       *)
SettingsTypeOK ==
  /\ {main, wal, staged, expected} \subseteq Rows
  /\ backup \in Rows \cup {None}
  /\ daemon \in {"down", "up", "stale"}
  /\ importing \in [left : Suffixes(Order), absent : BOOLEAN]
  /\ importing.absent => importing.left # <<>>
  /\ restoring \in [at : {"idle", "staged", "renamed"}, quiet : BOOLEAN]
  /\ excused \subseteq Key

(* A row is what the last edit, import or restore that ended made it: an   *)
(* import puts no stale file over an edit, and no frame of the old         *)
(* database shows through a restored one.  Excused are an edit between     *)
(* import's look and its write, and everything since a restore that was    *)
(* killed before it removed the log or that ran beside the daemon.         *)
LastWriteCounts == \A k \in Key \ excused : visible[k] = expected[k]

(* To import a file that the daemon went by anyway changes nothing: a      *)
(* start before the import and one after it use the same.                  *)
ImportKeepsLoad ==
  [][ \A k \in FileKey : set_setting_raw /\ k \notin excused => load(k)' = load(k) ]_settings_vars
=============================================================================
