------------------------------ MODULE ConfigFile ------------------------------
(***************************************************************************)
(* The daemon's config.json and its .bak copy: what Load makes of the two  *)
(* files, and what each atomic write of a Save leaves behind.              *)
(*                                                                         *)
(* A disk is a record with the fields file and bak.  What a file says is   *)
(* reduced to the token being there and to when it was saved: by the last  *)
(* Save that wrote the file, by the one before it, or earlier.             *)
(***************************************************************************)

\* A file is missing, parses, is damaged and shows it by null bytes, or is
\* damaged and does not.
Shapes == {"missing", "good", "nulls", "garbled"}
Ages == {"last", "before", "older"}

File(shape, paired, age) == [shape |-> shape, paired |-> paired, age |-> age]
Missing == File("missing", FALSE, "older")
Damaged(shape) == File(shape, FALSE, "older")

\* Default: the built-in values, without a token.
Default == Missing

IsCorrupt(f) == f.shape = "nulls"

\* loadBackup: the backup, if it parses, replaces the file, or fails to.
LoadBackup(disk) ==
  IF disk.bak.shape = "good"
    THEN {[config |-> disk.bak, file |-> disk.bak, failed |-> 0],
          [config |-> disk.bak, file |-> disk.file, failed |-> 1]}
    ELSE {[config |-> Default, file |-> disk.file, failed |-> 0]}

\* Load: what the daemon starts with, what is then in the file, and how many
\* writes failed.  The backup
\* is for a file that is damaged, not for one that is missing.
Load(disk) ==
  CASE disk.file.shape = "missing" ->
         {[config |-> Default, file |-> disk.file, failed |-> 0]}
    [] disk.file.shape = "good" ->
         {[config |-> disk.file, file |-> disk.file, failed |-> 0]}
    [] OTHER -> LoadBackup(disk)

\* Mutant: the file is copied only while there is no backup yet.
MutCopiedOnce(disk) ==
  IF disk.file.shape = "missing" \/ disk.bak.shape # "missing" THEN disk.bak ELSE disk.file

\* Save, first half: the file is kept as the backup, unless it is damaged.
Copied(disk) ==
  IF disk.file.shape = "missing" \/ IsCorrupt(disk.file) THEN disk.bak ELSE disk.file

Older(f) == [f EXCEPT !.age = IF @ = "last" THEN "before" ELSE "older"]

\* Save, second half: what was marshalled replaces the file.
Written(disk, paired) ==
  [disk EXCEPT !.file = File("good", paired, "last"), !.bak = Older(@)]

\* Both files are whole and the backup is the Save before the last.
Healed(disk) ==
  /\ disk.file.shape = "good" /\ disk.file.age = "last"
  /\ disk.bak.shape = "good" /\ disk.bak.age = "before"
=============================================================================
