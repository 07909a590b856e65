---------------------------- MODULE MessageStore ----------------------------
(***************************************************************************)
(* The on-disk archive of the answering machine                            *)
(* (internal/voicemail/store.go): per message a file of frames and, beside *)
(* it, a file of metadata that holds the heard flag; the custom greeting.  *)
(*                                                                         *)
(* A message is its frames file.  The metadata is written after the frames *)
(* file has its name, so it may be missing: such a message is unheard.     *)
(* A message's number is the time its recording began; the clock of the    *)
(* model does not go backwards.                                            *)
(***************************************************************************)
EXTENDS Integers, FiniteSets, FiniteSetsExt

CONSTANTS
  MaxRecordings,   \* bound: recordings begun
  MaxMessages      \* Options.MaxMessages, 0 for no limit

ASSUME StoreAssumption == MaxRecordings \in Nat /\ MaxMessages \in Nat

Ids == 1 .. MaxRecordings

Disk == [frames : SUBSET Ids, meta : [Ids -> {"none", "unheard", "heard"}], greeting : BOOLEAN]

EmptyDisk == [frames |-> {}, meta |-> [id \in Ids |-> "none"], greeting |-> FALSE]

(* The message is listed with its heard flag, missing metadata reading as  *)
(* unheard.                                                                *)
Heard(k, id) == k.meta[id] = "heard"

Unheard(k) == {id \in k.frames : ~ Heard(k, id)}

(* Whether or not there still are frames.                                  *)
MarkHeard(k, id) == [k EXCEPT !.meta[id] = "heard"]

removeMessageLocked(k, S) ==
  [k EXCEPT !.frames = @ \ S, !.meta = [id \in Ids |-> IF id \in S THEN "none" ELSE k.meta[id]]]

(* Mutant: the newest go.                                                  *)
MutEvictNewest(k) ==
  LET excess == Cardinality(k.frames) - MaxMessages
  IN  IF MaxMessages = 0 THEN k
      ELSE removeMessageLocked(k, {id \in k.frames : Cardinality({j \in k.frames : j > id}) < excess})

(* The oldest go.                                                          *)
evictLocked(k) ==
  LET excess == Cardinality(k.frames) - MaxMessages
  IN  IF MaxMessages = 0 THEN k
      ELSE removeMessageLocked(k, {id \in k.frames : Cardinality({j \in k.frames : j < id}) < excess})

(* Finalize: a recording without frames is discarded.  Otherwise the       *)
(* temporary file is synced and renamed and the metadata written, and then *)
(* the limit is applied.  The sync may fail, and the file is removed; the  *)
(* metadata may fail, or the power may, and then the message is there      *)
(* without it and nothing was evicted; or only the eviction.               *)
Finalize(k, id, frames, outcome) ==
  LET renamed == [k EXCEPT !.frames = @ \cup {id}]
  IN  CASE frames = 0 \/ outcome = "lost" -> k
        [] frames # 0 /\ outcome = "bare" -> renamed
        [] frames # 0 /\ outcome = "kept" -> [renamed EXCEPT !.meta[id] = "unheard"]
        [] frames # 0 /\ outcome = "ok"   -> evictLocked([renamed EXCEPT !.meta[id] = "unheard"])

(* Finalize hands back a message; a failing eviction is only logged.       *)
Stored(frames, outcome) == frames # 0 /\ outcome \in {"ok", "kept"}
=============================================================================
