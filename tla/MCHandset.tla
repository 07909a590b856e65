----------------------------- MODULE MCHandset -----------------------------
(* Small instances of one phone with its Pico, of call return between a    *)
(* phone and the server, and of a phone's answering machine: a behaviour   *)
(* is one of the three.  For call return the others may be in a call, made *)
(* to the one that called the requester last.                              *)
EXTENDS PhoneCalls, Voicemail, TLC

VARIABLE side

handsetVars == <<pico, toPico, toPi, digitsd, leg, toPhone, toServer, hooks, ins>>
returnVars == <<calls, conf, online, last, pending, handler, phone, down, up, spare,
                excused>>
MCVars == <<handsetVars, returnVars, vars, side>>

\* The sides that stay as they are do so in one of their initial states.
MCInit ==
  /\ side \in {"call", "return", "mailbox"}
  /\ H!Init /\ R!ReturnInit /\ Init
  /\ side # "return" => calls = {} /\ last = NoNumber
  /\ \A c \in calls : c[2] = last
  /\ side # "mailbox" => d.disk = EmptyDisk

MCNext ==
  \/ side = "call" /\ H!Next /\ UNCHANGED <<returnVars, vars, side>>
  \/ side = "return" /\ R!ReturnNext /\ UNCHANGED <<handsetVars, vars, side>>
  \/ side = "mailbox" /\ Next /\ UNCHANGED <<handsetVars, returnVars, side>>

MCSpec == MCInit /\ [][MCNext]_MCVars

Symmetry == Permutations(Others)
=============================================================================
