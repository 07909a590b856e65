--------------------------- MODULE MCCallTracker ---------------------------
(* The instance of CallTracker for TLC.  A behaviour is of one of two      *)
(* modes: serial, where one operation runs at a time and the database may  *)
(* fail once or the server restart once, or concurrent, where two          *)
(* goroutines interleave and phone 1 dials, phone 2 first, leaving the     *)
(* last row of the table to a continuation call.  An answer that finds no  *)
(* ringing row changes nothing and is left out there.                      *)
EXTENDS CallTracker, TLC

VARIABLE mode

MCVars == <<vars, mode>>

MCInit == Init /\ mode \in {"serial", "concurrent"}

Running == {t \in Threads : thread'[t].pc # "idle"}
Arriving(pc) == {t \in Threads : Idles(t) /\ thread'[t].pc = pc}
PhoneOneDials ==
  \A t \in Arriving("busyTo") :
    thread'[t].num = 1 /\ nextId < MaxCalls /\ (nextId = 1 => thread'[t].peer = 2)
AnswersMatter ==
  \A t \in Arriving("answer") : RingingRows(thread'[t].num, thread'[t].peer) # {}

MCNext ==
  /\ Next
  /\ mode' = mode
  /\ \/ mode = "serial" /\ Cardinality(Running) <= 1 /\ failures' + restarts' <= 1
     \/ mode = "concurrent" /\ failures' = 0 /\ restarts' = 0
                             /\ PhoneOneDials /\ AnswersMatter

MCSpec == MCInit /\ [][MCNext]_MCVars

ThreadSymmetry == Permutations(Threads)

(* What memory tracks is open in the tables, and what is open is tracked   *)
(* unless a statement failed or the server restarted, when operations do   *)
(* not overlap (OnCallInitiated, OnCallEnded, ClearByNumber, and the two   *)
(* transactions of a conference).  And a phone is party to one call, to    *)
(* two as the host that adds a third, or to one conference.                *)
SerialTablesAgree == mode = "serial" => TablesAgree /\ PartyLimit
=============================================================================
