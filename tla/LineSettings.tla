---------------------------- MODULE LineSettings ----------------------------
(***************************************************************************)
(* The settings of a line and the copy its handset works from.  Requests   *)
(* read the row, rewrite it whole and push what is in force to the         *)
(* handset; Do Not Disturb rewrites one field of every line; registration  *)
(* and the quiet-hours scheduler push as well.  Lines do not share         *)
(* settings, so the model follows one line and one handset on it.          *)
(***************************************************************************)
EXTENDS Naturals, Sequences

CONSTANTS
  MinutesPerDay, DaysPerWeek,  \* the clock, in minutes since the week began
  Forms,        \* quiet-hours windows a household may submit
  Requests,     \* requests the server handles at once
  QueueCap,     \* messages a connection's queue holds
  MaxChanges,   \* bound: requests
  MaxFaults     \* bound: failing statements, lost connections

ClockOK ==
  /\ MinutesPerDay \in Nat \ {0, 1} /\ DaysPerWeek \in Nat \ {0}
  /\ QueueCap \in Nat \ {0} /\ MaxChanges \in Nat /\ MaxFaults \in Nat

Days == 0 .. DaysPerWeek - 1
Week == 0 .. MinutesPerDay * DaysPerWeek - 1
ValidTimes == 0 .. MinutesPerDay - 1
Malformed == MinutesPerDay      \* any string that is not HH:MM
Unset == MinutesPerDay + 1      \* the empty string
Times == ValidTimes \cup {Malformed, Unset}
QuietHours == [enabled : BOOLEAN, start : Times, end : Times, days : SUBSET Days]

FormsOK == Forms \subseteq QuietHours

VARIABLES
  stored,    \* lines.settings: [silent, vm, quiet]
  clock,     \* household-local time
  sampled,   \* the scheduler has looked since the minute changed
  online,    \* the handset is registered
  queue,     \* line_settings messages on their way to it
  told,      \* the settings the handset keeps: [silent, vm]
  lastSent,  \* the scheduler's memory for the line: {} or {silent}
  sched,     \* the scheduler's evaluation in progress
  req,       \* where each request stands
  reg,       \* where the registration of the handset stands
  changes, faults,
  stale      \* history: "push" if the last push failed or carried what was not in force
             \* by then, "look" if a minute ended that the scheduler had not seen as it
             \* ended, and it has not pushed since

vars == <<stored, clock, sampled, online, queue, told, lastSent, sched, req, reg,
          changes, faults, stale>>

Idle == [pc |-> "idle"]
Settings == [silent : BOOLEAN, vm : BOOLEAN, quiet : QuietHours]
Wire == [silent : BOOLEAN, vm : BOOLEAN]

-----------------------------------------------------------------------------
(* Settings and quiet hours (settings.go, quiethours.go)                   *)

NoWindow(days) == [enabled |-> FALSE, start |-> Unset, end |-> Unset, days |-> days]

\* A window that cannot be used is disabled; one without days is meant for all.
Normalize(q) ==
  LET clean(t) == IF t \in ValidTimes THEN t ELSE Unset IN
  IF ~q.enabled
    THEN [q EXCEPT !.start = clean(q.start), !.end = clean(q.end)]
  ELSE IF q.start \notin ValidTimes \/ q.end \notin ValidTimes \/ q.start = q.end
    THEN NoWindow(q.days)
  ELSE IF q.days = {} THEN [q EXCEPT !.days = Days] ELSE q

\* A window that wraps belongs to the day it opens on.
MutMorningOfToday(q, t) ==
  LET now == t % MinutesPerDay
      today == t \div MinutesPerDay
  IN /\ q.enabled /\ q.days # {} /\ {q.start, q.end} \subseteq ValidTimes
     /\ IF q.start < q.end THEN today \in q.days /\ q.start <= now /\ now < q.end
        ELSE today \in q.days /\ q.start # q.end /\ (now >= q.start \/ now < q.end)

ActiveAt(q, t) ==
  LET now == t % MinutesPerDay
      today == t \div MinutesPerDay
      yesterday == (today + DaysPerWeek - 1) % DaysPerWeek
  IN /\ q.enabled /\ q.days # {}
     /\ {q.start, q.end} \subseteq ValidTimes /\ q.start # q.end
     /\ \/ q.start < q.end /\ today \in q.days /\ q.start <= now /\ now < q.end
        \/ q.start > q.end /\ now >= q.start /\ today \in q.days
        \/ q.start > q.end /\ now < q.end /\ yesterday \in q.days

\* EffectiveSettingsByNumber, LineSettingsFromLine: what the handset should hold.
Effective(s, t) == [silent |-> s.silent \/ ActiveAt(s.quiet, t), vm |-> s.vm]
InForce == Effective(stored, clock)

-----------------------------------------------------------------------------
Fault == faults < MaxFaults /\ faults' = faults + 1
Goto(r, s) == req' = [req EXCEPT ![r] = s]

\* History: what has gone wrong and not been made good.
Marked(what, bad) == IF bad THEN stale \cup {what} ELSE stale \ {what}

\* Hub.SendTo: nobody is there, the handset's queue takes it, or it is full.
SendTo(w) ==
  \/ ~online /\ UNCHANGED <<queue, stale, faults>>
  \/ /\ online /\ Len(queue) < QueueCap /\ queue' = Append(queue, w)
     /\ stale' = Marked("push", w # InForce) /\ UNCHANGED faults
  \/ online /\ Len(queue) = QueueCap /\ stale' = Marked("push", TRUE) /\ UNCHANGED <<queue, faults>>

Init ==
  /\ stored = [silent |-> FALSE, vm |-> TRUE, quiet |-> NoWindow({})]
  /\ clock = 0 /\ sampled = FALSE
  /\ online = FALSE /\ queue = <<>>
  /\ told = [silent |-> FALSE, vm |-> TRUE]
  /\ lastSent = {} /\ sched = Idle
  /\ req = [r \in Requests |-> Idle] /\ reg = Idle
  /\ changes = 0 /\ faults = 0 /\ stale = {}

-----------------------------------------------------------------------------
(* Changing a setting (updateLineSetting, applyLineSettings)               *)

\* What the handlers put into the settings they have read.
Mutations(s) ==
  {[s EXCEPT !.silent = b] : b \in BOOLEAN}            \* silent mode; voice style,
    \cup {[s EXCEPT !.vm = ~@]}                        \* auto update likewise
    \cup {[s EXCEPT !.quiet = Normalize(q)] : q \in Forms}

\* requireLineOwnership reads the row; a request that changes nothing ends here.
ReadSettings(r) ==
  /\ req[r] = Idle /\ changes < MaxChanges
  /\ \E next \in Mutations(stored) \ {stored} : Goto(r, [pc |-> "update", next |-> next])
  /\ changes' = changes + 1
  /\ UNCHANGED <<stored, clock, sampled, online, queue, told, lastSent, sched, reg, faults, stale>>

\* UpdateSettings writes the whole column.
UpdateSettings(r) ==
  /\ req[r].pc = "update"
  /\ \/ /\ stored' = req[r].next
        /\ Goto(r, [req[r] EXCEPT !.pc = "effective"]) /\ UNCHANGED faults
     \/ Fault /\ Goto(r, Idle) /\ UNCHANGED stored
  /\ UNCHANGED <<clock, sampled, online, queue, told, lastSent, sched, reg, changes, stale>>

\* The push is of the settings in force, or of the raw ones when they cannot be read.
ReadEffective(r) ==
  /\ req[r].pc = "effective"
  /\ LET push(w) == Goto(r, [pc |-> "push", wire |-> w]) IN
       \/ push(InForce) /\ UNCHANGED faults
       \/ Fault /\ push([silent |-> req[r].next.silent, vm |-> req[r].next.vm])
  /\ UNCHANGED <<stored, clock, sampled, online, queue, told, lastSent, sched, reg, changes, stale>>

PushLineSettings(r) ==
  /\ req[r].pc = "push"
  /\ SendTo(req[r].wire)
  /\ Goto(r, Idle)
  /\ UNCHANGED <<stored, clock, sampled, online, told, lastSent, sched, reg, changes>>

(* Do Not Disturb (handleSettingsDoNotDisturb)                             *)

\* jsonb_set touches the one field.
SetAllSilent(r, silent) ==
  /\ req[r] = Idle /\ changes < MaxChanges
  /\ stored' = [stored EXCEPT !.silent = silent]
  /\ Goto(r, [pc |-> "list", silent |-> silent])
  /\ changes' = changes + 1
  /\ UNCHANGED <<clock, sampled, online, queue, told, lastSent, sched, reg, faults, stale>>

\* The fan-out pushes the flag as submitted, not what is in force.
ListByHousehold(r) ==
  /\ req[r].pc = "list"
  /\ \/ Goto(r, [pc |-> "push", wire |-> [silent |-> req[r].silent, vm |-> stored.vm]])
        /\ UNCHANGED <<faults, stale>>
     \/ Fault /\ Goto(r, Idle) /\ stale' = Marked("push", TRUE)
  /\ UNCHANGED <<stored, clock, sampled, online, queue, told, lastSent, sched, reg, changes>>

-----------------------------------------------------------------------------
(* The handset registers and is told (Relay.OnRegistered)                  *)

Connect ==
  /\ ~online /\ online' = TRUE /\ queue' = <<>>
  /\ reg' = [pc |-> "read"]
  /\ UNCHANGED <<stored, clock, sampled, told, lastSent, sched, req, changes, faults, stale>>

OnRegisteredRead ==
  /\ reg.pc = "read"
  /\ \/ reg' = [pc |-> "push", wire |-> InForce] /\ UNCHANGED <<faults, stale>>
     \/ Fault /\ reg' = Idle /\ stale' = Marked("push", TRUE)
  /\ UNCHANGED <<stored, clock, sampled, online, queue, told, lastSent, sched, req, changes>>

OnRegisteredPush ==
  /\ reg.pc = "push"
  /\ SendTo(reg.wire)
  /\ reg' = Idle
  /\ UNCHANGED <<stored, clock, sampled, online, told, lastSent, sched, req, changes>>

Disconnect ==
  /\ online /\ reg = Idle /\ Fault
  /\ online' = FALSE /\ queue' = <<>> /\ stale' = Marked("push", TRUE)
  /\ UNCHANGED <<stored, clock, sampled, told, lastSent, sched, req, reg, changes>>

\* digitsd, TypeLineSettings: each field that differs is applied and saved.
HandleLineSettings ==
  /\ queue # <<>>
  /\ told' = Head(queue) /\ queue' = Tail(queue)
  /\ UNCHANGED <<stored, clock, sampled, online, lastSent, sched, req, reg, changes, faults, stale>>

-----------------------------------------------------------------------------
(* The scheduler (QuietHoursScheduler.evaluate)                            *)

\* The clock moves on once the scheduler, which looks every minute, has looked.
Tick ==
  /\ sampled /\ sched = Idle
  /\ clock' = (clock + 1) % (MinutesPerDay * DaysPerWeek)
  /\ sampled' = FALSE
  /\ stale' = IF online /\ lastSent \notin {{}, {InForce.silent}} THEN Marked("look", TRUE) ELSE stale
  /\ UNCHANGED <<stored, online, queue, told, lastSent, sched, req, reg, changes, faults>>

\* A line nobody is registered on is forgotten; one seen before in the same state is
\* left alone; otherwise it is pushed to, and counts as pushed to whether or not the
\* send succeeds.
MutNoFirstPush ==
  /\ sched = Idle
  /\ \/ ~online /\ lastSent' = {} /\ sampled' = TRUE /\ UNCHANGED <<sched, faults, stale>>
     \/ /\ online /\ lastSent' = {InForce.silent}
        /\ sched' = IF lastSent \in {{}, {InForce.silent}} THEN Idle ELSE [pc |-> "push", wire |-> InForce]
        /\ sampled' = (sched' = Idle) /\ UNCHANGED <<faults, stale>>
  /\ UNCHANGED <<stored, clock, online, queue, told, req, reg, changes>>

Evaluate ==
  /\ sched = Idle
  /\ \/ ~online /\ lastSent' = {} /\ sampled' = TRUE /\ UNCHANGED <<sched, faults, stale>>
     \/ /\ online /\ lastSent' = {InForce.silent}
        /\ sched' = IF lastSent = {InForce.silent} THEN Idle ELSE [pc |-> "push", wire |-> InForce]
        /\ sampled' = (sched' = Idle) /\ UNCHANGED <<faults, stale>>
     \/ /\ online /\ Fault /\ sampled' = TRUE /\ stale' = Marked("look", TRUE)
        /\ UNCHANGED <<lastSent, sched>>
  /\ UNCHANGED <<stored, clock, online, queue, told, req, reg, changes>>

EvaluatePush ==
  /\ sched.pc = "push"
  /\ \/ ~online /\ UNCHANGED <<queue, stale, faults>>
     \/ /\ online /\ Len(queue) < QueueCap /\ queue' = Append(queue, sched.wire)
        /\ stale' = IF sched.wire = InForce THEN {} ELSE {"push"}
        /\ UNCHANGED faults
     \/ /\ online /\ Len(queue) = QueueCap /\ stale' = Marked("push", TRUE)
        /\ UNCHANGED <<queue, faults>>
  /\ sched' = Idle /\ sampled' = TRUE
  /\ UNCHANGED <<stored, clock, online, told, lastSent, req, reg, changes>>

-----------------------------------------------------------------------------
Next ==
  \/ \E r \in Requests :
       \/ ReadSettings(r) \/ UpdateSettings(r) \/ ReadEffective(r) \/ PushLineSettings(r)
       \/ ListByHousehold(r) \/ \E b \in BOOLEAN : SetAllSilent(r, b)
  \/ Connect \/ OnRegisteredRead \/ OnRegisteredPush \/ Disconnect \/ HandleLineSettings
  \/ Tick \/ Evaluate \/ EvaluatePush

Spec == Init /\ [][Next]_vars

-----------------------------------------------------------------------------
TypeOK ==
  /\ stored \in Settings /\ clock \in Week /\ sampled \in BOOLEAN /\ online \in BOOLEAN
  /\ queue \in Seq(Wire) /\ told \in Wire /\ lastSent \in SUBSET BOOLEAN
  /\ changes \in 0..MaxChanges /\ faults \in 0..MaxFaults /\ stale \subseteq {"push", "look"}

\* A window silences the line exactly in the minutes that follow an opening on a
\* selected day by less than the window's length, whether or not it wraps past
\* midnight or the end of the week (QuietHours.ActiveAt); disabled, malformed and
\* empty windows never do.
Length(q) == (q.end + MinutesPerDay - q.start) % MinutesPerDay
WindowsSilenceTheirMinutes ==
  \A q \in Forms :
    ActiveAt(q, clock) <=>
      /\ q.enabled /\ {q.start, q.end} \subseteq ValidTimes
      /\ \E ago \in ValidTimes :
           LET opened == (clock + MinutesPerDay * DaysPerWeek - ago) % (MinutesPerDay * DaysPerWeek)
           IN /\ opened % MinutesPerDay = q.start
              /\ opened \div MinutesPerDay \in q.days
              /\ ago < Length(q)

Quiescent ==
  /\ \A r \in Requests : req[r] = Idle
  /\ reg = Idle /\ sched = Idle /\ sampled /\ queue = <<>>

\* A handset that stays online holds the silent state in force as soon as nothing
\* is under way and the scheduler has looked, across window boundaries, changes
\* and reconnections (QuietHoursScheduler, applyLineSettings, OnRegistered).  The
\* exceptions are a last push that was overtaken, dropped or raw, and a change made
\* after the scheduler's look in the minute before a boundary; each lasts until the
\* next push.
SilentStateConverges == (online /\ Quiescent /\ stale = {}) => told = InForce

=============================================================================
