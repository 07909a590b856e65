----------------------------- MODULE HubSettings -----------------------------
(***************************************************************************)
(* LineSettings at the hub: the settings of a line, and the channel the    *)
(* hub sends them to its handset through.                                  *)
(***************************************************************************)
EXTENDS Naturals

CONSTANTS
  MinutesPerDay, DaysPerWeek, Forms, Requests, QueueCap,
  MaxChanges, MaxLosses  \* bounds

VARIABLES
  stored, clock,               \* the row and the household's clock
  online, pushes, told,        \* the handset
  sampled, lastSent, sched,    \* the scheduler
  req, reg,                    \* requests and registration
  changes, losses, stale       \* counters and history

L == INSTANCE LineSettings WITH queue <- pushes, faults <- losses, MaxFaults <- MaxLosses

ASSUME SettingsAssumption == L!ClockOK /\ L!FormsOK

(* A window silences the line exactly in the minutes that follow an        *)
(* opening on a selected day by less than the window's length, whether or  *)
(* not it wraps past midnight or the end of the week; disabled, malformed  *)
(* and empty windows never do (QuietHours.ActiveAt).                       *)
WindowsSilenceTheirMinutes == L!WindowsSilenceTheirMinutes

(* A handset that stays online holds the silent state in force as soon as  *)
(* nothing is under way and the scheduler has looked, the named exceptions *)
(* aside (QuietHoursScheduler, applyLineSettings, OnRegistered).           *)
SilentStateConverges == L!SilentStateConverges
=============================================================================
