------------------------------- MODULE Deploy -------------------------------
(***************************************************************************)
(* Automatic deployment of the server (internal/autodeploy, its command    *)
(* and its systemd timer): each run asks GitHub for the newest release,    *)
(* pulls its images, replaces the containers, waits until they report the  *)
(* version, and reverts to the last deployed one if they do not.  What was *)
(* deployed and tried is a file that outlives the runs.                    *)
(*                                                                         *)
(* A tag is a number, newer ones larger.  The response's ETag is the       *)
(* edition of the list of releases.  The timer's unit never overlaps       *)
(* itself.  An operator's --retry is a process of its own, and nothing     *)
(* stops it from replacing the state of a run that is under way: that is   *)
(* left out, one run is made at a time.                                    *)
(***************************************************************************)
EXTENDS Naturals, FiniteSets

CONSTANTS
  Services,      \* the containers of the compose project
  MaxTag,        \* how many releases there are
  DeployFaults,  \* how many commands, requests and writes fail, and processes die
  DeployActs     \* how often a release is withdrawn, or the operator retries

VARIABLES
  releases,      \* the tags on the list, neither drafts nor withdrawn
  edition,       \* the list's ETag
  ready,         \* tags whose images have been pushed
  sound,         \* tags whose containers become healthy
  running,       \* the version each container runs
  file,          \* state.json
  run,           \* the process, its copy of the state
  budget         \* what is left of the bounds

deployVars == <<releases, edition, ready, sound, running, file, run, budget>>

None == 0
Steps == {"login", "pull", "up", "healthcheck"}

Empty == [deployed |-> None, tag |-> None, status |-> "none", etag |-> 0, alert |-> "none"]
Rest == [pc |-> "idle", st |-> Empty, rel |-> None, etag |-> 0, reverting |-> FALSE,
         cancelled |-> FALSE, class |-> "none"]

(* The installer seeds the file with the tag that runs.                    *)
DeployInit ==
  /\ releases = {1} /\ edition = 1 /\ ready = {1}
  /\ sound \in {{1} \cup s : s \in SUBSET (2..MaxTag)}
  /\ running = [s \in Services |-> 1]
  /\ file = [Empty EXCEPT !.deployed = 1]
  /\ run = Rest
  /\ budget = [faults |-> DeployFaults, acts |-> DeployActs]

Newest == IF releases = {} THEN None ELSE CHOOSE t \in releases : \A u \in releases : u <= t
IsFailed(status) == status \in {"failed", "failed_reverted", "critical"}
NeedsRevert(step) == step \in {"up", "healthcheck"}

Spend(what) == budget[what] > 0 /\ budget' = [budget EXCEPT ![what] = @ - 1]
Fine == UNCHANGED budget
Fault == Spend("faults")

Goto(pc) == run' = [run EXCEPT !.pc = pc]
Ends == run' = Rest

(* FileStore.Write: the whole state is replaced, or nothing is.            *)
Written(st) == file' = st /\ Fine
NotWritten == UNCHANGED file /\ Fault

-----------------------------------------------------------------------------
(* The release list.                                                       *)

Publish(t) ==
  /\ t = Cardinality(ready \cup releases) + 1 /\ t <= MaxTag
  /\ releases' = releases \cup {t} /\ edition' = edition + 1
  /\ UNCHANGED <<ready, sound, running, file, run, budget>>

\* CI pushes the images after the release is visible.
PushImages(t) ==
  /\ t \in releases \ ready
  /\ ready' = ready \cup {t}
  /\ UNCHANGED <<releases, edition, sound, running, file, run, budget>>

Withdraw(t) ==
  /\ t \in releases \cap ready /\ Spend("acts")
  /\ releases' = releases \ {t} /\ edition' = edition + 1
  /\ UNCHANGED <<ready, sound, running, file, run>>

(* LatestReleaseWithETag; NotModified when the ETag is the list's.         *)
NotModified(st) == st.etag = edition

-----------------------------------------------------------------------------
(* A run.                                                                  *)

Tick ==
  /\ run.pc = "idle"
  /\ run' = [Rest EXCEPT !.pc = "github", !.st = file]
  /\ UNCHANGED <<releases, edition, ready, sound, running, file, budget>>

\* --retry clears the failed attempt before its run.
Retry ==
  /\ run.pc = "idle" /\ Spend("acts")
  /\ run' = [Rest EXCEPT !.pc = "retry", !.st = file]
  /\ UNCHANGED <<releases, edition, ready, sound, running, file>>

ClearAttempt ==
  /\ run.pc = "retry"
  /\ LET st == [run.st EXCEPT !.tag = None, !.status = "none"]
     IN  \/ Written(st) /\ run' = [run EXCEPT !.pc = "github", !.st = st]
         \/ NotWritten /\ Ends
  /\ UNCHANGED <<releases, edition, ready, sound, running>>

\* Mutant: the ETag is kept as soon as the list has been read.
MutEtagFirst ==
  /\ run.pc = "github"
  /\ IF Newest \in {None, run.st.deployed} \/ NotModified(run.st)
       THEN Ends /\ Written([run.st EXCEPT !.etag = edition])
       ELSE /\ run' = [run EXCEPT !.pc = "preflight", !.rel = Newest, !.etag = edition,
                                         !.st.etag = edition]
            /\ Fine /\ UNCHANGED file
  /\ UNCHANGED <<releases, edition, ready, sound, running>>

AskGitHub ==
  /\ run.pc = "github"
  /\ LET st == run.st
         settled == Newest \in {None, st.deployed}
         skipped == Newest = st.tag /\ IsFailed(st.status)
     IN  \/ (IF run.cancelled THEN Fine ELSE Fault) /\ Ends /\ UNCHANGED file
         \/ /\ ~ run.cancelled /\ NotModified(st)
            /\ Ends /\ Fine /\ UNCHANGED file
         \/ /\ ~ run.cancelled /\ ~ NotModified(st) /\ settled
            /\ Written([st EXCEPT !.etag = edition]) \/ NotWritten
            /\ Ends
         \/ /\ ~ run.cancelled /\ ~ NotModified(st) /\ ~ settled
            /\ IF skipped THEN Ends
               ELSE run' = [run EXCEPT !.pc = "preflight", !.rel = Newest, !.etag = edition]
            /\ Fine /\ UNCHANGED file
  /\ UNCHANGED <<releases, edition, ready, sound, running>>

\* manifest inspect of every image; one that is missing is waited for.
Preflight ==
  /\ run.pc = "preflight"
  /\ \/ run.rel \in ready /\ ~ run.cancelled /\ Goto("begin") /\ Fine
     \/ (IF run.rel \in ready /\ ~ run.cancelled THEN Fault ELSE Fine) /\ Ends
  /\ UNCHANGED <<releases, edition, ready, sound, running, file>>

Begin ==
  /\ run.pc = "begin"
  /\ LET st == [run.st EXCEPT !.tag = run.rel, !.status = "in_progress"]
     IN  \/ Written(st) /\ run' = [run EXCEPT !.pc = "login", !.st = st]
         \/ NotWritten /\ Ends
  /\ UNCHANGED <<releases, edition, ready, sound, running>>

-----------------------------------------------------------------------------
(* deployVersion, of the release and then perhaps of the last one.  A      *)
(* cancelled run fails at its next command; the revert is not cancelled.   *)

Version(r) == IF r.reverting THEN r.st.deployed ELSE r.rel
Cancelled(r) == r.cancelled /\ ~ r.reverting
After(step) == CASE step = "login" -> "pull" [] step = "pull" -> "up"
                 [] step = "up" -> "healthcheck"

\* Mutant: the revert is taken to succeed.
MutRevertUnchecked(r, step) ==
  IF r.reverting THEN [r EXCEPT !.pc = "failed", !.st.status = "failed_reverted"]
  ELSE IF r.st.deployed # None /\ NeedsRevert(step)
    THEN [r EXCEPT !.pc = "login", !.reverting = TRUE, !.class = step]
    ELSE [r EXCEPT !.pc = "failed", !.st.status = "failed", !.class = step]

Failed(r, step) ==
  IF r.reverting THEN [r EXCEPT !.pc = "failed", !.st.status = "critical", !.class = "critical"]
  ELSE IF r.st.deployed # None /\ NeedsRevert(step)
    THEN [r EXCEPT !.pc = "login", !.reverting = TRUE, !.class = step]
    ELSE [r EXCEPT !.pc = "failed", !.st.status = "failed", !.class = step]

Deployed(r) ==
  IF r.reverting THEN [r EXCEPT !.pc = "failed", !.st.status = "failed_reverted"]
  ELSE [r EXCEPT !.pc = "succeed"]

\* Every container reports the version.
Healthy(v) == v \in sound /\ \A s \in Services : running[s] = v

\* compose up replaces the containers one by one.
Command(step) ==
  /\ run.pc = step
  /\ LET r == run
         fits == step = "healthcheck" => Healthy(Version(r))
     IN  \/ /\ ~ Cancelled(r) /\ fits /\ Fine
            /\ run' = IF step = "healthcheck" THEN Deployed(r) ELSE [r EXCEPT !.pc = After(step)]
            /\ running' = IF step = "up" THEN [s \in Services |-> Version(r)] ELSE running
         \/ /\ IF Cancelled(r) \/ ~ fits THEN Fine ELSE Fault
            /\ run' = Failed(r, step)
            /\ \E replaced \in SUBSET Services :
                 /\ step # "up" => replaced = {}
                 /\ running' = [s \in Services |-> IF s \in replaced THEN Version(r) ELSE running[s]]
  /\ UNCHANGED <<releases, edition, ready, sound, file>>

\* finalize: the operator is mailed unless the class was mailed of late;
\* nobody asks whether the state was written.
Finalize ==
  /\ run.pc = "failed"
  /\ \E mailed \in BOOLEAN :
       Written([run.st EXCEPT !.alert = IF mailed THEN run.class ELSE @]) \/ NotWritten
  /\ Ends
  /\ UNCHANGED <<releases, edition, ready, sound, running>>

Succeed ==
  /\ run.pc = "succeed"
  /\ \/ Written([run.st EXCEPT !.deployed = run.rel, !.status = "success",
                                  !.etag = run.etag, !.alert = "none"])
     \/ NotWritten
  /\ Ends
  /\ UNCHANGED <<releases, edition, ready, sound, running>>

\* SIGTERM, as from TimeoutStartSec; then SIGKILL, or the machine stops.
Terminate ==
  /\ run.pc # "idle" /\ ~ run.cancelled /\ Fault
  /\ run' = [run EXCEPT !.cancelled = TRUE]
  /\ UNCHANGED <<releases, edition, ready, sound, running, file>>
Dies ==
  /\ run.pc # "idle" /\ Fault /\ Ends
  /\ UNCHANGED <<releases, edition, ready, sound, running, file>>

Running ==
  \/ ClearAttempt
  \/ AskGitHub
  \/ Preflight
  \/ Begin
  \/ \E step \in Steps : Command(step)
  \/ Finalize
  \/ Succeed
  \/ Terminate
  \/ Dies

DeployNext ==
  \/ \E t \in 1..MaxTag : Publish(t) \/ PushImages(t) \/ Withdraw(t)
  \/ Tick
  \/ Retry
  \/ Running

DeploySpec == DeployInit /\ [][DeployNext]_deployVars

-----------------------------------------------------------------------------
(* Properties.                                                             *)

AtRest == run.pc = "idle"

(* What the file says was achieved is what every container runs: a success *)
(* or a revert is recorded only of containers that are all on that version *)
(* and healthy (deploy.go, Run and deployVersion).                         *)
FileTellsWhatRuns ==
  AtRest /\ file.status \in {"success", "failed_reverted"} =>
    Healthy(file.deployed)

(* No release is missed: while the ETag spares the runs a look at the list *)
(* there is nothing on it to deploy, though releases appear, vanish, fail  *)
(* and are retried (deploy.go, Run; github.go, LatestReleaseWithETag).     *)
NoReleaseIsMissed ==
  AtRest /\ NotModified(file) => Newest \in {None, file.deployed}
=============================================================================
