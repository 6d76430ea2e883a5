-------------------------------- MODULE Release --------------------------------
(*****************************************************************************)
(* scripts/deploy.py: releasing images to one Compose project, with one state *)
(* directory, by any number of deployers.  A step is one effect of the script *)
(* on what outlives it: the lock, the containers, the release record and the *)
(* report of the last attempt; between two of them the script may be         *)
(* interrupted or killed.                                                    *)
(*                                                                           *)
(* docker compose and the canary are external.  `up` works on the containers *)
(* one at a time, in no particular order, and may fail or run out of time    *)
(* after any of them.  A process that is killed leaves its lock behind; the  *)
(* operator removes it once nothing of that attempt runs any more.           *)
(*                                                                           *)
(* A release is the image, the profile and the ports.  The model name, the   *)
(* vLLM image and the credentials are left out, and so is what becomes of    *)
(* the database, which no attempt stops or replaces: it counts only as a     *)
(* container of the project.                                                 *)
(*****************************************************************************)
EXTENDS Naturals

CONSTANTS Deployers,  \* processes that run the script
          Releases,   \* what they may be asked to release
          NoRelease,  \* no release record; an app without a container
          Stopped     \* an app whose container does not run

ASSUME ReleasesAssumption ==
  \A rel \in Releases :
    /\ rel = [image |-> rel.image, profile |-> rel.profile, ports |-> rel.ports]
    /\ rel.profile \in {"cpu", "gpu"}
ASSUME MarksAssumption ==
  NoRelease \notin Releases /\ Stopped \notin Releases /\ NoRelease # Stopped
ASSUME DeployersAssumption == "free" \notin Deployers

VARIABLES lock,       \* whose lock file exists, or "free"
          record,     \* the release in <project>.json, if there is one
          report,     \* status in <project>.last-attempt.json
          project,    \* whose containers the project has
          apps,       \* for each app, the release its container was made from
          pc,         \* where each deployer is
          target, previous, \* local variables of release()
          result      \* what its last attempt is to report or has raised

files == <<record, report>>
locals == <<target, previous>>
vars == <<lock, files, project, apps, pc, locals, result>>

Apps == {"bento", "retrieval", "vllm"}

AppsOf(rel) == IF rel.profile = "gpu" THEN Apps ELSE Apps \ {"vllm"}

Results == {"none", "refused", "unrecorded", "preflight_failed", "verified",
            "restored", "stopped", "attention", "escaped"}

Init ==
  /\ lock = "free"
  /\ record = NoRelease
  /\ report = "none"
  /\ project \in {"absent", "foreign"}
  /\ apps = [s \in Apps |-> NoRelease]
  /\ pc = [d \in Deployers |-> "idle"]
  /\ target = [d \in Deployers |-> NoRelease]
  /\ previous = [d \in Deployers |-> NoRelease]
  /\ result = [d \in Deployers |-> "none"]

Goto(d, l) == pc' = [pc EXCEPT ![d] = l]
End(d, what) == result' = [result EXCEPT ![d] = what]

\* A step that touches nothing but where the deployer stands.
Quiet == UNCHANGED <<lock, files, project, apps, locals>>
-------------------------------------------------------------------------------
\* The lock and the checks before anything is changed.

\* The lock file exists: FileExistsError.
Excluded(d) ==
  /\ pc[d] = "idle"
  /\ lock # "free"
  /\ UNCHANGED vars

\* exclusive_release creates the lock file.
Lock(d, rel) ==
  /\ pc[d] = "idle"
  /\ lock = "free"
  /\ lock' = d
  /\ target' = [target EXCEPT ![d] = rel]
  /\ Goto(d, "checking")
  /\ UNCHANGED <<files, project, apps, previous, result>>

\* The project has containers and no record: it may be somebody else's.
Unrecorded == project # "absent" /\ record = NoRelease

\* Mutant: the ports of a release are free to change.
PortsIgnored(rel) == FALSE

PortsMove(rel) == record # NoRelease /\ record.ports # rel.ports

NotAdopted(d) ==
  /\ pc[d] = "checking"
  /\ Unrecorded
  /\ End(d, "unrecorded")
  /\ Goto(d, "leaving")
  /\ Quiet

\* The ports would change; or the image is not there, a credential is missing,
\* docker fails: nothing the model tells apart.
Refused(d) ==
  /\ pc[d] = "checking"
  /\ End(d, "refused")
  /\ Goto(d, "leaving")
  /\ Quiet

PreflightFails(d) ==
  /\ pc[d] = "checking"
  /\ ~Unrecorded /\ ~PortsMove(target[d])
  /\ target[d].profile = "gpu"
  /\ report' = "preflight_failed"
  /\ End(d, "preflight_failed")
  /\ Goto(d, "leaving")
  /\ UNCHANGED <<lock, record, project, apps, locals>>

Accepted(d) ==
  /\ pc[d] = "checking"
  /\ ~Unrecorded /\ ~PortsMove(target[d])
  /\ previous' = [previous EXCEPT ![d] = record]
  /\ Goto(d, "starting")
  /\ UNCHANGED <<lock, files, project, apps, target, result>>
-------------------------------------------------------------------------------
\* activate: `up`, then the canary, for the target or for the previous release.

\* Mutant: the rollback starts the candidate again.
ActivatedCandidate(d) == target[d]

Activated(d) == IF pc[d] = "restoring" THEN previous[d] ELSE target[d]

\* Mutant: `up` without --remove-orphans.
OrphansKept(rel) == {}

\* The apps that `up --remove-orphans` is to remove.
Orphans(rel) == Apps \ AppsOf(rel)

\* `up` may make the database's container before any app's, and get no further.
CreateDatabase(d) ==
  /\ pc[d] \in {"starting", "restoring"}
  /\ project = "absent"
  /\ project' = "ours"
  /\ UNCHANGED <<lock, files, apps, pc, locals, result>>

\* `up` replaces a container; the new one may not come up.
Recreate(d) ==
  /\ pc[d] \in {"starting", "restoring"}
  /\ \E s \in AppsOf(Activated(d)) :
       /\ apps[s] # Activated(d)
       /\ \E state \in {Activated(d), Stopped} : apps' = [apps EXCEPT ![s] = state]
  /\ project' = "ours"
  /\ UNCHANGED <<lock, files, pc, locals, result>>

RemoveOrphan(d) ==
  /\ pc[d] \in {"starting", "restoring"}
  /\ \E s \in Orphans(Activated(d)) :
       apps[s] # NoRelease /\ apps' = [apps EXCEPT ![s] = NoRelease]
  /\ UNCHANGED <<lock, files, project, pc, locals, result>>

\* Mutant: `up` without --wait.
UpReturnsEarly(d) ==
  /\ pc[d] \in {"starting", "restoring"}
  /\ Goto(d, IF pc[d] = "starting" THEN "canary" ELSE "recanary")
  /\ UNCHANGED result
  /\ Quiet

\* `up --wait` returns: every app of the profile is healthy.
UpEnds(d) ==
  /\ pc[d] \in {"starting", "restoring"}
  /\ \A s \in AppsOf(Activated(d)) : apps[s] = Activated(d)
  /\ \A s \in Orphans(Activated(d)) : apps[s] = NoRelease
  /\ Goto(d, IF pc[d] = "starting" THEN "canary" ELSE "recanary")
  /\ UNCHANGED result
  /\ Quiet

CanaryPasses(d) ==
  \/ /\ pc[d] = "canary"
     /\ Goto(d, "recording")
     /\ UNCHANGED result
     /\ Quiet
  \/ /\ pc[d] = "recanary"
     /\ Goto(d, "reporting")
     /\ End(d, "restored")
     /\ Quiet

\* The release fails, by an error, the time limit of a command, or Ctrl-C: roll
\* back, or stop the apps of a first release.
ReleaseFails(d) ==
  /\ pc[d] \in {"starting", "canary"}
  /\ Goto(d, IF previous[d] # NoRelease THEN "restoring" ELSE "stopping")
  /\ UNCHANGED result
  /\ Quiet

\* Mutant: a failed gpu release leaves the model server running.
VllmForgotten(d) == Apps \ {"vllm"}

\* The apps that a `stop` is to stop.
Stopping(d) == IF pc[d] = "stopping" THEN Apps \ {"vllm"} ELSE {"vllm"}

Running(s) == apps[s] \notin {NoRelease, Stopped}

StopApp(d) ==
  /\ pc[d] \in {"stopping", "stopping_vllm"}
  /\ \E s \in Stopping(d) : Running(s) /\ apps' = [apps EXCEPT ![s] = Stopped]
  /\ UNCHANGED <<lock, files, project, pc, locals, result>>

StopEnds(d) ==
  /\ pc[d] \in {"stopping", "stopping_vllm"}
  /\ \A s \in Stopping(d) : ~Running(s)
  /\ IF pc[d] = "stopping" /\ target[d].profile = "gpu"
     THEN Goto(d, "stopping_vllm") /\ UNCHANGED result
     ELSE Goto(d, "reporting") /\ End(d, "stopped")
  /\ Quiet

\* Mutant: the commands of a rollback have no time limit.
RollbackUnbounded(d) == FALSE

\* The rollback fails too.
RollbackFails(d) ==
  /\ pc[d] \in {"restoring", "recanary", "stopping", "stopping_vllm"}
  /\ Goto(d, "reporting")
  /\ End(d, "attention")
  /\ Quiet
-------------------------------------------------------------------------------
\* What is written, and the end of an attempt.

\* Mutant: the report holds a phase of the attempt, not what became of it.
ReportSwapped(d) ==
  /\ pc[d] = "reporting"
  /\ report' = pc[d]
  /\ Goto(d, "leaving")
  /\ UNCHANGED <<lock, record, project, apps, locals, result>>

ReportWritten(d) ==
  /\ pc[d] = "reporting"
  /\ report' = result[d]
  /\ Goto(d, "leaving")
  /\ UNCHANGED <<lock, record, project, apps, locals, result>>

RecordWritten(d) ==
  /\ pc[d] = "recording"
  /\ record' = target[d]
  /\ Goto(d, "recorded")
  /\ UNCHANGED <<lock, report, project, apps, locals, result>>

EvidenceWritten(d) ==
  /\ pc[d] = "recorded"
  /\ report' = "verified"
  /\ End(d, "verified")
  /\ Goto(d, "leaving")
  /\ UNCHANGED <<lock, record, project, apps, locals>>

\* An exception that no clause catches: Ctrl-C outside the release proper, or a
\* file that cannot be written.
Escapes(d) ==
  /\ pc[d] \in {"checking", "restoring", "recanary", "stopping", "stopping_vllm",
                "reporting", "recording", "recorded"}
  /\ End(d, "escaped")
  /\ Goto(d, "leaving")
  /\ Quiet

Unlock(d) ==
  /\ pc[d] = "leaving"
  /\ lock' = "free"
  /\ Goto(d, "idle")
  /\ End(d, "none")
  /\ target' = [target EXCEPT ![d] = NoRelease]
  /\ previous' = [previous EXCEPT ![d] = NoRelease]
  /\ UNCHANGED <<files, project, apps>>

\* The process is killed.
Crash(d) ==
  /\ pc[d] \notin {"idle", "dead"}
  /\ Goto(d, "dead")
  /\ UNCHANGED result
  /\ Quiet

\* The operator removes a lock whose process is gone.
RemoveStaleLock(d) ==
  /\ pc[d] = "dead"
  /\ lock' = "free"
  /\ Goto(d, "idle")
  /\ End(d, "none")
  /\ target' = [target EXCEPT ![d] = NoRelease]
  /\ previous' = [previous EXCEPT ![d] = NoRelease]
  /\ UNCHANGED <<files, project, apps>>

Checks(d) == NotAdopted(d) \/ Refused(d) \/ PreflightFails(d) \/ Accepted(d)

Activation(d) ==
  UpEnds(d) \/ CanaryPasses(d) \/ ReleaseFails(d) \/ StopEnds(d) \/ RollbackFails(d)

Ending(d) ==
  ReportWritten(d) \/ RecordWritten(d) \/ EvidenceWritten(d) \/ Unlock(d)

Next ==
  \E d \in Deployers :
    \/ Excluded(d) \/ (\E rel \in Releases : Lock(d, rel))
    \/ Checks(d) \/ Activation(d) \/ Ending(d)
    \/ CreateDatabase(d) \/ Recreate(d) \/ RemoveOrphan(d) \/ StopApp(d)
    \/ Escapes(d) \/ Crash(d) \/ RemoveStaleLock(d)

\* The script goes on unless it is killed: what it runs with `run` has a time limit.
\* The canary has none of its own, only one for each read; it is assumed to end, its
\* streamed answer by the deadline of the gateway.
Fairness == \A d \in Deployers : WF_vars(Checks(d) \/ Activation(d) \/ Ending(d))

Spec == Init /\ [][Next]_vars /\ Fairness
-------------------------------------------------------------------------------
\* Properties.

TypeOK ==
  /\ lock \in Deployers \union {"free"}
  /\ record \in Releases \union {NoRelease}
  /\ report \in Results
  /\ project \in {"absent", "foreign", "ours"}
  /\ apps \in [Apps -> Releases \union {NoRelease, Stopped}]
  /\ pc \in [Deployers ->
              {"idle", "checking", "starting", "canary", "restoring", "recanary",
               "stopping", "stopping_vllm", "reporting", "recording", "recorded",
               "leaving", "dead"}]
  /\ target \in [Deployers -> Releases \union {NoRelease}]
  /\ previous \in [Deployers -> Releases \union {NoRelease}]
  /\ result \in [Deployers -> Results]

\* The project runs rel, all of it and nothing else; no app runs if rel is none.
Runs(rel) ==
  \A s \in Apps : IF rel # NoRelease /\ s \in AppsOf(rel) THEN apps[s] = rel
                  ELSE ~Running(s)

\* What an attempt is about to say when it leaves is so, whatever the attempts
\* before it left behind: a verified release runs and is on record, a rollback
\* that was verified runs the release on record, and after a first release that
\* failed no app runs.
ResultsHold ==
  \A d \in Deployers : pc[d] \in {"reporting", "leaving"} =>
    /\ result[d] = "verified" => record = target[d] /\ Runs(record)
    /\ result[d] = "restored" => record # NoRelease /\ Runs(record)
    /\ result[d] = "stopped" => record = NoRelease /\ Runs(NoRelease)

\* When the record is written, the project runs exactly the release it names: all of
\* its apps, of its image, and nothing left of another profile.  That the canary was
\* asked, and a release that passed it and was killed before the record, are not its
\* subject.
RecordsWhatRuns ==
  [][record' # record => record' # NoRelease /\ Runs(record')]_vars

\* "An existing unrecorded project is never adopted", nor are its containers touched;
\* and from its first record on a project has one, keeps its ports, and has no
\* container at other ones, whatever is asked for and however attempts fail.  (A
\* foreign project that appears only between the check and `up` is not modelled.)
ProjectsKept ==
  [][/\ project = "foreign" => UNCHANGED <<project, record, apps>>
     /\ record # NoRelease =>
          /\ record' # NoRelease /\ record'.ports = record.ports
          /\ \A s \in Apps : apps'[s] \in Releases => apps'[s].ports = record.ports]_vars

\* An attempt that is not killed gives the lock back, however its commands and its
\* canary end; that each of them does end is assumed (Fairness).
LockComesBack ==
  \A d \in Deployers : lock = d ~> lock # d \/ pc[d] = "dead"

\* "In that case the attempt fails safely; inspect model cache/download progress
\* and retry": a retry is not turned away for what a first release left that failed
\* and stopped its apps as it should.
RetriesAccepted ==
  \A d \in Deployers :
    result[d] = "unrecorded" => project = "foreign" \/ report # "stopped"

\* "Rollback failure is reported as requiring operator attention": when an
\* attempt ends, unless it was killed, and the project does not run the release on
\* record, the report of the last attempt says so.
FailuresReported ==
  \A d \in Deployers :
    pc[d] = "leaving" /\ previous[d] # NoRelease /\ ~Runs(record)
      => report = "attention"
===============================================================================
