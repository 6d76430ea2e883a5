----------------------------- MODULE ReleaseProofs -----------------------------
(*****************************************************************************)
(* The safety of Release, for every number of deployers and every set of     *)
(* releases, and of its history in MCRelease.                                *)
(*                                                                           *)
(* What makes the checked properties inductive is what an attempt may rely   *)
(* on while it holds the lock (HolderInv): its previous release is the one   *)
(* on record, as long as there is no record the containers can only be its   *)
(* own, and what `up --wait` and `stop` have found still stands.  A deployer *)
(* that is idle relies on nothing and nobody else has the lock, so each      *)
(* action needs to be looked at for its own deployer only (OthersIdle).      *)
(*****************************************************************************)
EXTENDS MCRelease, TLAPS

\* An attempt is past its checks and has written nothing yet.
Attempts(d) ==
  pc[d] \in {"starting", "canary", "restoring", "recanary", "stopping",
             "stopping_vllm", "recording"}

\* The lock file is there exactly while its deployer is at work, or dead.
LockInv == \A d \in Deployers : lock = d <=> pc[d] # "idle"

\* Other people's containers are not on record, and a project has no container at
\* other ports than those on record.
ProjectInv ==
  /\ project # "ours" => record = NoRelease /\ \A s \in Apps : apps[s] = NoRelease
  /\ record # NoRelease =>
       \A s \in Apps : apps[s] \in Releases => apps[s].ports = record.ports

\* What an attempt knows of the record is still so.
LocalsInv(d) ==
  /\ pc[d] # "idle" => target[d] \in Releases
  /\ Attempts(d) =>
       /\ previous[d] = record
       /\ record # NoRelease => record.ports = target[d].ports
  /\ pc[d] \in {"restoring", "recanary"} => record # NoRelease
  /\ pc[d] \in {"stopping", "stopping_vllm"} => record = NoRelease
  /\ pc[d] = "recorded" => record = target[d]

\* In a first attempt the containers are its own, and in none somebody else's.
OwnInv(d) ==
  Attempts(d) =>
    /\ project # "foreign"
    /\ record = NoRelease =>
         \A s \in Apps :
           apps[s] \in Releases => apps[s] = target[d] /\ s \in AppsOf(target[d])

\* What `up --wait` or `stop` has found when it returned.
SettledInv(d) ==
  /\ pc[d] \in {"canary", "recording", "recorded"} => Runs(target[d])
  /\ pc[d] = "recanary" => Runs(record)
  /\ pc[d] = "stopping_vllm" => \A s \in Apps \ {"vllm"} : ~Running(s)
  /\ pc[d] = "reporting" => result[d] \in {"restored", "stopped", "attention"}

\* ResultsHold, of one deployer.
ResultInv(d) ==
  pc[d] \in {"reporting", "leaving"} =>
    /\ result[d] = "verified" => record = target[d] /\ Runs(record)
    /\ result[d] = "restored" => record # NoRelease /\ Runs(record)
    /\ result[d] = "stopped" => record = NoRelease /\ Runs(NoRelease)

HolderInv(d) == LocalsInv(d) /\ OwnInv(d) /\ SettledInv(d) /\ ResultInv(d)

IInv == TypeOK /\ LockInv /\ ProjectInv /\ \A d \in Deployers : HolderInv(d)
-------------------------------------------------------------------------------
LEMMA InitInv == Init => IInv
<1> SUFFICES ASSUME Init PROVE IInv
  OBVIOUS
<1>1. TypeOK
  BY DEF Init, TypeOK, Results
<1>2. LockInv
  BY DeployersAssumption DEF Init, LockInv
<1>3. ProjectInv
  BY DEF Init, ProjectInv
<1>4. ASSUME NEW d \in Deployers PROVE HolderInv(d)
  BY DEF Init, HolderInv, LocalsInv, OwnInv, SettledInv, ResultInv, Attempts
<1> QED
  BY <1>1, <1>2, <1>3, <1>4 DEF IInv

\* While one deployer is at work, or about to be, nobody else is.
LEMMA OthersIdle ==
  ASSUME IInv, NEW d \in Deployers, lock \in {d, "free"},
         \A e \in Deployers \ {d} : pc'[e] = pc[e],
         TypeOK', LockInv', ProjectInv', HolderInv(d)'
  PROVE  IInv'
<1>1. ASSUME NEW e \in Deployers \ {d} PROVE HolderInv(e)'
  <2>1. pc'[e] = "idle"
    BY DeployersAssumption DEF IInv, LockInv
  <2> QED
    BY <2>1 DEF HolderInv, LocalsInv, OwnInv, SettledInv, ResultInv, Attempts
<1> QED
  BY <1>1 DEF IInv

\* A step that only moves a deployer that has the lock.
LEMMA QuietStep ==
  ASSUME IInv, NEW d \in Deployers, pc[d] # "idle", Quiet,
         NEW l, l # "idle", pc' = [pc EXCEPT ![d] = l], TypeOK', HolderInv(d)'
  PROVE  IInv'
<1>1. /\ lock = d /\ UNCHANGED <<lock, record, project, apps>>
      /\ pc'[d] = l /\ \A e \in Deployers \ {d} : pc'[e] = pc[e]
  BY DEF IInv, TypeOK, LockInv, Quiet, files
<1>2. LockInv'
  BY <1>1 DEF IInv, LockInv
<1>3. ProjectInv'
  BY <1>1 DEF IInv, ProjectInv
<1> QED
  BY <1>1, <1>2, <1>3, OthersIdle

\* A quiet step keeps what is said of the project.
LEMMA QuietRuns ==
  ASSUME Quiet
  PROVE  /\ UNCHANGED <<lock, record, report, project, apps, target, previous>>
         /\ \A rel : Runs(rel)' = Runs(rel)
         /\ \A s : Running(s)' = Running(s)
  BY DEF Quiet, files, locals, Runs, Running
-------------------------------------------------------------------------------
\* The lock is taken.
LEMMA LockStep ==
  ASSUME IInv, NEW d \in Deployers, NEW rel \in Releases, Lock(d, rel)
  PROVE  IInv'
<1>1. /\ lock = "free" /\ lock' = d /\ target' = [target EXCEPT ![d] = rel]
      /\ pc' = [pc EXCEPT ![d] = "checking"]
      /\ UNCHANGED <<record, report, project, apps, previous, result>>
  BY DEF Lock, Goto, files
<1>2. /\ pc'[d] = "checking" /\ target'[d] = rel
      /\ \A e \in Deployers \ {d} : pc'[e] = pc[e]
  BY <1>1 DEF IInv, TypeOK
<1>3. TypeOK'
  BY <1>1 DEF IInv, TypeOK
<1>4. LockInv'
  BY <1>1, <1>2, DeployersAssumption DEF IInv, LockInv
<1>5. ProjectInv'
  BY <1>1 DEF IInv, ProjectInv
<1>6. HolderInv(d)'
  BY <1>2 DEF HolderInv, LocalsInv, OwnInv, SettledInv, ResultInv, Attempts
<1> QED
  BY <1>1, <1>2, <1>3, <1>4, <1>5, <1>6, OthersIdle

\* The lock is given back, by its deployer or by the operator.
LEMMA UnlockStep ==
  ASSUME IInv, NEW d \in Deployers, Unlock(d) \/ RemoveStaleLock(d)
  PROVE  IInv'
<1>1. /\ pc[d] # "idle" /\ lock' = "free" /\ pc' = [pc EXCEPT ![d] = "idle"]
      /\ result' = [result EXCEPT ![d] = "none"]
      /\ target' = [target EXCEPT ![d] = NoRelease]
      /\ previous' = [previous EXCEPT ![d] = NoRelease]
      /\ UNCHANGED <<record, report, project, apps>>
  BY DEF Unlock, RemoveStaleLock, Goto, End, files
<1>2. /\ lock = d /\ pc'[d] = "idle"
      /\ \A e \in Deployers \ {d} : pc'[e] = pc[e]
  BY <1>1 DEF IInv, TypeOK, LockInv
<1>3. TypeOK'
  BY <1>1 DEF IInv, TypeOK, Results
<1>4. LockInv'
  BY <1>1, <1>2, DeployersAssumption DEF IInv, LockInv
<1>5. ProjectInv'
  BY <1>1 DEF IInv, ProjectInv
<1>6. HolderInv(d)'
  BY <1>2 DEF HolderInv, LocalsInv, OwnInv, SettledInv, ResultInv, Attempts
<1> QED
  BY <1>1, <1>2, <1>3, <1>4, <1>5, <1>6, OthersIdle
-------------------------------------------------------------------------------
\* The checks, before anything is changed.
LEMMA CheckStep ==
  ASSUME IInv, NEW d \in Deployers, NotAdopted(d) \/ Refused(d) \/ Accepted(d)
  PROVE  IInv'
<1>1. CASE NotAdopted(d) \/ Refused(d)
  <2>1. /\ pc[d] # "idle" /\ Quiet /\ pc' = [pc EXCEPT ![d] = "leaving"]
        /\ \E what \in {"unrecorded", "refused"} :
             result' = [result EXCEPT ![d] = what]
    BY <1>1 DEF NotAdopted, Refused, Goto, End
  <2>2. /\ pc'[d] = "leaving" /\ result'[d] \in {"unrecorded", "refused"}
        /\ target'[d] \in Releases
    BY <2>1, QuietRuns DEF IInv, TypeOK, HolderInv, LocalsInv
  <2>3. TypeOK'
    BY <2>1, QuietRuns DEF IInv, TypeOK, Results
  <2>4. HolderInv(d)'
    BY <2>2 DEF HolderInv, LocalsInv, OwnInv, SettledInv, ResultInv, Attempts
  <2> QED
    BY <2>1, <2>3, <2>4, QuietStep
<1>2. CASE Accepted(d)
  <2>1. /\ pc[d] = "checking" /\ pc' = [pc EXCEPT ![d] = "starting"]
        /\ previous' = [previous EXCEPT ![d] = record]
        /\ UNCHANGED <<lock, record, report, project, apps, target, result>>
        /\ ~Unrecorded /\ ~PortsMove(target[d])
    BY <1>2 DEF Accepted, Goto, files
  <2>2. /\ lock = d /\ target[d] \in Releases
        /\ pc'[d] = "starting" /\ previous'[d] = record
        /\ \A e \in Deployers \ {d} : pc'[e] = pc[e]
    BY <2>1 DEF IInv, TypeOK, LockInv, HolderInv, LocalsInv
  <2>3. TypeOK'
    BY <2>1 DEF IInv, TypeOK
  <2>4. LockInv'
    BY <2>1, <2>2 DEF IInv, LockInv
  <2>5. ProjectInv'
    BY <2>1 DEF IInv, ProjectInv
  <2>6. LocalsInv(d)'
    BY <2>1, <2>2 DEF LocalsInv, Attempts, PortsMove
  <2>7. OwnInv(d)'
    BY <2>1, <2>2, MarksAssumption DEF OwnInv, Attempts, Unrecorded, IInv, ProjectInv
  <2>8. HolderInv(d)'
    BY <2>2, <2>6, <2>7 DEF HolderInv, SettledInv, ResultInv
  <2> QED
    BY <2>2, <2>3, <2>4, <2>5, <2>8, OthersIdle
<1> QED
  BY <1>1, <1>2

\* A report is written: by a preflight that failed, or at the end of an attempt.
LEMMA ReportStep ==
  ASSUME IInv, NEW d \in Deployers,
         PreflightFails(d) \/ ReportWritten(d) \/ EvidenceWritten(d)
  PROVE  IInv'
<1>1. /\ pc[d] \in {"checking", "reporting", "recorded"}
      /\ pc' = [pc EXCEPT ![d] = "leaving"]
      /\ UNCHANGED <<lock, record, project, apps, target, previous>>
  BY DEF PreflightFails, ReportWritten, EvidenceWritten, Goto, locals
<1>2. /\ lock = d /\ target'[d] \in Releases /\ pc'[d] = "leaving"
      /\ \A e \in Deployers \ {d} : pc'[e] = pc[e]
  BY <1>1 DEF IInv, TypeOK, LockInv, HolderInv, LocalsInv
<1>3. \/ pc[d] = "checking" /\ result'[d] = "preflight_failed"
      \/ pc[d] = "reporting" /\ result'[d] = result[d]
      \/ pc[d] = "recorded" /\ result'[d] = "verified"
  BY DEF PreflightFails, ReportWritten, EvidenceWritten, End, IInv, TypeOK
<1>4. TypeOK'
  BY <1>1 DEF PreflightFails, ReportWritten, EvidenceWritten, End, IInv, TypeOK, Results
<1>5. LockInv'
  BY <1>1, <1>2 DEF IInv, LockInv
<1>6. ProjectInv'
  BY <1>1 DEF IInv, ProjectInv
<1>7. \A rel : Runs(rel)' = Runs(rel)
  BY <1>1 DEF Runs, Running
<1>8. ResultInv(d)'
  <2>1. HolderInv(d)
    BY DEF IInv
  <2>2. CASE pc[d] = "recorded" /\ result'[d] = "verified"
    BY <1>1, <1>7, <2>1, <2>2 DEF ResultInv, HolderInv, LocalsInv, SettledInv
  <2>3. CASE pc[d] = "reporting" /\ result'[d] = result[d]
    BY <1>1, <1>7, <2>1, <2>3 DEF ResultInv, HolderInv
  <2> QED
    BY <1>3, <2>2, <2>3 DEF ResultInv
<1>9. HolderInv(d)'
  BY <1>2, <1>8 DEF HolderInv, LocalsInv, OwnInv, SettledInv, Attempts
<1> QED
  BY <1>2, <1>4, <1>5, <1>6, <1>9, OthersIdle

\* The record is written.
LEMMA RecordStep ==
  ASSUME IInv, NEW d \in Deployers, RecordWritten(d)
  PROVE  IInv' /\ record' \in Releases /\ Runs(record')
<1>1. /\ pc[d] = "recording" /\ pc' = [pc EXCEPT ![d] = "recorded"]
      /\ record' = target[d]
      /\ UNCHANGED <<lock, report, project, apps, target, previous, result>>
  BY DEF RecordWritten, Goto, locals
<1>2. HolderInv(d)
  BY DEF IInv
<1>3. /\ lock = d /\ target[d] \in Releases /\ pc'[d] = "recorded"
      /\ \A e \in Deployers \ {d} : pc'[e] = pc[e]
  BY <1>1, <1>2 DEF IInv, TypeOK, LockInv, HolderInv, LocalsInv
<1>4. TypeOK'
  BY <1>1, <1>3 DEF IInv, TypeOK
<1>5. LockInv'
  BY <1>1, <1>3 DEF IInv, LockInv
<1>6. Runs(target[d]) /\ \A rel : Runs(rel)' = Runs(rel)
  BY <1>1, <1>2 DEF HolderInv, SettledInv, Runs, Running
<1>7. ProjectInv'
  <2>1. project = "ours"
    <3>1. apps["bento"] = target[d]
      BY <1>3, <1>6, MarksAssumption DEF Runs, Apps, AppsOf
    <3> QED
      BY <1>3, <3>1, MarksAssumption DEF IInv, ProjectInv, Apps
  <2>2. ASSUME NEW s \in Apps, apps[s] \in Releases
        PROVE  apps[s].ports = target[d].ports
    <3>1. Attempts(d)
      BY <1>1 DEF Attempts
    <3>2. CASE record = NoRelease
      BY <1>2, <2>2, <3>1, <3>2 DEF HolderInv, OwnInv
    <3>3. CASE record # NoRelease
      BY <1>2, <2>2, <3>1, <3>3 DEF HolderInv, LocalsInv, IInv, ProjectInv
    <3> QED
      BY <3>2, <3>3
  <2> QED
    BY <1>1, <2>1, <2>2 DEF ProjectInv
<1>8. HolderInv(d)'
  BY <1>1, <1>3, <1>6
  DEF HolderInv, LocalsInv, OwnInv, SettledInv, ResultInv, Attempts
<1> QED
  BY <1>1, <1>3, <1>4, <1>5, <1>6, <1>7, <1>8, OthersIdle
-------------------------------------------------------------------------------
\* A container of the project is replaced, removed or stopped by an attempt.
LEMMA ContainerStep ==
  ASSUME IInv, NEW d \in Deployers,
         pc[d] \in {"starting", "restoring", "stopping", "stopping_vllm"},
         NEW s \in Apps, NEW state, apps' = [apps EXCEPT ![s] = state],
         \/ /\ pc[d] \in {"starting", "restoring"} /\ s \in AppsOf(Activated(d))
            /\ state \in {Activated(d), Stopped} /\ project' = "ours"
         \/ /\ apps[s] # NoRelease /\ state \in {NoRelease, Stopped}
            /\ UNCHANGED project,
         UNCHANGED <<lock, files, pc, locals, result>>
  PROVE  IInv'
<1>1. UNCHANGED <<lock, record, report, pc, target, previous, result>>
  BY DEF files, locals
<1>2. HolderInv(d) /\ Attempts(d) /\ lock = d
  BY DEF IInv, Attempts, LockInv
<1>3. /\ target[d] \in Releases /\ previous[d] = record
      /\ record # NoRelease => record.ports = target[d].ports
      /\ record \in Releases \union {NoRelease} /\ project # "foreign"
  BY <1>2 DEF HolderInv, LocalsInv, OwnInv, IInv, TypeOK
<1>4. state \in Releases =>
        /\ pc[d] \in {"starting", "restoring"}
        /\ state = Activated(d) /\ s \in AppsOf(Activated(d))
        /\ project' = "ours"
  BY MarksAssumption
<1>5. pc[d] = "restoring" => record \in Releases
  BY <1>2, <1>3 DEF HolderInv, LocalsInv
<1>6. state \in Releases \union {NoRelease, Stopped}
  BY <1>3, <1>5 DEF Activated
<1>7. /\ apps \in [Apps -> Releases \union {NoRelease, Stopped}]
      /\ apps'[s] = state /\ \A q \in Apps \ {s} : apps'[q] = apps[q]
  BY DEF IInv, TypeOK
<1>8. TypeOK'
  BY <1>1, <1>6, <1>7 DEF IInv, TypeOK
<1>9. LockInv'
  BY <1>1 DEF IInv, LockInv
<1>10. ProjectInv'
  <2>1. project' = "ours"
    BY <1>3 DEF IInv, ProjectInv, TypeOK
  <2>2. ASSUME record # NoRelease, NEW q \in Apps, apps'[q] \in Releases
        PROVE  apps'[q].ports = record.ports
    <3>1. CASE q # s
      BY <1>7, <2>2, <3>1 DEF IInv, ProjectInv
    <3>2. CASE q = s
      BY <1>3, <1>4, <1>7, <2>2, <3>2 DEF Activated
    <3> QED
      BY <3>1, <3>2
  <2> QED
    BY <1>1, <2>1, <2>2 DEF ProjectInv
<1>11. OwnInv(d)'
  <2>1. project' # "foreign"
    BY <1>3
  <2>2. ASSUME record = NoRelease, NEW q \in Apps, apps'[q] \in Releases
        PROVE  apps'[q] = target[d] /\ q \in AppsOf(target[d])
    <3>1. CASE q # s
      BY <1>2, <1>7, <2>2, <3>1 DEF HolderInv, OwnInv
    <3>2. CASE q = s
      BY <1>4, <1>5, <1>7, <2>2, <3>2, MarksAssumption DEF Activated
    <3> QED
      BY <3>1, <3>2
  <2> QED
    BY <1>1, <2>1, <2>2 DEF OwnInv
<1>12. SettledInv(d)'
  BY <1>1, <1>2, <1>4, <1>7 DEF HolderInv, SettledInv, Running
<1>13. LocalsInv(d)' /\ ResultInv(d)'
  BY <1>1, <1>2 DEF HolderInv, LocalsInv, ResultInv, Attempts
<1> QED
  BY <1>1, <1>2, <1>8, <1>9, <1>10, <1>11, <1>12, <1>13, OthersIdle DEF HolderInv

\* Before there is a container there is no record.
LEMMA CreateDatabaseStep ==
  ASSUME IInv, NEW d \in Deployers, CreateDatabase(d)
  PROVE  IInv'
<1>1. /\ pc[d] # "idle" /\ project = "absent" /\ project' = "ours"
      /\ UNCHANGED <<lock, record, report, apps, pc, target, previous, result>>
  BY DEF CreateDatabase, files, locals
<1>2. lock = d /\ HolderInv(d) /\ record = NoRelease
  BY <1>1 DEF IInv, LockInv, ProjectInv
<1>3. TypeOK'
  BY <1>1 DEF IInv, TypeOK
<1>4. LockInv' /\ ProjectInv'
  BY <1>1, <1>2 DEF IInv, LockInv, ProjectInv
<1>5. HolderInv(d)'
  BY <1>1, <1>2
  DEF HolderInv, LocalsInv, OwnInv, SettledInv, ResultInv, Attempts, Runs, Running
<1> QED
  BY <1>1, <1>2, <1>3, <1>4, <1>5, OthersIdle

LEMMA RecreateStep ==
  ASSUME IInv, NEW d \in Deployers, Recreate(d)
  PROVE  IInv'
<1>1. PICK s \in AppsOf(Activated(d)), state \in {Activated(d), Stopped} :
        apps' = [apps EXCEPT ![s] = state]
  BY DEF Recreate
<1>2. s \in Apps
  BY <1>1 DEF AppsOf, Apps
<1> QED
  BY <1>1, <1>2, ContainerStep DEF Recreate

LEMMA RemoveOrphanStep ==
  ASSUME IInv, NEW d \in Deployers, RemoveOrphan(d)
  PROVE  IInv'
<1>1. PICK s \in Orphans(Activated(d)) :
        apps[s] # NoRelease /\ apps' = [apps EXCEPT ![s] = NoRelease]
  BY DEF RemoveOrphan
<1>2. s \in Apps
  BY <1>1 DEF Orphans
<1> QED
  BY <1>1, <1>2, ContainerStep DEF RemoveOrphan

LEMMA StopAppStep ==
  ASSUME IInv, NEW d \in Deployers, StopApp(d)
  PROVE  IInv'
<1>1. PICK s \in Stopping(d) : Running(s) /\ apps' = [apps EXCEPT ![s] = Stopped]
  BY DEF StopApp
<1>2. s \in Apps /\ apps[s] # NoRelease
  BY <1>1 DEF Stopping, Apps, Running
<1> QED
  BY <1>1, <1>2, ContainerStep DEF StopApp
-------------------------------------------------------------------------------
\* `up --wait` returns.
LEMMA UpEndsStep ==
  ASSUME IInv, NEW d \in Deployers, UpEnds(d)
  PROVE  IInv'
<1>1. /\ pc[d] \in {"starting", "restoring"} /\ Quiet /\ result' = result
      /\ pc' = [pc EXCEPT ![d] = IF pc[d] = "starting" THEN "canary" ELSE "recanary"]
  BY DEF UpEnds, Goto
<1>2. HolderInv(d) /\ Attempts(d)
  BY <1>1 DEF IInv, Attempts
<1>3. TypeOK'
  BY <1>1, QuietRuns DEF IInv, TypeOK
<1>4. Activated(d) \in Releases
  BY <1>1, <1>2 DEF HolderInv, LocalsInv, Activated, IInv, TypeOK
<1>5. Runs(Activated(d))
  BY <1>4, MarksAssumption DEF UpEnds, Runs, Running, Orphans
<1>6. CASE pc[d] = "starting"
  <2>1. pc'[d] = "canary" /\ Attempts(d)'
    BY <1>1, <1>6 DEF IInv, TypeOK, Attempts
  <2>2. HolderInv(d)'
    BY <1>1, <1>2, <1>5, <1>6, <2>1, QuietRuns
    DEF HolderInv, LocalsInv, OwnInv, SettledInv, ResultInv, Activated
  <2> QED
    BY <1>1, <1>3, <1>6, <2>2, QuietStep
<1>7. CASE pc[d] = "restoring"
  <2>1. pc'[d] = "recanary" /\ Attempts(d)'
    BY <1>1, <1>7 DEF IInv, TypeOK, Attempts
  <2>2. HolderInv(d)'
    BY <1>1, <1>2, <1>5, <1>7, <2>1, QuietRuns
    DEF HolderInv, LocalsInv, OwnInv, SettledInv, ResultInv, Activated
  <2> QED
    BY <1>1, <1>3, <1>7, <2>2, QuietStep
<1> QED
  BY <1>1, <1>6, <1>7

\* The canary passes, for the candidate or for the release that is restored.
LEMMA CanaryPassesStep ==
  ASSUME IInv, NEW d \in Deployers, CanaryPasses(d)
  PROVE  IInv'
<1>1. pc[d] \in {"canary", "recanary"} /\ Quiet
  BY DEF CanaryPasses
<1>2. HolderInv(d) /\ Attempts(d)
  BY <1>1 DEF IInv, Attempts
<1>3. CASE pc[d] = "canary"
  <2>1. pc' = [pc EXCEPT ![d] = "recording"] /\ result' = result
    BY <1>3 DEF CanaryPasses, Goto
  <2>2. pc'[d] = "recording" /\ Attempts(d)' /\ TypeOK'
    BY <1>1, <2>1, QuietRuns DEF IInv, TypeOK, Attempts
  <2>3. HolderInv(d)'
    BY <1>1, <1>2, <1>3, <2>1, <2>2, QuietRuns
    DEF HolderInv, LocalsInv, OwnInv, SettledInv, ResultInv
  <2> QED
    BY <1>1, <1>3, <2>1, <2>2, <2>3, QuietStep
<1>4. CASE pc[d] = "recanary"
  <2>1. /\ pc' = [pc EXCEPT ![d] = "reporting"]
        /\ result' = [result EXCEPT ![d] = "restored"]
    BY <1>4 DEF CanaryPasses, Goto, End
  <2>2. pc'[d] = "reporting" /\ result'[d] = "restored" /\ TypeOK'
    BY <1>1, <2>1, QuietRuns DEF IInv, TypeOK, Results
  <2>3. HolderInv(d)'
    BY <1>1, <1>2, <1>4, <2>2, QuietRuns
    DEF HolderInv, LocalsInv, OwnInv, SettledInv, ResultInv, Attempts
  <2> QED
    BY <1>1, <1>4, <2>1, <2>2, <2>3, QuietStep
<1> QED
  BY <1>1, <1>3, <1>4

\* The release fails: what there is to roll back to is what is on record.
LEMMA ReleaseFailsStep ==
  ASSUME IInv, NEW d \in Deployers, ReleaseFails(d)
  PROVE  IInv'
<1>1. /\ pc[d] \in {"starting", "canary"} /\ Quiet /\ result' = result
      /\ pc' = [pc EXCEPT ![d] = IF previous[d] # NoRelease THEN "restoring"
                                 ELSE "stopping"]
  BY DEF ReleaseFails, Goto
<1>2. HolderInv(d) /\ Attempts(d)
  BY <1>1 DEF IInv, Attempts
<1>3. TypeOK'
  BY <1>1, QuietRuns DEF IInv, TypeOK
<1>4. /\ pc'[d] = IF previous[d] # NoRelease THEN "restoring" ELSE "stopping"
      /\ Attempts(d)'
  BY <1>1 DEF IInv, TypeOK, Attempts
<1>5. HolderInv(d)'
  BY <1>1, <1>2, <1>4, QuietRuns
  DEF HolderInv, LocalsInv, OwnInv, SettledInv, ResultInv
<1> QED
  BY <1>1, <1>3, <1>5, QuietStep

\* `stop` returns.  The model server of a first cpu release cannot be running,
\* because the containers are all its own.
LEMMA StopEndsStep ==
  ASSUME IInv, NEW d \in Deployers, StopEnds(d)
  PROVE  IInv'
<1>1. /\ pc[d] \in {"stopping", "stopping_vllm"} /\ Quiet
      /\ \A s \in Stopping(d) : ~Running(s)
  BY DEF StopEnds
<1>2. HolderInv(d) /\ Attempts(d) /\ record = NoRelease
  BY <1>1 DEF IInv, Attempts, HolderInv, LocalsInv
<1>3. CASE pc[d] = "stopping" /\ target[d].profile = "gpu"
  <2>1. pc' = [pc EXCEPT ![d] = "stopping_vllm"] /\ result' = result
    BY <1>3 DEF StopEnds, Goto
  <2>2. pc'[d] = "stopping_vllm" /\ Attempts(d)' /\ TypeOK'
    BY <1>1, <2>1, QuietRuns DEF IInv, TypeOK, Attempts
  <2>3. \A s \in Apps \ {"vllm"} : ~Running(s)
    BY <1>1, <1>3 DEF Stopping
  <2>4. HolderInv(d)'
    BY <1>1, <1>2, <1>3, <2>1, <2>2, <2>3, QuietRuns
    DEF HolderInv, LocalsInv, OwnInv, SettledInv, ResultInv
  <2> QED
    BY <1>1, <2>1, <2>2, <2>4, QuietStep
<1>4. CASE ~(pc[d] = "stopping" /\ target[d].profile = "gpu")
  <2>1. /\ pc' = [pc EXCEPT ![d] = "reporting"]
        /\ result' = [result EXCEPT ![d] = "stopped"]
    BY <1>4 DEF StopEnds, Goto, End
  <2>2. pc'[d] = "reporting" /\ result'[d] = "stopped" /\ TypeOK'
    BY <1>1, <2>1, QuietRuns DEF IInv, TypeOK, Results
  <2>3. Runs(NoRelease)
    <3>1. CASE pc[d] = "stopping_vllm"
      BY <1>1, <1>2, <3>1 DEF HolderInv, SettledInv, Runs, Stopping
    <3>2. CASE pc[d] = "stopping"
      <4>1. \A s \in Apps \ {"vllm"} : ~Running(s)
        BY <1>1, <3>2 DEF Stopping
      <4>2. ~Running("vllm")
        <5>1. "vllm" \notin AppsOf(target[d])
          BY <1>4, <3>2 DEF AppsOf
        <5>2. apps["vllm"] \notin Releases
          BY <1>2, <5>1 DEF HolderInv, OwnInv, Apps
        <5> QED
          BY <5>2 DEF IInv, TypeOK, Running, Apps
      <4> QED
        BY <4>1, <4>2 DEF Runs
    <3> QED
      BY <1>1, <3>1, <3>2
  <2>4. HolderInv(d)'
    BY <1>1, <1>2, <2>2, <2>3, QuietRuns
    DEF HolderInv, LocalsInv, OwnInv, SettledInv, ResultInv, Attempts
  <2> QED
    BY <1>1, <2>1, <2>2, <2>4, QuietStep
<1> QED
  BY <1>3, <1>4

\* An attempt ends in a way that says nothing of the project.
LEMMA BreakStep ==
  ASSUME IInv, NEW d \in Deployers, RollbackFails(d) \/ Escapes(d) \/ Crash(d)
  PROVE  IInv'
<1>1. PICK l \in {"reporting", "leaving", "dead"} : pc' = [pc EXCEPT ![d] = l]
  BY DEF RollbackFails, Escapes, Crash, Goto
<1>2. pc[d] # "idle" /\ Quiet
  BY DEF RollbackFails, Escapes, Crash
<1>3. pc'[d] = l /\ target'[d] \in Releases
  BY <1>1, <1>2, QuietRuns DEF IInv, TypeOK, HolderInv, LocalsInv
<1>4. /\ l = "reporting" => result'[d] = "attention"
      /\ l = "leaving" => result'[d] = "escaped"
      /\ result' \in [Deployers -> Results]
  BY <1>1, <1>3 DEF RollbackFails, Escapes, Crash, Goto, End, IInv, TypeOK, Results
<1>5. TypeOK'
  BY <1>1, <1>2, <1>4, QuietRuns DEF IInv, TypeOK
<1>6. HolderInv(d)'
  BY <1>3, <1>4 DEF HolderInv, LocalsInv, OwnInv, SettledInv, ResultInv, Attempts
<1> QED
  BY <1>1, <1>2, <1>5, <1>6, QuietStep
-------------------------------------------------------------------------------
LEMMA NextInv == IInv /\ [Next]_vars => IInv'
<1> SUFFICES ASSUME IInv, [Next]_vars PROVE IInv'
  OBVIOUS
<1>1. CASE UNCHANGED vars
  BY <1>1
  DEF vars, files, locals, IInv, TypeOK, LockInv, ProjectInv, HolderInv, LocalsInv,
      OwnInv, SettledInv, ResultInv, Attempts, Runs, Running
<1>2. ASSUME NEW d \in Deployers,
             \/ Excluded(d) \/ (\E rel \in Releases : Lock(d, rel))
             \/ Checks(d) \/ Activation(d) \/ Ending(d)
             \/ CreateDatabase(d) \/ Recreate(d) \/ RemoveOrphan(d) \/ StopApp(d)
             \/ Escapes(d) \/ Crash(d) \/ RemoveStaleLock(d)
      PROVE  IInv'
  <2>1. CASE Excluded(d)
    BY <1>1, <2>1 DEF Excluded
  <2>2. CASE \E rel \in Releases : Lock(d, rel)
    BY <2>2, LockStep
  <2>3. CASE Checks(d)
    BY <2>3, CheckStep, ReportStep DEF Checks
  <2>4. CASE Activation(d)
    BY <2>4, UpEndsStep, CanaryPassesStep, ReleaseFailsStep, StopEndsStep, BreakStep
    DEF Activation
  <2>5. CASE Ending(d)
    BY <2>5, ReportStep, RecordStep, UnlockStep DEF Ending
  <2>6. CASE CreateDatabase(d) \/ Recreate(d) \/ RemoveOrphan(d) \/ StopApp(d)
    BY <2>6, CreateDatabaseStep, RecreateStep, RemoveOrphanStep, StopAppStep
  <2>7. CASE Escapes(d) \/ Crash(d) \/ RemoveStaleLock(d)
    BY <2>7, BreakStep, UnlockStep
  <2> QED
    BY <1>2, <2>1, <2>2, <2>3, <2>4, <2>5, <2>6, <2>7
<1> QED
  BY <1>1, <1>2 DEF Next

\* The inductive invariant holds of every behaviour of Release.
THEOREM Invariance == Spec => []IInv
<1> QED
  BY InitInv, NextInv, PTL DEF Spec

\* The variables of deploy.py keep their types.
THEOREM TypeCorrect == Spec => []TypeOK
<1>1. IInv => TypeOK
  BY DEF IInv
<1> QED
  BY <1>1, Invariance, PTL

\* Two deployers are never at work on the project at once (exclusive_release).
THEOREM DeployersExclude == Spec => []LockInv
<1>1. IInv => LockInv
  BY DEF IInv
<1> QED
  BY <1>1, Invariance, PTL

\* What an attempt reports when it ends is so, for any number of deployers and
\* releases, and whatever interrupted or killed attempts left behind before it.
THEOREM ResultsAreSo == Spec => []ResultsHold
<1>1. IInv => ResultsHold
  BY DEF IInv, HolderInv, ResultInv, ResultsHold
<1> QED
  BY <1>1, Invariance, PTL

\* release writes a record only of what the project runs then, all of it.
THEOREM RecordIsWhatRuns == Spec => RecordsWhatRuns
<1> DEFINE Recording == record' # record => record' # NoRelease /\ Runs(record')
<1>1. IInv /\ [Next]_vars => [Recording]_vars
  <2> SUFFICES ASSUME IInv, Next, record' # record
               PROVE  record' # NoRelease /\ Runs(record')
    OBVIOUS
  <2>1. PICK d \in Deployers : RecordWritten(d)
    BY DEF Next, Excluded, vars, files, Lock, Checks, NotAdopted, Refused,
           PreflightFails, Accepted, Activation, UpEnds, CanaryPasses, ReleaseFails,
           StopEnds, RollbackFails, Ending, ReportWritten, EvidenceWritten, Unlock,
           CreateDatabase, Recreate, RemoveOrphan, StopApp, Escapes, Crash,
           RemoveStaleLock, Quiet
  <2> QED
    BY <2>1, RecordStep, MarksAssumption
<1> QED
  BY <1>1, Invariance, PTL DEF Spec, RecordsWhatRuns

\* No step of any attempt touches somebody else's project, takes a record away or
\* moves the ports of one.
THEOREM ProjectsAreKept == Spec => ProjectsKept
<1> DEFINE Keeping ==
      /\ project = "foreign" => UNCHANGED <<project, record, apps>>
      /\ record # NoRelease =>
           /\ record' # NoRelease /\ record'.ports = record.ports
           /\ \A s \in Apps : apps'[s] \in Releases => apps'[s].ports = record.ports
<1>1. IInv /\ [Next]_vars => [Keeping]_vars
  <2> SUFFICES ASSUME IInv, Next PROVE Keeping
    OBVIOUS
  <2>1. IInv'
    BY NextInv
  <2>2. PICK d \in Deployers :
          \/ UNCHANGED <<project, record, apps>>
          \/ Attempts(d) /\ UNCHANGED record
          \/ RecordWritten(d)
    BY DEF Next, Excluded, vars, files, Lock, Checks, NotAdopted, Refused,
           PreflightFails, Accepted, Activation, UpEnds, CanaryPasses, ReleaseFails,
           StopEnds, RollbackFails, Ending, ReportWritten, EvidenceWritten, Unlock,
           CreateDatabase, Recreate, RemoveOrphan, StopApp, Escapes, Crash,
           RemoveStaleLock, Quiet,
           Attempts
  <2>3. CASE RecordWritten(d)
    <3>1. Attempts(d) /\ record' = target[d] /\ record' \in Releases
      BY <2>3, RecordStep DEF RecordWritten, Attempts
    <3>2. project # "foreign" /\ (record # NoRelease => record'.ports = record.ports)
      BY <3>1 DEF IInv, HolderInv, OwnInv, LocalsInv
    <3> QED
      BY <2>1, <3>1, <3>2, MarksAssumption DEF IInv, ProjectInv
  <2>4. CASE Attempts(d) /\ UNCHANGED record
    BY <2>1, <2>4 DEF IInv, ProjectInv, HolderInv, OwnInv
  <2>5. CASE UNCHANGED <<project, record, apps>>
    BY <2>5 DEF IInv, ProjectInv
  <2> QED
    BY <2>2, <2>3, <2>4, <2>5
<1> QED
  BY <1>1, Invariance, PTL DEF Spec, ProjectsKept
-------------------------------------------------------------------------------
\* The history of MCRelease.

\* The attempt has changed nothing and will not: it is at its checks, or has been
\* turned away.
Untouched(d) ==
  \/ pc[d] = "checking"
  \/ /\ pc[d] = "leaving"
     /\ result[d] \notin {"verified", "restored", "stopped", "attention", "escaped"}

\* What was vouched for stands until an attempt is past its checks.
VouchedInv ==
  vouched /\ (lock = "free" \/ \E d \in Deployers : Untouched(d)) => Runs(record)

\* The end of an attempt is vouched for if it says what is so.
LEMMA VouchedAtEnd ==
  ASSUME IInv, VouchedInv, NEW d \in Deployers, Unlock(d) \/ RemoveStaleLock(d),
         vouched' = IF \E e \in Deployers : lock = e /\ lock' = "free"
                    THEN \E e \in Deployers : lock = e /\ Vouched(e)
                    ELSE vouched,
         vouched'
  PROVE  Runs(record)
<1>1. lock = d /\ lock' = "free"
  BY DEF IInv, LockInv, Unlock, RemoveStaleLock
<1>2. Vouched(d)
  BY <1>1
<1>3. pc[d] = "leaving" /\ result[d] \notin {"attention", "escaped"}
  BY <1>2 DEF Vouched, Unlock, RemoveStaleLock
<1>4. CASE result[d] \in {"verified", "restored", "stopped"}
  BY <1>3, <1>4 DEF IInv, HolderInv, ResultInv
<1>5. CASE result[d] \notin {"verified", "restored", "stopped"}
  BY <1>2, <1>3, <1>5 DEF Vouched, VouchedInv, Untouched
<1> QED
  BY <1>4, <1>5

LEMMA VouchedNext == IInv /\ VouchedInv /\ [HNext]_hvars => VouchedInv'
<1> SUFFICES ASSUME IInv, VouchedInv, [HNext]_hvars, vouched',
                    lock' = "free" \/ \E d \in Deployers : Untouched(d)'
             PROVE  Runs(record)'
  BY DEF VouchedInv
<1>1. CASE UNCHANGED hvars
  BY <1>1 DEF hvars, vars, files, locals, VouchedInv, Untouched, Runs, Running
<1>2. CASE HNext
  <2>1. IInv'
    BY <1>2, NextInv DEF HNext
  <2>2. vouched' = IF \E d \in Deployers : lock = d /\ lock' = "free"
                   THEN \E d \in Deployers : lock = d /\ Vouched(d)
                   ELSE vouched
    BY <1>2 DEF HNext
  <2>3. PICK d \in Deployers :
             \/ Excluded(d) \/ (\E rel \in Releases : Lock(d, rel))
             \/ Checks(d) \/ Activation(d) \/ Ending(d)
             \/ CreateDatabase(d) \/ Recreate(d) \/ RemoveOrphan(d) \/ StopApp(d)
             \/ Escapes(d) \/ Crash(d) \/ RemoveStaleLock(d)
    BY <1>2 DEF HNext, Next
  <2>4. CASE Unlock(d) \/ RemoveStaleLock(d)
    <3>1. Runs(record)
      BY <2>2, <2>4, VouchedAtEnd
    <3> QED
      BY <2>4, <3>1 DEF Unlock, RemoveStaleLock, files, Runs, Running
  <2>5. CASE Excluded(d)
    BY <1>1, <2>2, <2>5
    DEF Excluded, vars, files, locals, VouchedInv, Untouched, Runs, Running,
        LockInv, IInv
  <2>6. CASE \E rel \in Releases : Lock(d, rel)
    <3>1. lock = "free" /\ UNCHANGED <<record, apps>>
      BY <2>6 DEF Lock, files
    <3>2. vouched
      BY <2>2, <3>1, DeployersAssumption
    <3> QED
      BY <3>1, <3>2 DEF VouchedInv, Runs, Running
  <2>7. CASE \/ Checks(d) \/ Activation(d) \/ ReportWritten(d) \/ RecordWritten(d)
             \/ EvidenceWritten(d) \/ CreateDatabase(d) \/ Recreate(d)
             \/ RemoveOrphan(d) \/ StopApp(d) \/ Escapes(d) \/ Crash(d)
    <3>1. pc[d] # "idle" /\ UNCHANGED lock
      BY <2>7
      DEF Checks, NotAdopted, Refused, PreflightFails, Accepted, Activation, UpEnds,
          CanaryPasses, ReleaseFails, StopEnds, RollbackFails, ReportWritten,
          RecordWritten, EvidenceWritten, CreateDatabase, Recreate, RemoveOrphan,
          StopApp, Escapes, Crash, Quiet
    <3>2. lock = d /\ lock' = d /\ vouched
      BY <2>2, <3>1, DeployersAssumption DEF IInv, LockInv
    <3>3. Untouched(d)'
      BY <2>1, <3>2, DeployersAssumption DEF IInv, LockInv, Untouched
    <3>4. NotAdopted(d) \/ Refused(d) \/ PreflightFails(d)
      BY <2>7, <3>3
      DEF Checks, Accepted, Activation, UpEnds, CanaryPasses, ReleaseFails, StopEnds,
          RollbackFails, ReportWritten, RecordWritten, EvidenceWritten,
          CreateDatabase, Recreate, RemoveOrphan, StopApp, Escapes, Crash, Goto, End, Untouched, IInv, TypeOK,
          HolderInv, SettledInv
    <3>5. Untouched(d) /\ UNCHANGED <<record, apps>>
      BY <3>4 DEF NotAdopted, Refused, PreflightFails, Quiet, files, Untouched
    <3> QED
      BY <3>2, <3>5 DEF VouchedInv, Runs, Running
  <2> QED
    BY <2>3, <2>4, <2>5, <2>6, <2>7 DEF Ending
<1> QED
  BY <1>1, <1>2

\* Between attempts the project runs what the record says, as long as the attempts
\* that got beyond their checks ended as deploy.py means them to.
THEOREM RecordRuns == HSpec => []RunsTheRecord
<1>1. HInit => IInv /\ VouchedInv
  BY InitInv DEF HInit, Init, VouchedInv, Runs, Running
<1>2. IInv /\ VouchedInv /\ [HNext]_hvars => IInv' /\ VouchedInv'
  <2>1. [HNext]_hvars => [Next]_vars
    BY DEF HNext, hvars
  <2> QED
    BY <2>1, NextInv, VouchedNext
<1>3. VouchedInv => RunsTheRecord
  BY DEF VouchedInv, RunsTheRecord
<1> QED
  BY <1>1, <1>2, <1>3, PTL DEF HSpec
===============================================================================
