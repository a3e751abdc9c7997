----------------------------- MODULE ArchiveHook -----------------------------
(* The job-completed hook (hooks/archive-job-completed.sh with                *)
(* scripts/lib/archive-common.sh): jobs of one workflow run that end at the   *)
(* same time on the runners of a host copy their workspaces into one archive. *)
(*                                                                            *)
(* A hook makes the directories above its job, claims a job directory by an   *)
(* exclusive mkdir, starts a worker under timeout(1) that copies, counts and  *)
(* publishes, and reports PASS or FAILED from how the worker ended and from   *)
(* what it published.  The manifest is renamed into place last.               *)
(*                                                                            *)
(* The owner, repository, run and attempt directories are one parent.  The    *)
(* signals of timeout(1) reach the worker's whole process group at once.      *)
EXTENDS Naturals, FiniteSets

CONSTANTS
    Hooks,      \* executions of the hook, one per job that ends
    Jobs,       \* sanitized GITHUB_JOB: several matrix jobs may share one
    Suffixed,   \* directory names with runner, time and random suffix
    None

ASSUME NamesAssumption == Jobs \cap Suffixed = {} /\ None \notin Jobs \cup Suffixed

VARIABLES
    pc,         \* where each hook is, or how it ended
    job,        \* its GITHUB_JOB
    key,        \* its JOB_DIR
    worker,     \* its copy and finalize worker
    parent,     \* the parent directory exists
    full,       \* the file system refuses new entries: space, inodes, quota
    store       \* contents of each job directory

hookState == <<pc, job, key, worker>>
hookVars == <<hookState, parent, full, store>>

Names == Jobs \cup Suffixed

JobDir == [made : BOOLEAN, marker : BOOLEAN, stage : {"none", "partial", "whole"},
           quarantine : BOOLEAN, workspace : {"absent", "partial", "complete"},
           hash : BOOLEAN, manifest : BOOLEAN, failed : BOOLEAN]
NoDir == [made |-> FALSE, marker |-> FALSE, stage |-> "none", quarantine |-> FALSE,
          workspace |-> "absent", hash |-> FALSE, manifest |-> FALSE, failed |-> FALSE]

Unclaimed == {"parents", "mkparent", "claim", "retry"}
Claimed == {"lock", "guards", "copying", "failing", "quarantine", "reporting"}
Ended == {"passed", "failed", "killed"}
Working == {"copy", "move", "clear", "hash", "manifest", "exit"}

HookTypeOK ==
    /\ pc \in [Hooks -> {"idle"} \cup Unclaimed \cup Claimed \cup Ended]
    /\ job \in [Hooks -> Jobs \cup {None}]
    /\ key \in [Hooks -> Names \cup {None}]
    /\ worker \in [Hooks -> Working \cup {"none", "ok", "error", "timeout"}]
    /\ parent \in BOOLEAN /\ full \in BOOLEAN
    /\ store \in [Names -> JobDir]
    /\ \A d \in Names : store[d] # NoDir => parent /\ store[d].made
    /\ \A h \in Hooks : pc[h] \in Claimed => key[h] \in Names

HookInit ==
    /\ pc = [h \in Hooks |-> "idle"]
    /\ job = [h \in Hooks |-> None]
    /\ key = [h \in Hooks |-> None]
    /\ worker = [h \in Hooks |-> "none"]
    /\ parent \in BOOLEAN
    /\ full = FALSE
    /\ store = [d \in Names |-> NoDir]

At(h, step) == pc[h] = step
Goto(h, step) == pc' = [pc EXCEPT ![h] = step]
Dir(h) == store[key[h]]

-----------------------------------------------------------------------------
(* The hook up to its worker.                                                 *)

HookStarts(h) ==
    /\ At(h, "idle")
    /\ \E j \in Jobs : job' = [job EXCEPT ![h] = j]
    /\ Goto(h, "parents")
    /\ UNCHANGED <<key, worker, parent, full, store>>

\* A command, the configuration or the identity of the job is missing: there
\* is no job directory yet to leave a failure manifest in.
HookRejects(h) ==
    /\ At(h, "idle")
    /\ Goto(h, "failed")
    /\ UNCHANGED <<job, key, worker, parent, full, store>>

\* grt_ensure_child_dir looks first and makes the directory afterwards.
LookForParent(h) ==
    /\ At(h, "parents")
    /\ Goto(h, IF parent THEN "claim" ELSE "mkparent")
    /\ UNCHANGED <<job, key, worker, parent, full, store>>

MakeParent(h) ==
    /\ At(h, "mkparent")
    /\ ~parent /\ ~full
    /\ parent' = TRUE
    /\ Goto(h, "claim")
    /\ UNCHANGED <<job, key, worker, full, store>>

\* fail_archive LOCAL_ARTIFACT_PATH_CONFLICT, with JOB_DIR still empty.
MakeParentFails(h) ==
    /\ At(h, "mkparent")
    /\ parent \/ full
    /\ Goto(h, "failed")
    /\ UNCHANGED <<job, key, worker, parent, full, store>>

\* mkdir of a job directory succeeds for one hook only.
MkdirParents(d) == parent /\ ~full
MkdirExclusive(d) == parent /\ ~full /\ ~store[d].made

Take(h, d) ==
    /\ MkdirExclusive(d)
    /\ key' = [key EXCEPT ![h] = d]
    /\ store' = [store EXCEPT ![d].made = TRUE]
    /\ Goto(h, "lock")
    /\ UNCHANGED <<job, worker, parent, full>>

ClaimJob(h) == At(h, "claim") /\ Take(h, job[h])

ClaimRefused(h) ==
    /\ At(h, "claim")
    /\ ~MkdirExclusive(job[h])
    /\ Goto(h, "retry")
    /\ UNCHANGED <<job, key, worker, parent, full, store>>

\* while :; do mkdir && break; sleep 0.01; done
ClaimSuffixed(h) == At(h, "retry") /\ \E d \in Suffixed : Take(h, d)

\* The lock file marks the directory as active until the hook removes it.
LockJob(h) ==
    /\ At(h, "lock")
    /\ Dir(h).made /\ ~full
    /\ store' = [store EXCEPT ![key[h]].marker = TRUE]
    /\ Goto(h, "guards")
    /\ UNCHANGED <<job, key, worker, parent, full>>

StartWorker(h) ==
    /\ At(h, "guards")
    /\ Dir(h).made /\ ~full
    /\ store' = [store EXCEPT ![key[h]].stage = "partial"]
    /\ worker' = [worker EXCEPT ![h] = "copy"]
    /\ Goto(h, "copying")
    /\ UNCHANGED <<job, key, parent, full>>

\* Canonicalization, lock file, workspace, disk guard or staging directory.
GuardFails(h) ==
    /\ At(h, "lock") \/ At(h, "guards")
    /\ Goto(h, "failing")
    /\ UNCHANGED <<job, key, worker, parent, full, store>>

-----------------------------------------------------------------------------
(* archive_copy_finalize_worker under timeout(1).                             *)

WorkerGoes(h, from, to) ==
    /\ worker[h] = from
    /\ Dir(h).made
    /\ worker' = [worker EXCEPT ![h] = to]
    /\ UNCHANGED <<pc, job, key, parent, full>>

CopyWorkspace(h) ==
    /\ WorkerGoes(h, "copy", "move")
    /\ store' = [store EXCEPT ![key[h]].stage = "whole"]

MoveStage(h) ==
    /\ WorkerGoes(h, "move", "clear")
    /\ Dir(h).stage # "none"
    /\ store' = [store EXCEPT ![key[h]].stage = "none",
                    ![key[h]].workspace = IF Dir(h).stage = "whole" THEN "complete"
                                                                    ELSE "partial"]

\* Manifest and hash are built under temporary names before this.
ClearFailed(h) ==
    /\ WorkerGoes(h, "clear", "hash")
    /\ store' = [store EXCEPT ![key[h]].failed = FALSE]

PublishManifestFirst(h) ==
    /\ WorkerGoes(h, "hash", "manifest")
    /\ store' = [store EXCEPT ![key[h]].manifest = TRUE]
PublishHash(h) ==
    /\ WorkerGoes(h, "hash", "manifest")
    /\ store' = [store EXCEPT ![key[h]].hash = TRUE]

PublishManifest(h) ==
    /\ WorkerGoes(h, "manifest", "exit")
    /\ store' = [store EXCEPT ![key[h]].manifest = TRUE]

WorkerExits(h) ==
    /\ WorkerGoes(h, "exit", "ok")
    /\ UNCHANGED store

\* rsync, find, jq or mv fails; set -e ends the worker.
WorkerFails(h) ==
    /\ worker[h] \in Working \ {"exit"}
    /\ worker' = [worker EXCEPT ![h] = "error"]
    /\ UNCHANGED <<pc, job, key, parent, full, store>>

\* COPY_TIMEOUT_SECONDS, then KILL after 30 seconds more.
NoTimeout(h) == FALSE
TimeLimit(h) == worker[h] \in Working

WorkerTimesOut(h) ==
    /\ TimeLimit(h)
    /\ worker' = [worker EXCEPT ![h] = "timeout"]
    /\ UNCHANGED <<pc, job, key, parent, full, store>>

-----------------------------------------------------------------------------
(* The hook after its worker.                                                 *)

\* validate_authoritative_pass: a worker that was killed after it published
\* has passed all the same.
PassPublished(d) == store[d].workspace # "absent" /\ store[d].hash /\ store[d].manifest

TimeoutPasses(h) == worker[h] \in {"ok", "timeout"}
WorkerPassed(h) == worker[h] = "ok" \/ PassPublished(key[h])

Conclude(h) ==
    /\ At(h, "copying")
    /\ worker[h] \in {"ok", "error", "timeout"}
    /\ Goto(h, IF WorkerPassed(h) THEN "reporting" ELSE "failing")
    /\ UNCHANGED <<job, key, worker, parent, full, store>>

\* Summary and removal of the lock file cannot turn PASS into failure.
Report(h) ==
    /\ At(h, "reporting")
    /\ Goto(h, "passed")
    /\ \/ UNCHANGED store
       \/ store' = [store EXCEPT ![key[h]].marker = FALSE]
    /\ UNCHANGED <<job, key, worker, parent, full>>

\* fail_archive: the failure manifest is written if that is possible ...
WriteFailure(h) ==
    /\ At(h, "failing")
    /\ \/ UNCHANGED store
       \/ /\ Dir(h).made /\ ~full
          /\ store' = [store EXCEPT ![key[h]].failed = TRUE]
    /\ Goto(h, "quarantine")
    /\ UNCHANGED <<job, key, worker, parent, full>>

\* ... and the staging directory is set aside.
QuarantineStage(h) ==
    /\ At(h, "quarantine")
    /\ \/ UNCHANGED store
       \/ /\ Dir(h).stage # "none"
          /\ store' = [store EXCEPT ![key[h]].stage = "none", ![key[h]].quarantine = TRUE]
    /\ Goto(h, "failed")
    /\ UNCHANGED <<job, key, worker, parent, full>>

\* The runner cancels the job: the hook dies, its worker with it or not.
HookKilled(h) ==
    /\ pc[h] \in Unclaimed \cup Claimed
    /\ Goto(h, "killed")
    /\ worker' \in {worker, [worker EXCEPT ![h] = IF @ \in Working THEN "error" ELSE @]}
    /\ UNCHANGED <<job, key, parent, full, store>>

SpaceChanges ==
    /\ full' = ~full
    /\ UNCHANGED <<hookState, parent, store>>

HookStep(h) ==
    \/ LookForParent(h) \/ MakeParent(h) \/ MakeParentFails(h)
    \/ ClaimJob(h) \/ ClaimRefused(h) \/ ClaimSuffixed(h)
    \/ LockJob(h) \/ StartWorker(h) \/ GuardFails(h)
    \/ Conclude(h) \/ Report(h) \/ WriteFailure(h) \/ QuarantineStage(h)

WorkerStep(h) ==
    \/ CopyWorkspace(h) \/ MoveStage(h) \/ ClearFailed(h)
    \/ PublishHash(h) \/ PublishManifest(h) \/ WorkerExits(h) \/ WorkerFails(h)

HookNext ==
    \/ \E h \in Hooks : \/ HookStarts(h) \/ HookRejects(h)
                        \/ HookStep(h) \/ WorkerStep(h) \/ WorkerTimesOut(h)
                        \/ HookKilled(h)
    \/ SpaceChanges

\* Shell and timeout(1) go on; rsync may hang for ever, and the file system
\* may stay full for ever.
HookFairness ==
    \A h \in Hooks : WF_hookVars(HookStep(h)) /\ WF_hookVars(WorkerTimesOut(h))

HookSpec == HookInit /\ [][HookNext]_hookVars /\ HookFairness

-----------------------------------------------------------------------------
(* What the archive promises.                                                 *)

\* "A PASS manifest is authoritative and may only be written after archive
\* completion": with it come the whole workspace and the matching hash, and
\* it never stands beside a failure manifest.
PassIsComplete ==
    \A d \in Names : store[d].manifest =>
        /\ store[d].workspace = "complete" /\ store[d].hash /\ store[d].stage = "none"
        /\ ~store[d].failed

\* A published archive is not touched again: not by a second job of the same
\* name, nor by the hook's own error handling.
PassImmutable ==
    [][\A d \in Names : store[d].manifest =>
          store'[d] = [store[d] EXCEPT !.marker = store'[d].marker]]_hookVars

\* What a reader of the archive finds in a job directory, and what the runner
\* hears of a hook.
Content(d) ==
    IF ~store[d].manifest THEN "none"
    ELSE IF store[d].workspace = "complete" /\ store[d].hash /\ ~store[d].failed THEN "pass"
    ELSE "broken"

Heard(h) ==
    IF pc[h] = "killed" THEN "lost" ELSE IF pc[h] \in Ended THEN pc[h] ELSE "none"

Archive == INSTANCE WriteOnceArchive WITH
    Writers <- Hooks, Places <- Names, place <- key,
    content <- [d \in Names |-> Content(d)], report <- [h \in Hooks |-> Heard(h)]

\* "same logical job collision": whatever hooks race for a name and whichever
\* of them or of their workers die, each job directory belongs to one of them
\* and is written once, and what their exit status says of it is true.
ImplementsArchive == Archive!ArchiveSpec

\* The exit status tells the truth: a hook that passed has published, and one
\* that failed has not and never will.
ExitTellsTruth ==
    \A h \in Hooks :
        /\ pc[h] = "passed" => Dir(h).manifest
        /\ pc[h] = "failed" /\ key[h] # None => ~Dir(h).manifest

\* "Hook has a finite configured timeout": once it has claimed its directory,
\* a hook ends, however long the copy hangs.
ClaimedHookEnds == \A h \in Hooks : pc[h] \in Claimed ~> pc[h] \in Ended

-----------------------------------------------------------------------------
(* What the specification says and the code does not do.                      *)

\* "Archive writes must therefore be concurrency-safe" (archive spec 38): with
\* room on the disk no hook fails before it could claim a directory.
ConcurrentJobsArchive ==
    [][\A h \in Hooks : ~full /\ pc[h] \in Unclaimed => pc'[h] # "failed"]_hookVars
==============================================================================
