# Verification of github-runner-tools

The repository manages self-hosted GitHub Actions runners on one host: scripts
that create and remove runners, a root-owned ledger that records how far each
of these operations came, a Web console whose requests a root Executor carries
out, hooks that archive the workspace of every finished job, a migration of
GitHub's artifacts into the same archive, an operational log, and a unified
installer. What is hard about it is what happens *between* steps: a script dies
after GitHub accepted its request, a client times out while its mutation is
still queued, two jobs end at the same moment, a writer is killed between two
files.

This directory holds TLA+ modules of that behaviour, configurations that check
them with TLC, and proofs that TLAPS checks for every value of the constants.
All paths below are relative to `src/`.

## 1. Inventory

### Lifecycle ledger — `web/runner_lifecycle_authority.py`

*State*: four stores of JSON records under a root-owned directory — create
state, remove state, attestations, Unit attestations — keyed by (slot digest,
instance token), and a pointer `active-instances` from the slot to the current
instance. A slot is a (repository, runner name, runner directory) triple.
*Operations*: `create_stage`, `normalize_new_registration`,
`create_attestation`, `verify_service_install_provenance`,
`create_unit_attestation`, `remove_stage` (BEGIN, CONFIRM_REMOTE_REMOVED,
COMPLETE, with `_adopt_secure_legacy_remove` inside BEGIN) and
`reconcile_incomplete_create_stage`.
*Interactions*: called by the scripts at a terminal, and by the Executor on
behalf of the CLI it spawned; always under the host mutation lock. It inspects
the runner directory, the registration files, `.service` and the Unit.
*Hard*: two publishes in one operation with a crash between them; a disk that
changes between any two calls; identifiers reused by file system and GitHub.
*Correct when*: at most one cycle of a slot is open; every record is bound to
one directory and one registration; closed cycles and unknown outcomes are
immutable; a reopened slot starts in a new directory.

### Create, Remove, reconciliation, recovery — `scripts/register-runner.sh`, `scripts/remove-runner.sh`

*State*: the runner directory, `.runner`/`.credentials`, `.service` (or its
quarantined form), the systemd Unit, the service process, `mutation.lock`, and
the registration at GitHub. The scripts themselves keep nothing durable.
*Operations*: Create; Remove; Remove `--reconcile-incomplete`; Remove
`--recover-local`. Create and Remove exist in a terminal variant and in one
where service operations are private requests to the Executor.
*Interactions*: official `config.sh` and `svc.sh`, systemd, GitHub, the ledger,
`scripts/web-service-record.py`, `scripts/web-runner-cleanup.py`.
*Hard*: a request to GitHub of unknown outcome; SIGKILL and power loss between
any two steps; EXIT traps that delete; a listener that deletes `.runner` by
itself; an administrator who deletes the runner at GitHub.
*Correct when*: no registration is orphaned or made twice; nothing is deleted
while it may be registered; REMOVE_COMPLETE is written over three facts that
hold together.

### Root Executor and its client — `web/v2_executor.py`, `v2_executor_client.py`, `v2_mutation.py`, `v2_event_loop.py`, `v2_cli_spawn.py`, `v2_closeout.py`, `v2_failure.py`, `v2_remove_guard.py`

*State*: a listening Unix socket with a backlog of 8, at most one connection
being served, the flock, the CLI process group, a deadline.
*Operations*: Status, Create, Remove; spawn and pump of the CLI; judgement of
its outcome; reply.
*Hard*: clients that give up while their request stays queued; process groups
that outlive their leader; the Executor's own death in a mutation; judging an
outcome from a ledger that others wrote too; errors that leave the pump and
are answered like requests that never began.
*Correct when*: one mutation at a time; a definitive failure and a success are
both true; the lock always comes back; retries never register twice.

### Private privileged protocol — `web/v2_privileged.py`, `v2_binding.py`, `executor_runtime.py`, `v2_executor_contract.py`, `v2_executor_transport.py`

Stateless validation of frames and requests plus the effects on Unit and
service that the two models above contain as steps.

### Unit installer — `web/v2_unit_installer.py`

Writes the wrapper and the service Unit by exclusive links, enables and starts
the service. A failure removes its temporary files only: a wrapper or Unit that
was published stays, and a retry is refused (`runner_service_entrypoint_invalid`,
`unit_target_exists`). One step of RunnerLifecycle (`InstallUnit`).

### Archive hook and retention — `hooks/archive-job-completed.sh`, `scripts/lib/archive-common.sh`, `scripts/cleanup-local-artifacts.sh`

*State*: per job directory a lock file, staging, quarantine, workspace, hash,
PASS manifest, failure manifest; the parents above it.
*Hard*: hooks of jobs that end together, `timeout(1)` that fires after
publication, full disks, cleanup beside a re-run attempt.
*Correct when*: PASS is complete and never touched again; each job has its own
directory; the exit status tells the truth; retention takes nothing recent.

### Fresh installation — `scripts/fresh-install.sh`, `install-state-validator.py`, `install-auth-recovery.py`

*State*: nine stages in `install-state.json`, the managed objects (trees, files,
units, user, services), the administrator's secret in a journal and in the
published credential.
*Operations*: one, a run, which is started again after a failure.
*Interactions*: the Executor and the Web are up before the installation is
complete, and a runner may be created then.
*Hard*: runs that die between an effect and its stage, or inside an effect; a
host that was rebooted or altered between two runs; a password that is typed
once and published by a later run.
*Correct when*: completion is recorded over proven objects only; nothing
foreign or torn is overwritten; one secret; repeating the command completes.

### Web sessions and confirmations — `web/app.py`

*State*: in the memory of one process, shared by the threads of a
ThreadingHTTPServer without a lock: the sessions, the one-time confirmations
inside each session, and the attempts of the login limiter.
*Operations*: `prune` and `_session` at the beginning of every request; login,
logout; `/remove/prepare` makes a confirmation and shows it on a page,
`/remove/confirm` consumes it, looks at the host again and sends the Remove.
*Interactions*: browsers that keep cookies and pages for ever; the Executor,
which answers Status and carries out the Remove (ExecutorMutation).
*Hard*: two threads between any two accesses of the tables; a thread that
holds a session another one has dropped; pages older than a restart; a runner
that is replaced between its page and the click.
*Correct when*: a confirmation is used once, for the runner it showed; a
session that ended stays ended; nobody is locked out without having tried.

### GitHub artifact migration — `scripts/migrate-github-artifacts.sh`

*State*: per artifact a directory with a payload and a manifest in the archive,
and the artifact at GitHub.
*Operations*: one, in three modes (download, verify, delete): list, download
and verify into a staging directory, mkdir, place, write the manifest, DELETE
at GitHub, look again, rewrite the manifest.
*Hard*: a run that dies between any two of these steps, or runs beside another
one; a DELETE whose answer is lost; a later run that finds the rests.
*Correct when*: nothing is deleted at GitHub that is not safe in the archive;
manifests are true; no run touches the verified copy of another.

### Operational logger — `scripts/cli-operational-logger.py` and `grt_log` of the scripts

*State*: one active file and several rotated ones below a lock.
*Operations*: append, with maintenance before (rotation, expiry by age,
eviction by size); Create, Remove and Status call it, and the first two may not
act before the record of their beginning is written.
*Hard*: a call that dies between any two steps, or inside a write; limits that
hold in every state between; a log that is too full to write to.
*Correct when*: the limits hold and never stop a call; only the oldest records
go; a damaged tail stays as it is; what acted was logged.

### Not modelled, and why

* Inventory and status (`web/v2_inventory.py`, `v2_status.py`,
  `scripts/status-runners.sh`) change no state.
* Code provenance, identity drop, the token descriptor and the PTY adapter
  (`web/v2_code_provenance.py`, `v2_cli_launcher.py`, `identity_drop.py`,
  `v2_token_fd.py`, `pty_token_adapter.py`) are straight sequences of system
  calls of one process; what their failure does to others is `SpawnFails` and
  `CliFails` of ExecutorMutation.
* Archive setup, LAN installation, release bootstrap and release building are
  one-shot administration; they write configuration and keep no state between
  steps.
* The logging updater (`scripts/update-cli-operational-logging-v2.sh`): its
  list of files (line 96) names `web/dispatcher.py`, which the repository does
  not have, so that every run exits at line 104 before it has changed anything.
  Its rollback is code no run reaches.
* Two runs of the installer at once, power failures that lose data already
  written (the scripts fsync only the ledger, the log and the installer's
  files), and `cleanup-local-artifacts.sh` beside a migration.

## 2. Plan

| Order | Module | Of | Status |
|---|---|---|---|
| 1 | `RunnerSlot` | what the ledger promises, abstractly | done |
| 2 | `LifecycleAuthority` | the ledger; implements RunnerSlot | done, checked and proved |
| 3 | `RunnerLifecycle` (EXTENDS LifecycleAuthority) | scripts, host and GitHub over the ledger | done, checked and proved |
| 4 | `ExecutorMutation` (implements `MutationService`) | Executor, clients, CLI process group, operator | done, checked; safety proved |
| 5 | `ArchiveHook` (implements `WriteOnceArchive`), `ArchiveRetention` (EXTENDS ArchiveHook) | hooks; cleanup beside them | done, checked; proved |
| 6 | `FreshInstall` | installer, crash and resume | done, checked; safety proved |
| 7 | `WebSession` (implements `OneTimeConsent`), `ArtifactMigration` (implements `VerifiedMove`), `OperationalLog` (implements `WriteAheadLog`) | see above | done, checked and proved |
| 8 | `LifecycleAuthorityProofs`, `RunnerLifecycleProofs`, `ExecutorMutationProofs`, `ArchiveHookProofs`, `FreshInstallProofs`, `WebSessionProofs`, `ArtifactMigrationProofs`, `OperationalLogProofs` | the safety of the module each is named for, for every value of its constants | done |

A runner slot is independent of every other: record names start with a digest
of its triple, and the host lock is shared. Hence one slot per model.

## 3. The modules

### RunnerSlot and LifecycleAuthority

`active`, `create`, `remove`, `attestation`, `unitAttested` are the five
stores. Each `_publish` (temporary file, fsync, rename or link, fsync of the
directory) is atomic, and an operation that publishes once is one action.
`create_stage(PRE_REGISTRATION)`, the adoption of a legacy runner and
RECONCILE_COMPLETE publish twice, hence two actions each, with `pending` in
between and `CrashBetweenPublishes` enabled there. The disk (`dir`,
`registration`, `service`, `unit`, `wrapper`) is in the hands of an environment
that may change any of it between any two calls: what holds in this model does
not depend on the scripts being right. Inodes are reused freely.

Digests are collision free: a digest of a file is modelled by the file. A fresh
`secrets.token_hex(16)` is a token without a record (`Fresh`). Repeating the
current stage of `create_stage` writes nothing and is a stutter.

`RunnerSlot` knows a phase, a holder and the set of cycles spent. The mapping
(`SlotPhase`, `active`, `SlotSpent`) makes every publish a step of the abstract
slot or a stutter; a crash between two publishes is always a stutter.

### RunnerLifecycle

`script[p]` is the operation and step of the process at a terminal ("cli") and
of the one under the Executor ("web"); their steps follow the scripts line by
line, and every ledger call is the action of LifecycleAuthority conjoined with
the step of the script. `Die` ends a script with its EXIT trap, `Crash` without;
a request to GitHub that was on its way moves to `inflight` and may land at any
later time, or never. `remote` and `owner` are GitHub. `LegacyHost` starts with
a runner older than the ledger. The official tools are modelled from how the
scripts use them and from their published behaviour: `svc.sh uninstall` stops,
disables, deletes the Unit and then `.service`; `config.sh remove` refuses while
`.service` exists.

Abstracted: token input, release lookup, download, digest and extraction are
one step; logging and diagnostics are left out; the wrapper does not change
between two steps of a script (in LifecycleAuthority it does).

### ExecutorMutation

`client[c]` is one Web request thread, `queue` the backlog, `phase` what the
single-threaded Executor does, `leader` and `group` the CLI and what is alive
of its process group, `journal` the ledger reduced to who opened the active
cycle, its stage and whether a Remove closed it. Time is counted in ticks, and
only where the code waits: `Deadline` of the pump, `Patience` of the client.
`ExecutorDies` drops flock and connections and leaves the CLI running, until
`ExecutorRestarts` (systemd empties the control group first). `OperatorBegins`
and `OperatorEnds` are a mutation at a terminal, under the same lock.

`MutationService` is what the Web may conclude from a request: it is carried out
at most once, perhaps after its sender has left, never beside another mutation;
"done" and "nothing" are true, and a sender that lost its request may conclude
nothing. It knows no queue, process group, stage or time. In the mapping a
request is `Taken` once it is under the lock, answered for or dropped; the `Turn`
is that of the holder of the lock; and `config.sh` (`Ask`) may still come after
the turn, which is what the code allows.

A Web Remove is answered by the lock, by an error of its frame or by
`RejectRemove`, and never spawned, because that is what the code does (finding
`executor_remove`); what a Remove would do is in RunnerLifecycle.

Two answers leave open what became of a request (`LeavesOpen`):
UNKNOWN_RECONCILIATION_REQUIRED and a bare `rejected`. `service_one` turns every
OSError into the latter, without an outcome. It is the answer to frames, peers
and locks that fail before anything was done (`RejectRequest`), but also to a
pump that an error ended: when the CLI is killed with a private reply unread
(`CliCutOff`), the control socket is reset and `control.recv`, which forgives only
BlockingIOError, raises, unless the leader is reaped first. If it raises, the
answer is `rejected` (`PumpRaises`), even with `config.sh` behind it; if not, it is
outcome_unknown (`PumpReturns`, `Judge`). So a client may conclude nothing
from `rejected`, and that is how `Meaning` and `Definitive` read it, and how the Web
page words it (`v2_failure_text`: "was not confirmed. Review lifecycle state
before retrying."). `DefinitiveFailureIsTrue` is about the other errors.
Two answers of `execute_mutation` cannot occur behind a decoded frame and a root
Executor (`invalid_mutation`, `executor_configuration_rejected`), and
`response_too_large` is one of Status, which changes nothing.

The judgement takes the ledger to be readable: `diagnostic` passes over an error
of the ledger and would call a failure FAILED_PRE_EXTERNAL
(`web/v2_failure.py:56`).

### ArchiveHook and ArchiveRetention

`pc[h]` is a hook, `worker[h]` its copy worker, `store[d]` the content of a job
directory. Parents (owner, repository, run, attempt) are one directory.
`grt_ensure_child_dir` is two steps (`LookForParent`, `MakeParent`) because it
tests and then makes. Assumed: `timeout(1)` signals the process group of the
worker, so a timed-out worker does nothing more; a *killed* hook, in contrast,
may leave its worker running. `ArchiveRetention` adds the cleanup script with
its three looks at a run and a deletion that takes entries one by one. `.keep`
and dry-run change nothing and are left out.

`WriteOnceArchive` is what the hooks promise: places that are claimed once and
by one writer, published whole or not at all, and reports that are true. A
place is a job directory (`key`), its content is "pass" when there is a manifest
beside a complete workspace, a hash and no `.failed`, and "broken", a value the
abstract archive never takes, when a manifest stands beside anything less. A
hook that passed or failed has reported that; of one that was killed nothing is
heard ("lost"), and its worker may still publish.

### FreshInstall

`Plan` is the script as a sequence of objects and stages, `run` the position of
the run in it, and `Covered` is `stage_at_least`: a covered object is verified,
another one is kept if it is as expected, made if it is absent, and refused
otherwise. `object[o]` is "torn" while it is written and stays so if the run
dies in the write; a tree of files also falls back to "absent" when all its
files are whole and some are missing. The state file is written under a
temporary name and renamed (`WriteState`, `RenameState`). `damage` records what
no retry has to mend: an administrator who alters, deletes or adds something,
a reboot, a runner created early. One run at a time: nothing in the script
keeps two apart, and two of them are not modelled.

`Reboot` rests on two facts of the platform: `/run/lock` is empty after it, and
systemd does not start a unit whose `ReadWritePaths` names a missing directory.
Nothing in the repository makes `/run/lock/github-runner-tools` at boot, so
Executor and Web of a complete installation stay down after a reboot, which
section 14 of the installation spec, steps 12 and 13, excludes. The model takes
this as the effect of the action and states no property of it.

### WebSession

`req[r]` is a request thread, `listed` the keys of SESSIONS, `session[s]` the
object, which a thread may hold after it was dropped, `page[n]` what the page
with nonce `n` showed. One access of a table is one step. `prune` copies the
attempts in one step and stores the copy in another, which is where another
thread's attempt can be lost or an old one come back; if a table changes under
its iteration the thread dies (`PruneRaises`). The handler is chosen after the
session check, where path and form begin to matter. Of a dropped session only
the confirmations are remembered (`DropSessions`): nothing reads its times
again. `/recovery/prepare` is left out, because the Executor's Status offers no
runner for recovery. `sent`, `lastUse` and `tries` are history variables of the
properties. CSRF tokens and passwords are data: `Answer` and `WrongPassword`
are their refusals.

`OneTimeConsent` is the promise of a confirmation: offered once to a session for
a runner, claimed at most once and in time, acted upon at most once after that,
or void for good. `StageOf` reads it off the tables and the threads: a nonce is
offered while any session object, listed or dropped, holds it, claimed while a
thread is between the pop and the Remove, used when a Remove was sent, and void
when none of this is so, after a rejection, a failed recheck or a restart.

### ArtifactMigration

`proc[p]` is a run and its artifact, `dest`, `payload` and `manifest` the
archive. `set -e` ends a run at the first failure, so each step may be its last
(`Abort`). "torn" is a manifest that the shell has opened and jq has not
written. A directory without a verified manifest, a NOT_REQUESTED one included,
stops every later run with this artifact: the code asks for a person there, and
so does `Inspect`. Across file systems `mv` unlinks before it copies, so that a
run that dies there leaves no manifest of an artifact already deleted
(`RemoveManifest`). What GitHub stores is "good", anything else that unzips
"other": only a digest tells them apart.

`VerifiedMove` is the promise for one artifact: copied once, certified when the
copy is sound, deleted when it is certified, concluded when it is gone. A
payload is a copy (`CopyOf`: sound unless a digest disagrees), a PASS manifest a
certificate, DELETED its conclusion, and any other manifest none (`ClaimOf`).
`Lapse` is what `RemoveManifest` makes necessary: a certificate may be lost, but
not while the artifact is at GitHub.

### OperationalLog

A file is the interval of the records it holds, its size and its stamp.
`script[w]` is a script and the step of the logger process it waits for. Sizes
keep the order MaxRecord <= MaxFile and MaxFile + MaxRecord <= MaxTotal of the
code's constants. A write that comes to a part of the record leaves `torn`, and
every later call refuses. The clock does not run backwards, so that the check
for stamps in the future is not reached.

`WriteAheadLog` is what the scripts rely on: one sequence of records without a
gap, of which the oldest go, one writer at a time, nobody who acts before the
record of its beginning is acknowledged, and nothing that changes once a record
is damaged. It knows no files, sizes, times or lock. The mapping takes its first
record from the oldest file that holds one (`First`), its last from the active
file, its writer from the call that is past the check of the log (`Writing`);
rotation, the creation of a file and every look at the files are stutters.

## 4. The runs

| Run | Bounds; distinct states | Shows |
|---|---|---|
| `ledger` | 3 instances, 2 inodes, 1 runner id, 1 wrapper; 549 060 | the ledger's invariants and action properties, and that it implements RunnerSlot |
| `lifecycle` | 3 cycles, 2 inodes, 3 runner ids, 2 processes; 48 247 | no orphan, no double registration, no deletion of what is registered, with late requests and crashes |
| `executor` | 2 clients, deadline 2, patience 3 and 1, backlog 1; 254 798 | truth of failures and successes, no second registration, requests carried out once and one at a time (MutationService), liveness of lock and backlog |
| `archive` | 2 hooks, 2 job names, 1 suffix; 253 444 | directories claimed and written once, reports that are true (WriteOnceArchive), integrity of PASS, finite duration after the claim |
| `retention` | 2 hooks, 1 job name, 1 suffix; 210 580 | the cleanup takes no PASS that was recent when it judged the run |
| `install` | 2 secrets, 2 interruptions, 1 alteration; 59 797 | repeated runs complete, over proven objects, without overwriting anything and with one secret |
| `session` | 2 threads, 2 session ids, 1 nonce, 2 runners, lifetimes 1 and 2, window 1, time up to 3; 1 930 402 | one claim and one Remove for a confirmation (OneTimeConsent), of the runner it showed; no session after its end; no lockout without attempts |
| `migration` | 2 artifacts (one with a digest), 2 runs at a time, 4 started; 559 707 | what a run deleted at GitHub has a sound copy, manifests are true, and each artifact is copied once, certified and only then deleted (VerifiedMove), whoever dies or runs beside it |
| `log` | 2 scripts, file limit 3, total limit 6, record limit 2, retention 1, time up to 3, 5 records; 1 446 230 | the limits hold, only the oldest records go, damaged logs stay, the files are a write-ahead log |

Why the bounds are enough: three instances give a closed cycle, an open one and
an orphan of a crash at the same time, which is as many roles as the code
distinguishes; two inodes give "the same directory" and "another one". With one
runner id and one wrapper the mismatch with an attestation is still reached,
since a registration may name no id. A Unit file that is neither absent nor the
attested kind enables no operation of the ledger, so `ledger` has none
(`OtherUnits = {}`) and `lifecycle` has one. Three runner ids let a late request
of a first cycle land while a second one is registered. Two clients make one
request wait behind another, and a backlog of one makes a third refused. The
deadline and patience values keep the order 20 < 900 < 930 of the code. Two
hooks with two names reach same-name and different-name races, and one suffixed
name lets each of two colliding hooks find a place. Two interruptions let a run
die, be resumed and die again at any two points of the plan, around any one
alteration. Two threads, of one session or of two, meet between any two accesses
of the tables, and one nonce is offered, claimed, dropped in a restart and
submitted again after it; the lifetimes keep the order of the code (a confirmation and an
idle session end before the absolute limit does). Two migrations work on the
same artifact, with and without a digest to check it by, and two more find what
they left. Sizes of the log keep the order of the code's constants, five records
fill every file once and evict the first one.

`CHECK_DEADLOCK FALSE` stands where the system stops by nature: tokens of
instances or GitHub identifiers of the bounded model run out (`ledger`,
`lifecycle`, and `reconcile_wedge` of the same model), the installation is
complete or refused for good (`install`), or all runs that may be started have
ended (`migration`). All other runs check for deadlock. Symmetry is used in
`ledger`, `lifecycle`, `session` and `migration`, none of which has a liveness
property.

### Fairness

* ExecutorMutation: weak fairness of the accept loop, of the deadline once it
  has passed, of the restart by systemd, of time, and of a client's timeout.
  Nothing is assumed of the CLI, of `config.sh` or of the operator: the CLI may
  hang for ever, and `LockReleased` holds because the pump has its deadline.
* ArchiveHook: weak fairness of each hook (a shell goes on) and of
  `timeout(1)`; none of the worker (rsync may hang) nor of the disk.
* FreshInstall: a run goes on, and somebody repeats the command until it has
  succeeded. Nothing is assumed of administrators or runners.
* FairLifecycleSpec adds fairness of scripts and of operators who keep trying;
  only `reconcile_wedge` uses it, to show what even that cannot reach.
* WebSession, ArtifactMigration and OperationalLog state no fairness: a browser
  need not come back, a migration need not be repeated, and a script may die.

### Findings

Runs that TLC is expected to find violated, each for a sentence of the
repository's own documents or comments:

| Run | What the code does |
|---|---|
| `reconcile_wedge` | a writer that dies between REMOVE_COMPLETE and the aborted Create record wedges the slot |
| `executor_remove` | every Web Remove is refused: the guard calls a function with a parameter it does not have |
| `concurrent_jobs` | a hook that loses the race for a parent directory archives nothing |

The models also contain, without a run of their own: `--recover-local` deletes
the evidence (`.service`) its own final check needs, and then keeps the
directory (`RecoverVerify` of RunnerLifecycle); an error of the control socket after
`config.sh` was started is answered `rejected`, without outcome or correlation,
although `docs/specs/20261010-web-management-v2-cli-first-simplification-spec.md:184`
has the page show "COMPLETE, FAILED_PRE_EXTERNAL, or
UNKNOWN_RECONCILIATION_REQUIRED" (`PumpRaises` of ExecutorMutation, above);
the Executor gives its lock back while `config.sh` of the CLI's process group may be alive; an installation completes beside
an unknown file, because the loop that looks for one never runs
(`scripts/fresh-install.sh:158`, `Crowd` of FreshInstall); a terminal Create takes
`svc.sh status` for health, which answers for the Unit file (`CheckHealth`,
`scripts/register-runner.sh:688`); a partial `svc.sh uninstall` leaves
`.service`, and a terminal Remove can then only die (`SvcUninstallPartial`);
a crash during `config.sh` leaves a registered runner at PRE_REGISTRATION
(`Crash` at "register"); a request that arrives while the Executor is busy
waits instead of being refused (`SendRequest`), and when its client gives up it
is executed nevertheless (`GiveUp`); a hook whose `mkdir` fails for lack of
space retries for ever (`pc[h] = "claim"` while `full`); the stage named in a failure
may be that of an older cycle (`RecordFound`); cleanup deletes the directory of
a hook that starts after the look for active markers (`LookForActive` followed
by `ClaimJob`).

## 5. Proofs

Each proof module is about the module it is named for, and holds for any sets
and any numbers, under the named assumptions of that module: special values
(`None`, "legacy", "untrusted", "cli") are no members of the sets, times and
sizes are naturals in the order the code's constants have. All follow one plan.
The properties are seldom inductive as they stand, so an invariant says what
each process may rely on at the step it has reached; `Init` establishes it,
every action keeps it (one lemma or case per action), and the properties of the
runs follow from it, action properties by looking at the actions that could
disturb them. Type correctness is the first conjunct of each invariant.

Refinements are proved in the same way, from that invariant: initial states map
to initial states, and each step to one of the abstract specification or to
none. They are `Refinement` and `ScriptsImplementSlot` (RunnerSlot),
`ExecutorIsService` (MutationService), `HooksWriteOnce` (WriteOnceArchive),
`ConfirmationsAreConsents` (OneTimeConsent), `MigrationIsMove` (VerifiedMove)
and `LogIsWriteAhead` (WriteAheadLog). Each abstract specification is a page
without processes, crashes or files, and its mapping reads the abstract state
off the concrete one, without history variables of its own.

* **LifecycleAuthorityProofs**. `IInv == TypeOK /\ RecordsInv /\ PointerInv`.
  That one cycle is open depends on the pointer moving only from a closed cycle
  *at the second publish*, when the first one checked it: `PendingConsistent`
  says that the condition survives in between. That records are bound depends on
  what was recorded before what (`RecordsInOrder`), that adoption finds no
  earlier cycle on `NoCycleBeforePointer`. From it the properties of `ledger`,
  the two halves of `HistoryImmutable` among them (closed cycles; Create records
  that are UNKNOWN, also `UnknownSticks`), and `SlotNotStolen`, which is proved
  only. `Refinement`: the ledger implements RunnerSlot.
* **RunnerLifecycleProofs**. `LInv` adds to the ledger's invariant what the step
  of a script says of ledger, host and GitHub together: one script under the
  lock (`ScriptInv`); what stands in the directory, and that `.service` stands
  beside the registration that exists (`HostInv`); that the attestation or the
  Remove record names every registration a cycle asked for, and that a request
  of a dead Create belongs to a cycle still at PRE_REGISTRATION, the only one
  that can wait (`GitHubInv`); and how far Create, Remove and recovery are. The
  two halves need each other: a late registration is harmless because no script
  is past PRE_REGISTRATION, and none is because an open cycle blocks the slot.
  From it all properties of `lifecycle`, and `ScriptsImplementSlot`: the scripts,
  too, implement RunnerSlot.
* **ExecutorMutationProofs**. `EInv` in three layers: `Base`, who is in the queue
  and who holds the lock; `Cycle`, whose cycle the journal, the CLI and the
  replies speak of; `Prompt`, how long a client that is first has waited. The
  last one is arithmetic over deadline and patience. From it the safety
  properties of `executor`, and `LedgerIsLocked`. `ExecutorIsService`: every step is
  one of `MutationService` or none, for which `Innocent` adds that no journal is of a
  Status or of a Create that was answered definitively. "Definitively" excludes
  what `LeavesOpen` names: `Truthful` promises nothing of a bare `rejected`.
* **ArchiveHookProofs**. `HInv`: a hook without a directory has no worker
  (`Waiting`); for one that owns a directory, its position and that of its
  worker say what is in it (`Owning`). The hard case is a hook that was killed
  while its worker goes on. From it the safety properties of `archive` and
  `ExclusiveDirectory`. `HooksWriteOnce`: every step is one of `WriteOnceArchive` or
  none. Of the steps of a hook and its worker only the claim, the manifest and
  the end of the hook can be seen there; that the end tells the truth needs what
  the worker can still do, which `Owning` says.
  `RecentPassKept` of ArchiveRetention is proved here as well: what was judged is
  past the cutoff as long as it is remembered.
* **FreshInstallProofs**. `IInv`: what a run has passed is exact unless the host
  was altered since, and what it is writing was absent. The lemmas on the plan
  (`RankGrows`, `PlanIsWhole`) say that stages grow along it and that every
  object is on it. From it the three safety properties of `install`.
  `RecordHolds` adds what the state file says of the host between runs: the
  objects of a recorded stage are there, and none that it does not lead to.
  From it the safety half of `RetryCompletes`: a repeated run may begin
  (`RetriesMayBegin`) and is not refused (`RefusalsHaveReasons`) unless somebody
  changed the host or a write was cut short. That it then ends is fairness.
* **WebSessionProofs**. `SInv`: a confirmation that a session still offers is
  unused, and a thread that has claimed one is the only one (`ClaimIsExclusive`).
  From it `RemovalsAreConfirmed` and `ConfirmationsAreUsedOnce`, and that every step is
  one of `OneTimeConsent` or none (`ConfirmationsAreConsents`): who holds a nonce
  tells its stage (`Stages`), and most steps at most give one up (`GivenUp`).
  `SessionsEnd` needs
  `LastUseInv` too: a late write never lifts the time of last use above that of the
  last acceptance, and an ended session stays unlisted. For `NoFalseLockout`
  the attempts of the limiter are counted as elements of a set (`Made`): a step
  never adds more than the one attempt that it also enters in `tries`, whichever
  copy `prune` stores back (`AttemptsInv`).
* **ArtifactMigrationProofs**. `MInv`: a directory has one run that fills it and
  meanwhile none that deletes (`OneFills`); who deletes has a sound copy, the
  own or the one found (`DeletesSound`). From it the properties of `migration`
  and `VerifiedCopyKept`. For `MigrationIsMove` two more facts are needed (`Once`):
  a directory that is being filled was empty (`FilledOnce`), and whoever deletes
  has a verified manifest as long as the artifact is there (`DeletesCertified`),
  though another run may have taken that manifest away for a rewrite.
* **OperationalLogProofs**. `LogInv`: only the holder of the lock is inside a call
  (`Holding`); a damaged log stops every call at its check (`TornStops`); a record
  is written when it fits (`Fitting`); the files are in the order of their stamps
  as well as of their records (`Ordered`), so that expiry, which goes by the
  stamps, deletes the first file and no other. Without that order `Unbroken`, the
  suffix property, would not be inductive. `Filled` says that a
  rotated file holds a whole record, so that deleting it is a cut of the abstract
  log and not a stutter. From these the implementation of
  `WriteAheadLog` (`LogIsWriteAhead`) and the other properties of `log`.
  `LogBounded` is about a sum over the files, a fold, of which no definition by
  cases follows without an induction. The induction is over the files of a
  smallest counterexample (`WFMin`, well-foundedness of strict inclusion): the
  sum equals the number of elements of a set that has one for each byte of each
  file (`TotalCounts`). What a step does to the sum is then what it does to that
  set, and `Counted` says how much room the maintenance of a call has made when
  it comes to the append.

Only model-checked: the liveness properties
(`LockReleased`, `BacklogDrains`, `ClaimedHookEnds`, `RetryCompletes`), since
liveness under fairness and ENABLED are beyond the prover; and the findings,
which are counterexamples.

## 6. How to run

    tlc -workers 2 -config MCLifecycleAuthority.cfg MCLifecycleAuthority
    tlapm LifecycleAuthorityProofs.tla

and likewise for the other MC modules. `PROJECT.json` lists components, runs,
the code lines behind every definition, a mutant for every property, the
findings, hazards and theorems.
