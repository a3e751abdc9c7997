--------------------------- MODULE RunnerLifecycle ---------------------------
(* Create, Remove, incomplete-Create reconciliation and local recovery of one *)
(* runner slot: scripts/register-runner.sh and scripts/remove-runner.sh, run  *)
(* by an operator ("cli") or by the root Executor for the Web ("web"), over   *)
(* the ledger of LifecycleAuthority, the official runner tools, systemd and   *)
(* GitHub.                                                                    *)
(*                                                                            *)
(* A script is a sequence of steps under the host mutation lock.  It may die  *)
(* at any step, with its EXIT trap (Die: an error, or SIGTERM at the Web      *)
(* deadline) or without (Crash: SIGKILL, power loss); a request it had sent   *)
(* to GitHub may then still take effect, at any later time.  No script ever   *)
(* resumes: an operator can only start another one.                           *)
(*                                                                            *)
(* Abstracted: token input, release lookup, download and extraction are one   *)
(* step; the archive hook, logging and the text of the diagnostics are left   *)
(* out; the official wrapper does not change between two steps.               *)
EXTENDS LifecycleAuthority

\* Runners older than the ledger belong to no cycle; no process is no value.
ASSUME HostAssumption == "legacy" \notin Instances \cup {None} /\ None \notin {"cli", "web"}

VARIABLES
    script,         \* what each process executes
    lock,           \* holder of mutation.lock
    populated,      \* the runner directory is not empty
    quarantined,    \* a .grt-service-reconcile-* record exists
    running,        \* the Runner service process is alive
    remote,         \* registrations that exist at GitHub
    owner,          \* the cycle that asked for each registration, "legacy"
                    \* for one older than the ledger
    inflight        \* requests to GitHub whose sender died

host == <<populated, quarantined, running>>
github == <<remote, owner, inflight>>
lifecycleVars == <<ledger, disk, script, lock, host, github>>

Processes == {"cli", "web"}

CreateSteps == {"prepare", "pre", "activate", "register", "unknown", "permission",
                "normalize", "attest", "unit", "install", "record", "unitAttest",
                "start", "startService", "health", "check", "complete"}
RemoveSteps == {"begin", "adopt", "stopService", "quarantine", "unregister",
                "confirm", "delete", "close", "abort"}
RecoverSteps == {"stopService", "verify", "delete"}

Scripts == [op : {"none", "create", "remove", "reconcile", "recover"},
            at : CreateSteps \cup RemoveSteps \cup RecoverSteps \cup {"none"},
            made : BOOLEAN]                 \* CREATED_RUNNER_DIR
NoScript == [op |-> "none", at |-> "none", made |-> FALSE]

Requests == [kind : {"register", "unregister"}, cycle : Instances \cup {None},
             id : RunnerIds \cup {None}]

LifecycleTypeOK ==
    /\ TypeOK
    /\ script \in [Processes -> Scripts]
    /\ lock \in Processes \cup {None}
    /\ populated \in BOOLEAN
    /\ quarantined \in BOOLEAN
    /\ running \in BOOLEAN
    /\ remote \subseteq RunnerIds
    /\ owner \in [RunnerIds -> Instances \cup {None, "legacy"}]
    /\ inflight \subseteq Requests

\* Nothing but, possibly, an empty directory somebody made.
EmptyHost ==
    /\ dir \in Inodes \cup {None, "untrusted"}
    /\ registration = NoRegistration
    /\ service = FALSE
    /\ unit = "absent"
    /\ populated = FALSE
    /\ running = FALSE
    /\ remote = {}
    /\ owner = [r \in RunnerIds |-> None]

\* A runner installed by the official tools, before the ledger existed.
LegacyHost ==
    /\ dir \in Inodes
    /\ \E r \in RunnerIds :
           /\ registration \in [present : {TRUE}, id : {r}, secure : BOOLEAN]
           /\ remote = {r}
           /\ owner = [s \in RunnerIds |-> IF s = r THEN "legacy" ELSE None]
    /\ service = TRUE
    /\ unit \in OtherUnits
    /\ populated = TRUE
    /\ running = TRUE

LifecycleInit ==
    /\ InitLedger
    /\ EmptyHost \/ LegacyHost
    /\ wrapper \in Wrappers
    /\ script = [p \in Processes |-> NoScript]
    /\ lock = None
    /\ quarantined = FALSE
    /\ inflight = {}

-----------------------------------------------------------------------------
(* Scripts.                                                                   *)

At(p, op, step) == script[p].op = op /\ script[p].at = step
Goto(p, step) == script' = [script EXCEPT ![p].at = step] /\ UNCHANGED lock
End(p) == script' = [script EXCEPT ![p] = NoScript] /\ lock' = None

\* flock -n: another lifecycle operation is in progress, or it is ours.
LockIgnored == TRUE
LockFree == lock = None

Begin(p, op, step, made) ==
    /\ script[p] = NoScript
    /\ LockFree
    /\ lock' = p
    /\ script' = [script EXCEPT ![p] = [op |-> op, at |-> step, made |-> made]]

\* rm -rf of the runner directory, by whichever path.
DeleteDirectory ==
    /\ dir' = None
    /\ registration' = NoRegistration
    /\ service' = FALSE
    /\ populated' = FALSE
    /\ quarantined' = FALSE
    /\ UNCHANGED <<unit, wrapper, running>>

\* A step that only calls the ledger.
LedgerCall(p, call, next) ==
    /\ call
    /\ Goto(p, next)
    /\ UNCHANGED <<disk, host, github>>

-----------------------------------------------------------------------------
(* register-runner.sh                                                         *)

\* create_target_preflight and mkdir: an absent or empty directory.
CreateBegin(p) ==
    /\ dir = None \/ ~populated
    /\ Begin(p, "create", "prepare", dir = None)
    /\ IF dir = None THEN dir' \in Inodes ELSE UNCHANGED dir
    /\ UNCHANGED <<ledger, registration, service, unit, wrapper, host, github>>

\* Release lookup, download, digest, extraction, dependencies.
CreatePrepare(p) ==
    /\ At(p, "create", "prepare")
    /\ populated' = TRUE
    /\ Goto(p, "pre")
    /\ UNCHANGED <<ledger, disk, quarantined, running, github>>

CreatePre(p) ==
    /\ At(p, "create", "pre")
    /\ LedgerCall(p, \E i \in Instances : CreateStagePreRegistration(i), "activate")

CreateActivate(p) ==
    /\ At(p, "create", "activate")
    /\ LedgerCall(p, ActivateInstance, "register")

\* Identifiers GitHub never handed out.
Unissued == {r \in RunnerIds : owner[r] = None}

\* config.sh succeeds: the runner exists at GitHub, .runner and .credentials
\* exist here, with the mode the official tool gave them.
Register(p) ==
    /\ At(p, "create", "register")
    /\ \E r \in Unissued, secure \in BOOLEAN :
           /\ remote' = remote \cup {r}
           /\ owner' = [owner EXCEPT ![r] = active]
           /\ registration' = [present |-> TRUE, id |-> r, secure |-> secure]
    /\ Goto(p, "permission")
    /\ UNCHANGED <<ledger, dir, service, unit, wrapper, host, inflight>>

\* config.sh fails before or after GitHub accepted the request.
RegisterUncertain(p) ==
    /\ At(p, "create", "register")
    /\ \/ UNCHANGED <<remote, owner>>
       \/ \E r \in Unissued :
              /\ remote' = remote \cup {r}
              /\ owner' = [owner EXCEPT ![r] = active]
    /\ Goto(p, "unknown")
    /\ UNCHANGED <<ledger, disk, host, inflight>>

\* The UNKNOWN checkpoint, then die.
CreateUnknown(p) ==
    /\ At(p, "create", "unknown")
    /\ CreateStage(UNKNOWN)
    /\ End(p)
    /\ UNCHANGED <<disk, host, github>>

CreatePermission(p) ==
    /\ At(p, "create", "permission")
    /\ LedgerCall(p, CreateStage(PERMISSION), "normalize")

CreateNormalize(p) ==
    /\ At(p, "create", "normalize")
    /\ NormalizeNewRegistration
    /\ Goto(p, "attest")
    /\ UNCHANGED <<dir, service, unit, wrapper, host, github>>

CreateAttest(p) ==
    /\ At(p, "create", "attest")
    /\ LedgerCall(p, CreateAttestation, "unit")

CreateUnitStage(p) ==
    /\ At(p, "create", "unit")
    /\ LedgerCall(p, CreateStage(UNIT), "install")

\* install_canonical_unit behind the provenance gate; it never overwrites a
\* Unit.  The Web attests the Unit in the same call, the CLI after .service.
InstallUnit(p) ==
    /\ At(p, "create", "install")
    /\ VerifyServiceInstallProvenance
    /\ unit = "absent"
    /\ unit' = "root0644"
    /\ Goto(p, IF p = "web" THEN "unitAttest" ELSE "record")
    /\ UNCHANGED <<ledger, dir, registration, service, wrapper, host, github>>

WriteServiceRecord(p) ==
    /\ At(p, "create", "record")
    /\ service' = TRUE
    /\ Goto(p, IF p = "web" THEN "start" ELSE "unitAttest")
    /\ UNCHANGED <<ledger, dir, registration, unit, wrapper, host, github>>

AttestUnitIgnored(p) ==
    /\ At(p, "create", "unitAttest")
    /\ Goto(p, IF p = "web" THEN "record" ELSE "start")
    /\ UNCHANGED <<ledger, disk, host, github>>
AttestUnit(p) ==
    /\ At(p, "create", "unitAttest")
    /\ LedgerCall(p, CreateUnitAttestation, IF p = "web" THEN "record" ELSE "start")

CreateStartStage(p) ==
    /\ At(p, "create", "start")
    /\ LedgerCall(p, CreateStage(START), "startService")

StartService(p) ==
    /\ At(p, "create", "startService")
    /\ unit # "absent"
    /\ running' = TRUE
    /\ Goto(p, "health")
    /\ UNCHANGED <<ledger, disk, populated, quarantined, github>>

CreateHealthStage(p) ==
    /\ At(p, "create", "health")
    /\ LedgerCall(p, CreateStage(HEALTH), "check")

\* The Web asks systemctl is-active; the CLI runs the official svc.sh status,
\* which exits 0 whenever the Unit file exists.
CheckHealth(p) ==
    /\ At(p, "create", "check")
    /\ IF p = "web" THEN running ELSE unit # "absent"
    /\ Goto(p, "complete")
    /\ UNCHANGED <<ledger, disk, host, github>>

CreateComplete(p) ==
    /\ At(p, "create", "complete")
    /\ CreateStage(COMPLETE)
    /\ End(p)
    /\ UNCHANGED <<disk, host, github>>

-----------------------------------------------------------------------------
(* remove-runner.sh: normal Remove and --reconcile-incomplete.                *)

\* The Web checks .service, quarantines and file modes before BEGIN; the CLI
\* needs nothing but .runner.
RemoveStart(p) ==
    /\ dir # None /\ registration.present
    /\ p = "web" => service /\ ~quarantined /\ registration.secure
    /\ Begin(p, "remove", "begin", FALSE)
    /\ UNCHANGED <<ledger, disk, host, github>>

BeginRemoval(p) ==
    /\ At(p, "remove", "begin")
    /\ \/ LedgerCall(p, RemoveBegin, "stopService")
       \/ LedgerCall(p, \E i \in Instances : AdoptSecureLegacyRemove(i), "adopt")

AdoptLegacy(p) ==
    /\ At(p, "remove", "adopt")
    /\ LedgerCall(p, AdoptActivate, "begin")

\* svc.sh uninstall of the official runner: stop, disable, rm Unit, rm .service.
SvcUninstall ==
    /\ unit # "absent"
    /\ unit' = "absent"
    /\ running' = FALSE
    /\ service' = FALSE
    /\ UNCHANGED <<dir, registration, wrapper, populated, quarantined>>

\* It fails after the Unit is gone; uninstall_service_safely goes on, because
\* .service still names a Unit systemd does not know.
SvcUninstallPartial ==
    /\ unit # "absent"
    /\ unit' = "absent"
    /\ running' = FALSE
    /\ UNCHANGED <<dir, registration, service, wrapper, populated, quarantined>>

\* runner_service_state is read from .service: without it the CLI dies.
StopServiceCli(p) ==
    /\ p = "cli" /\ At(p, "remove", "stopService")
    /\ service
    /\ \/ unit = "absent" /\ UNCHANGED <<disk, host>>
       \/ SvcUninstall
       \/ SvcUninstallPartial
    /\ Goto(p, "unregister")
    /\ UNCHANGED <<ledger, github>>

\* service_stop and service_uninstall through the Executor keep .service.
StopServiceWeb(p) ==
    /\ p = "web" /\ At(p, "remove", "stopService")
    /\ unit' = "absent"
    /\ running' = FALSE
    /\ Goto(p, "quarantine")
    /\ UNCHANGED <<ledger, dir, registration, service, wrapper, populated,
                   quarantined, github>>

\* web-service-record.py quarantine: rename .service, Unit verified absent
\* before and after.
QuarantineRecord(p) ==
    /\ At(p, "remove", "quarantine")
    /\ unit = "absent" /\ service /\ ~quarantined
    /\ service' = FALSE
    /\ quarantined' = TRUE
    /\ Goto(p, "unregister")
    /\ UNCHANGED <<ledger, dir, registration, unit, wrapper, populated, running, github>>

ReconcileStart(p) ==
    /\ p = "cli"
    /\ dir # None /\ registration.present
    /\ Begin(p, "reconcile", "begin", FALSE)
    /\ UNCHANGED <<ledger, disk, host, github>>

BeginReconcile(p) ==
    /\ At(p, "reconcile", "begin")
    /\ LedgerCall(p, ReconcileBegin, "unregister")

\* config.sh remove: refuses while .service exists, else unregisters the
\* runner .runner names and deletes .runner and .credentials.
UnregisterAnyExit(p) ==
    /\ script[p].op \in {"remove", "reconcile"} /\ script[p].at = "unregister"
    /\ registration.present /\ ~service
    /\ remote' \in {remote, remote \ {registration.id}}
    /\ registration' = NoRegistration
    /\ Goto(p, "confirm")
    /\ UNCHANGED <<ledger, dir, service, unit, wrapper, host, owner, inflight>>
Unregister(p) ==
    /\ script[p].op \in {"remove", "reconcile"} /\ script[p].at = "unregister"
    /\ registration.present /\ ~service
    /\ remote' = remote \ {registration.id}
    /\ registration' = NoRegistration
    /\ Goto(p, "confirm")
    /\ UNCHANGED <<ledger, dir, service, unit, wrapper, host, owner, inflight>>

\* It fails after GitHub acted; the script keeps everything and dies.
UnregisterUncertain(p) ==
    /\ script[p].op \in {"remove", "reconcile"} /\ script[p].at = "unregister"
    /\ registration.present /\ ~service
    /\ remote' = remote \ {registration.id}
    /\ registration' \in {registration, NoRegistration}
    /\ End(p)
    /\ UNCHANGED <<ledger, dir, service, unit, wrapper, host, owner, inflight>>

\* Only the Executor checks that the Unit is absent at CONFIRM and COMPLETE.
UnitVerifiedAbsent(p) == p = "web" => unit = "absent"

ConfirmRemoval(p) ==
    /\ \/ /\ At(p, "remove", "confirm") /\ UnitVerifiedAbsent(p)
          /\ LedgerCall(p, RemoveConfirmRemoteRemoved, "delete")
       \/ /\ At(p, "reconcile", "confirm")
          /\ LedgerCall(p, ReconcileConfirmRemoteRemoved, "delete")

\* web-runner-cleanup.py deletes the directory with the inode the ledger
\* pinned; the CLI Remove deletes the path.
DeleteRemoved(p) ==
    /\ script[p].op \in {"remove", "reconcile"} /\ script[p].at = "delete"
    /\ p = "web" \/ script[p].op = "reconcile" => dir = remove[active].inode
    /\ DeleteDirectory
    /\ Goto(p, "close")
    /\ UNCHANGED <<ledger, github>>

\* The deletion stops half way (rm error, mount, hard link, signal) or its
\* script dies in the middle of it.
DeleteInterrupted(p) ==
    /\ script[p].at = "delete"
    /\ dir # None
    /\ registration' \in {registration, NoRegistration}
    /\ service' \in {service, FALSE}
    /\ populated' \in {populated, FALSE}
    /\ ~populated' => ~service' /\ ~registration'.present
    /\ quarantined' = FALSE
    /\ End(p)
    /\ UNCHANGED <<ledger, dir, unit, wrapper, running, github>>

CompleteRemoval(p) ==
    /\ At(p, "remove", "close")
    /\ UnitVerifiedAbsent(p)
    /\ RemoveComplete
    /\ End(p)
    /\ UNCHANGED <<disk, host, github>>

CompleteReconcile(p) ==
    /\ At(p, "reconcile", "close")
    /\ LedgerCall(p, ReconcileComplete, "abort")

AbortReconciled(p) ==
    /\ At(p, "reconcile", "abort")
    /\ ReconcileAbortCreate
    /\ End(p)
    /\ UNCHANGED <<disk, host, github>>

-----------------------------------------------------------------------------
(* remove-runner.sh --recover-local: local residue of a runner that was       *)
(* deleted at GitHub.  The ledger is not consulted and not updated.           *)

\* .runner must not exist: recovery is no way around the removal token.
RunnerFileIgnored == TRUE
RunnerFileAbsent == ~registration.present

RecoverStart(p) ==
    /\ p = "cli"
    /\ dir # None /\ service
    /\ RunnerFileAbsent
    /\ Begin(p, "recover", "stopService", FALSE)
    /\ UNCHANGED <<ledger, disk, host, github>>

RecoverStop(p) ==
    /\ At(p, "recover", "stopService")
    /\ \/ unit = "absent" /\ UNCHANGED <<disk, host>>
       \/ SvcUninstall
       \/ SvcUninstallPartial
    /\ Goto(p, "verify")
    /\ UNCHANGED <<ledger, github>>

\* runner_service_state: "absent" only while .service can still be read.
ServiceStateAbsent == service /\ unit = "absent"

RecoverVerify(p) ==
    /\ At(p, "recover", "verify")
    /\ ServiceStateAbsent
    /\ Goto(p, "delete")
    /\ UNCHANGED <<ledger, disk, host, github>>

RecoverDelete(p) ==
    /\ At(p, "recover", "delete")
    /\ DeleteDirectory
    /\ End(p)
    /\ UNCHANGED <<ledger, github>>

-----------------------------------------------------------------------------
(* Failures, GitHub, the runner process and the administrator.                *)

\* What a script that dies leaves behind: a half-done authority call, and a
\* request to GitHub if it was waiting for one.
Abandon(p) ==
    /\ script[p].op # "none"
    /\ End(p)
    /\ pending' = Idle
    /\ inflight' = inflight \cup
           (IF script[p].at = "register"
            THEN {[kind |-> "register", cycle |-> active, id |-> None]}
            ELSE IF script[p].at = "unregister" /\ registration.present /\ ~service
            THEN {[kind |-> "unregister", cycle |-> active, id |-> registration.id]}
            ELSE {})
    /\ UNCHANGED <<active, create, remove, attestation, unitAttested, remote, owner>>

\* cleanup(): the EXIT trap deletes the directory this Create made, unless a
\* registration was requested or exists.
RequestIgnored(p) == script[p].at # "complete"
RequestNotStarted(p) == script[p].at \in {"prepare", "pre", "activate"}
CleanupApplies(p) ==
    /\ script[p].op = "create" /\ script[p].made
    /\ RequestNotStarted(p)
    /\ dir # None /\ ~registration.present

Die(p) ==
    /\ Abandon(p)
    /\ IF CleanupApplies(p) THEN DeleteDirectory ELSE UNCHANGED <<disk, host>>

Crash(p) ==
    /\ Abandon(p)
    /\ UNCHANGED <<disk, host>>

\* GitHub accepts the request of a dead script, or never received it.  A
\* surviving config.sh may still write .runner into its directory.
LateRegister(q) ==
    /\ q \in inflight /\ q.kind = "register"
    /\ inflight' = inflight \ {q}
    /\ \E r \in Unissued :
           /\ remote' = remote \cup {r}
           /\ owner' = [owner EXCEPT ![r] = q.cycle]
           /\ \/ UNCHANGED registration
              \/ /\ dir = create[q.cycle].inode /\ populated
                 /\ registration' = [present |-> TRUE, id |-> r, secure |-> FALSE]
    /\ UNCHANGED <<ledger, dir, service, unit, wrapper, host, script, lock>>

LateUnregister(q) ==
    /\ q \in inflight /\ q.kind = "unregister"
    /\ inflight' = inflight \ {q}
    /\ remote' = remote \ {q.id}
    /\ UNCHANGED <<ledger, disk, host, owner, script, lock>>

RequestLost(q) ==
    /\ q \in inflight
    /\ inflight' = inflight \ {q}
    /\ UNCHANGED <<ledger, disk, host, remote, owner, script, lock>>

\* The administrator deletes the runner in the GitHub settings page.
DeletedAtGitHub ==
    /\ \E r \in remote : remote' = remote \ {r}
    /\ UNCHANGED <<ledger, disk, host, owner, inflight, script, lock>>

\* Runner.Listener finds out, deletes .runner and .credentials, and exits.
ListenerCleansUp ==
    /\ running /\ registration.present /\ registration.id \notin remote
    /\ registration' = NoRegistration
    /\ running' = FALSE
    /\ UNCHANGED <<ledger, dir, service, unit, wrapper, populated, quarantined,
                   github, script, lock>>

ServiceDies ==
    /\ running
    /\ running' = FALSE
    /\ UNCHANGED <<ledger, disk, populated, quarantined, github, script, lock>>

\* The administrator clears a leftover directory by hand, between scripts.
DirectoryClearedByHand ==
    /\ lock = None
    /\ dir # None
    /\ unit = "absent"
    /\ DeleteDirectory
    /\ UNCHANGED <<ledger, github, script, lock>>

CreateStep(p) ==
    \/ CreatePrepare(p) \/ CreatePre(p) \/ CreateActivate(p)
    \/ Register(p) \/ RegisterUncertain(p) \/ CreateUnknown(p)
    \/ CreatePermission(p) \/ CreateNormalize(p) \/ CreateAttest(p)
    \/ CreateUnitStage(p) \/ InstallUnit(p) \/ WriteServiceRecord(p) \/ AttestUnit(p)
    \/ CreateStartStage(p) \/ StartService(p) \/ CreateHealthStage(p)
    \/ CheckHealth(p) \/ CreateComplete(p)

RemoveStep(p) ==
    \/ BeginRemoval(p) \/ AdoptLegacy(p) \/ BeginReconcile(p)
    \/ StopServiceCli(p) \/ StopServiceWeb(p) \/ QuarantineRecord(p)
    \/ Unregister(p) \/ UnregisterUncertain(p)
    \/ ConfirmRemoval(p) \/ DeleteRemoved(p) \/ DeleteInterrupted(p)
    \/ CompleteRemoval(p) \/ CompleteReconcile(p) \/ AbortReconciled(p)

RecoverStep(p) == RecoverStop(p) \/ RecoverVerify(p) \/ RecoverDelete(p)

ScriptStep(p) ==
    CreateStep(p) \/ RemoveStep(p) \/ RecoverStep(p) \/ Die(p) \/ Crash(p)

StartScript(p) ==
    CreateBegin(p) \/ RemoveStart(p) \/ ReconcileStart(p) \/ RecoverStart(p)

LifecycleNext ==
    \/ \E p \in Processes : StartScript(p) \/ ScriptStep(p)
    \/ \E q \in inflight : LateRegister(q) \/ LateUnregister(q) \/ RequestLost(q)
    \/ DeletedAtGitHub
    \/ ListenerCleansUp
    \/ ServiceDies
    \/ DirectoryClearedByHand

LifecycleSpec == LifecycleInit /\ [][LifecycleNext]_lifecycleVars

\* A script that runs goes on, and operators keep trying every command: the
\* most that can be hoped for, used only to show what even that cannot reach.
FairLifecycleSpec ==
    /\ LifecycleSpec
    /\ \A p \in Processes : WF_lifecycleVars(ScriptStep(p))
    /\ \A p \in Processes : SF_lifecycleVars(StartScript(p))

-----------------------------------------------------------------------------
(* What the scripts and the ledger achieve together.                          *)

\* A cycle whose registration may still exist at GitHub: nothing has confirmed
\* its removal.
Unconfirmed(i) == remove[i].stage \in {ABSENT, REMOTE_UNKNOWN}

\* No registration is ever orphaned: whatever Create registers at GitHub,
\* however late the request lands, belongs to the active cycle, whose Remove
\* is not confirmed; so the slot stays blocked until somebody accounts for it,
\* and never has two registrations of its own in spite of retries.
NoOrphanRegistration ==
    \A r \in remote : owner[r] \in Instances =>
        /\ owner[r] = active /\ Unconfirmed(active)
        /\ \A s \in remote : owner[s] \in Instances => r = s

\* The durable ledger is never behind the script: at each step that touches
\* GitHub or deletes the directory, the record that authorises it is on disk.
DurableBeforeEffect ==
    \A p \in Processes :
        /\ script[p].at \in {"register", "unknown"} =>
               create[active].stage = PRE /\ remove[active].stage = ABSENT
        /\ script[p].at \in {"stopService", "quarantine", "unregister", "confirm"}
           /\ script[p].op \in {"remove", "reconcile"} =>
               /\ remove[active].stage = REMOTE_UNKNOWN
               /\ registration.present => registration.id = remove[active].id
        /\ script[p].at = "delete" /\ script[p].op \in {"remove", "reconcile"} =>
               remove[active].stage = CLEANUP /\ dir = remove[active].inode

\* REMOVE_COMPLETE is written only when all three facts hold at once: the
\* recorded registration is gone from GitHub, the Unit is absent, and the
\* directory is absent (permission-lifecycle spec 6.1).
RemoveCompleteProven ==
    [][\A i \in Instances :
          remove'[i].stage = REMOVED /\ remove[i].stage # REMOVED =>
              remove[i].id \notin remote /\ unit = "absent" /\ dir = None]_lifecycleVars

\* Scripts that act for the active cycle: all of them, except a Create that is
\* not past its PRE_REGISTRATION checkpoint (it may be refused there, and then
\* deletes the empty-handed directory it made itself).
ActsForActive(p) ==
    script[p].op # "create" \/ script[p].at \notin {"prepare", "pre", "activate"}

\* A script never deletes the runner directory while a registration that the
\* active cycle asked for, or still may have asked for, can exist at GitHub,
\* nor while the directory holds the credentials of an existing registration.
NoDeletionWhileRegistered ==
    [][\A p \in Processes : lock = p /\ dir # None /\ dir' = None =>
          /\ registration.present => registration.id \notin remote
          /\ ActsForActive(p) =>
                 /\ \A r \in remote : owner[r] # active
                 /\ \A q \in inflight' : q.kind = "register" => q.cycle # active
      ]_lifecycleVars

\* Once a Remove record exists, the Create record of the cycle is frozen, but
\* for the terminal CREATE_ABORTED_RECONCILED: "a failed Create must never be
\* rewritten as CREATE_COMPLETE".
RemoveFreezesCreate ==
    [][\A i \in Instances :
          remove[i].stage # ABSENT /\ create'[i] # create[i] =>
              create[i].stage = UNIT /\ create'[i].stage = ABORTED]_lifecycleVars

\* CREATE_COMPLETE is written only for an attested canonical Unit with its
\* .service record, over owner-only files of the registration that was
\* attested, even if GitHub, the listener and another cycle's late request
\* changed the host since the attestation.
CompletionChecked ==
    [][\A i \in Instances :
          create'[i].stage = COMPLETE /\ create[i].stage # COMPLETE =>
              /\ i \in unitAttested /\ unit = "root0644" /\ service
              /\ registration.present =>
                     registration.secure /\ registration.id = attestation[i].id
      ]_lifecycleVars

-----------------------------------------------------------------------------
(* What the documents say and the code does not do.                           *)

\* "After and only after REMOVE_COMPLETE is durably confirmed for the same
\* instance, authority must transition the Create record to ...
\* CREATE_ABORTED_RECONCILED" (remediation spec 3.6).
ReconciledIsAborted ==
    \A i \in Instances :
        remove[i].stage = REMOVED /\ remove[i].origin = "reconciliation"
            ~> create[i].stage = ABORTED
=============================================================================
