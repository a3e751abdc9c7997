------------------------- MODULE LifecycleAuthority -------------------------
(* The root-owned lifecycle ledger of one runner slot, that is, of one        *)
(* (repository, runner name, runner directory) triple: the module             *)
(* web/runner_lifecycle_authority.py.  The files of distinct triples are      *)
(* disjoint (their names start with a digest of the triple), so one slot is   *)
(* the whole state as far as an operation of that slot can tell.              *)
(*                                                                            *)
(* The ledger is four stores of per-instance records and one pointer to the   *)
(* active instance.  Each _publish is atomic (temporary file, fsync, rename   *)
(* or link, fsync of the directory); an operation that publishes twice can be *)
(* cut between the two, which `pending' makes visible.  The disk the          *)
(* operations inspect (runner directory, registration files, .service record, *)
(* systemd Unit, official wrapper) is left to an environment that may change  *)
(* all of it between any two steps.  Authority calls do not overlap: the      *)
(* caller holds the host mutation lock (RunnerLifecycle, ExecutorMutation).   *)
EXTENDS Naturals

CONSTANTS
    Instances,      \* cycle identifiers, secrets.token_hex(16)
    Inodes,         \* (st_dev, st_ino) pairs a runner directory may have
    RunnerIds,      \* GitHub agentId values
    Wrappers,       \* contents of the official bin/runsvc.sh
    OtherUnits,     \* Unit files that are not 0644 and root's
    None            \* no value

ASSUME NoneAssumption ==
    None \notin Instances \cup Inodes \cup RunnerIds \cup Wrappers

ASSUME UntrustedAssumption == "untrusted" \notin Inodes /\ None # "untrusted"

VARIABLES
    active,         \* active-instances: the instance the slot points to
    create,         \* create-state: stage and pinned inode of each instance
    remove,         \* remove-state: stage, pinned inode, agentId, origin
    attestation,    \* attestations: inode, agentId and wrapper at registration
    unitAttested,   \* unit-attestations: instances whose Unit is attested
    pending,        \* second publish of the operation being executed
    dir,            \* what the runner path holds: an inode, something
                    \* _safe_directory rejects, or nothing
    registration,   \* .runner/.credentials: agentId and owner-only mode
    service,        \* a .service record exists
    unit,           \* the systemd Unit file: absent, 0644 root, anything else
    wrapper         \* content of bin/runsvc.sh

ledger == <<active, create, remove, attestation, unitAttested, pending>>
disk == <<dir, registration, service, unit, wrapper>>
vars == <<ledger, disk>>

-----------------------------------------------------------------------------
(* Stages and records.                                                        *)

PRE == "PRE_REGISTRATION"
PERMISSION == "REGISTERED_PERMISSION_INCOMPLETE"
UNIT == "REGISTERED_UNIT_INCOMPLETE"
START == "REGISTERED_START_INCOMPLETE"
HEALTH == "REGISTERED_HEALTH_UNKNOWN"
COMPLETE == "CREATE_COMPLETE"
UNKNOWN == "REGISTRATION_OUTCOME_UNKNOWN"
LEGACY == "LEGACY_VERIFIED"
ABORTED == "CREATE_ABORTED_RECONCILED"
ABSENT == "ABSENT"                      \* no such record file

STAGES == {PRE, PERMISSION, UNIT, START, HEALTH, COMPLETE}
CreateStages == STAGES \cup {UNKNOWN, LEGACY, ABORTED}

\* STAGES.index(stage)
StageIndex(s) ==
    CASE s = PRE -> 0 [] s = PERMISSION -> 1 [] s = UNIT -> 2
      [] s = START -> 3 [] s = HEALTH -> 4 [] OTHER -> 5

REMOTE_UNKNOWN == "REMOTE_REMOVE_OUTCOME_UNKNOWN"
CLEANUP == "REGISTERED_REMOVED_LOCAL_CLEANUP_PENDING"
REMOVED == "REMOVE_COMPLETE"
RemoveStages == {REMOTE_UNKNOWN, CLEANUP, REMOVED}

Origins == {"remove", "reconciliation"}

CreateRecord == [stage : CreateStages \cup {ABSENT}, inode : Inodes \cup {None}]
NoCreate == [stage |-> ABSENT, inode |-> None]

RemoveRecord == [stage : RemoveStages \cup {ABSENT}, inode : Inodes \cup {None},
                 id : RunnerIds \cup {None}, origin : Origins]
NoRemove == [stage |-> ABSENT, inode |-> None, id |-> None, origin |-> "remove"]

Attestation == [issued : BOOLEAN, inode : Inodes \cup {None},
                id : RunnerIds \cup {None}, wrapper : Wrappers \cup {None}]
NoAttestation == [issued |-> FALSE, inode |-> None, id |-> None, wrapper |-> None]

\* .runner and .credentials travel together: both official tools that write
\* or delete one write or delete the other.
NoRegistration == [present |-> FALSE, id |-> None, secure |-> FALSE]
Registration == {NoRegistration} \cup
    [present : {TRUE}, id : RunnerIds \cup {None}, secure : BOOLEAN]

Units == {"absent", "root0644"} \cup OtherUnits

\* The publish that is still to come: "activate" moves the pointer to inst,
\* "adopt" does so inside remove_stage(BEGIN), "abort" closes a reconciliation.
Pending == [step : {"none", "activate", "adopt", "abort"}, inst : Instances \cup {None}]
Idle == [step |-> "none", inst |-> None]

TypeOK ==
    /\ active \in Instances \cup {None}
    /\ create \in [Instances -> CreateRecord]
    /\ remove \in [Instances -> RemoveRecord]
    /\ attestation \in [Instances -> Attestation]
    /\ unitAttested \in SUBSET Instances
    /\ pending \in Pending
    /\ dir \in Inodes \cup {None, "untrusted"}
    /\ registration \in Registration
    /\ service \in BOOLEAN
    /\ unit \in Units
    /\ wrapper \in Wrappers

InitLedger ==
    /\ active = None
    /\ create = [i \in Instances |-> NoCreate]
    /\ remove = [i \in Instances |-> NoRemove]
    /\ attestation = [i \in Instances |-> NoAttestation]
    /\ unitAttested = {}
    /\ pending = Idle

\* The host may already run a runner set up before the ledger existed.
InitDisk ==
    /\ dir \in Inodes \cup {None}
    /\ registration \in Registration
    /\ service \in BOOLEAN
    /\ unit \in Units
    /\ wrapper \in Wrappers

Init == InitLedger /\ InitDisk

-----------------------------------------------------------------------------
(* create_stage                                                               *)

\* A cycle whose Create ended and whose Remove completed.
Closed(i) ==
    /\ create[i].stage \in {COMPLETE, LEGACY, ABORTED}
    /\ remove[i].stage = REMOVED

\* A token no record of the ledger was ever written under.
Fresh(i) == create[i].stage = ABSENT

\* "prior cycle not closed"
PriorCycleCreated == active # None => create[active].stage \in {COMPLETE, LEGACY, ABORTED}
PriorCycleClosed == active # None => Closed(active)

\* A directory os.stat and _safe_directory accept.
DirectoryUsable == dir \in Inodes

\* "prior runner inode reused"
AnyInode == TRUE
PriorInodeNotReused == active # None => dir # remove[active].inode

\* create_stage(PRE_REGISTRATION), first publish: the record of a new cycle.
\* A slot is reopened only after its previous cycle closed, and never on the
\* directory that cycle removed.
CreateStagePreRegistration(i) ==
    /\ pending = Idle
    /\ PriorCycleClosed
    /\ DirectoryUsable
    /\ PriorInodeNotReused
    /\ Fresh(i)
    /\ create' = [create EXCEPT ![i] = [stage |-> PRE, inode |-> dir]]
    /\ pending' = [step |-> "activate", inst |-> i]
    /\ UNCHANGED <<active, remove, attestation, unitAttested>>

\* create_stage(PRE_REGISTRATION), second publish: _active_update.
ActivateInstance ==
    /\ pending.step = "activate"
    /\ active' = pending.inst
    /\ pending' = Idle
    /\ UNCHANGED <<create, remove, attestation, unitAttested>>

\* The attestation of instance i was issued for the directory it was created in.
AttestationMatches(i) ==
    attestation[i].issued /\ attestation[i].inode = create[i].inode

\* "create cannot be restarted": stages create_stage may leave.
StagesInProgress == STAGES \ {COMPLETE}

\* A late checkpoint would be taken even after UNKNOWN.
LateStageAllowed(stage) ==
    /\ active # None
    /\ create[active].stage \in StagesInProgress \cup {UNKNOWN}
    /\ stage # create[active].stage

\* create_stage for every stage but PRE_REGISTRATION: the exact successor, or
\* UNKNOWN from anywhere before CREATE_COMPLETE.  Repeating the current stage
\* is accepted as well, and writes nothing.
CreateStageAllowed(stage) ==
    /\ active # None
    /\ create[active].stage \in StagesInProgress
    /\ \/ stage = UNKNOWN
       \/ /\ stage \in STAGES
          /\ StageIndex(stage) = StageIndex(create[active].stage) + 1
    /\ stage = UNIT => AttestationMatches(active)

CreateStage(stage) ==
    /\ pending = Idle
    /\ CreateStageAllowed(stage)
    /\ create' = [create EXCEPT ![active].stage = stage]
    /\ UNCHANGED <<active, remove, attestation, unitAttested, pending>>

-----------------------------------------------------------------------------
(* Registration files, attestations and the Unit.                             *)

\* The runner path still holds the directory the cycle was opened with.
InCreateDirectory == DirectoryUsable /\ dir = create[active].inode

\* normalize_new_registration: chmod 0600 of both files of a fresh registration.
NormalizeNewRegistration ==
    /\ pending = Idle
    /\ active # None
    /\ create[active].stage = PERMISSION
    /\ InCreateDirectory
    /\ registration.present
    /\ registration' = [registration EXCEPT !.secure = TRUE]
    /\ UNCHANGED ledger

\* create_attestation: once per instance, from secure files only.
CreateAttestation ==
    /\ pending = Idle
    /\ active # None
    /\ create[active].stage = PERMISSION
    /\ InCreateDirectory
    /\ registration.present /\ registration.secure
    /\ registration.id # None
    /\ ~attestation[active].issued
    /\ attestation' = [attestation EXCEPT ![active] =
           [issued |-> TRUE, inode |-> dir, id |-> registration.id,
            wrapper |-> wrapper]]
    /\ UNCHANGED <<active, create, remove, unitAttested, pending>>

\* verify_service_install_provenance: the gate in front of the Unit installer.
VerifyServiceInstallProvenance ==
    /\ active # None
    /\ create[active].stage = UNIT
    /\ attestation[active].issued
    /\ InCreateDirectory
    /\ dir = attestation[active].inode
    /\ wrapper = attestation[active].wrapper

\* create_unit_attestation: once per instance, for a 0644 root Unit.
CreateUnitAttestation ==
    /\ pending = Idle
    /\ unit = "root0644"
    /\ active # None
    /\ create[active].stage \in {UNIT, START}
    /\ InCreateDirectory
    /\ active \notin unitAttested
    /\ unitAttested' = unitAttested \cup {active}
    /\ UNCHANGED <<active, create, remove, attestation, pending>>

-----------------------------------------------------------------------------
(* remove_stage                                                               *)

\* _adopt_secure_legacy_remove, first publish: a runner that predates the
\* ledger gets a cycle of its own, if its files are owner-only.
AdoptSecureLegacyRemove(i) ==
    /\ pending = Idle
    /\ active = None
    /\ DirectoryUsable
    /\ registration.present /\ registration.secure
    /\ service
    /\ Fresh(i)
    /\ create' = [create EXCEPT ![i] = [stage |-> LEGACY, inode |-> dir]]
    /\ pending' = [step |-> "adopt", inst |-> i]
    /\ UNCHANGED <<active, remove, attestation, unitAttested>>

\* Its second publish; remove_stage(BEGIN) goes on from there.
AdoptActivate ==
    /\ pending.step = "adopt"
    /\ active' = pending.inst
    /\ pending' = Idle
    /\ UNCHANGED <<create, remove, attestation, unitAttested>>

\* "new-cycle remote Runner ID mismatch"
RegistrationUnchecked == attestation[active].issued
RegistrationAttested ==
    attestation[active].issued /\ attestation[active].id = registration.id

RemoveBegin ==
    /\ pending = Idle
    /\ active # None
    /\ create[active].stage \in {COMPLETE, LEGACY}
    /\ remove[active].stage = ABSENT
    /\ registration.present
    /\ create[active].stage = COMPLETE => RegistrationAttested
    /\ InCreateDirectory
    /\ remove' = [remove EXCEPT ![active] =
           [stage |-> REMOTE_UNKNOWN, inode |-> dir, id |-> registration.id,
            origin |-> "remove"]]
    /\ UNCHANGED <<active, create, attestation, unitAttested, pending>>

RemoveConfirmRemoteRemoved ==
    /\ pending = Idle
    /\ active # None
    /\ remove[active].stage = REMOTE_UNKNOWN
    /\ DirectoryUsable
    /\ dir = remove[active].inode
    /\ remove' = [remove EXCEPT ![active].stage = CLEANUP]
    /\ UNCHANGED <<active, create, attestation, unitAttested, pending>>

RemoveComplete ==
    /\ pending = Idle
    /\ active # None
    /\ remove[active].stage = CLEANUP
    /\ dir = None
    /\ remove' = [remove EXCEPT ![active].stage = REMOVED]
    /\ UNCHANGED <<active, create, attestation, unitAttested, pending>>

-----------------------------------------------------------------------------
(* reconcile_incomplete_create_stage                                          *)

ReconcileBegin ==
    /\ pending = Idle
    /\ active # None
    /\ create[active].stage = UNIT
    /\ RegistrationAttested
    /\ remove[active].stage = ABSENT
    /\ active \notin unitAttested
    /\ InCreateDirectory
    /\ dir = attestation[active].inode
    /\ registration.present /\ registration.secure
    /\ ~service
    /\ unit = "absent"
    /\ remove' = [remove EXCEPT ![active] =
           [stage |-> REMOTE_UNKNOWN, inode |-> dir, id |-> registration.id,
            origin |-> "reconciliation"]]
    /\ UNCHANGED <<active, create, attestation, unitAttested, pending>>

ReconcileConfirmRemoteRemoved ==
    /\ unit = "absent"
    /\ ~service
    /\ RemoveConfirmRemoteRemoved

\* The two publishes of COMPLETE in the wrong order.
ReconcileCompleteSwapped ==
    /\ pending = Idle
    /\ active # None
    /\ remove[active].stage = CLEANUP
    /\ dir = None
    /\ create' = [create EXCEPT ![active].stage = ABORTED]
    /\ pending' = [step |-> "abort", inst |-> active]
    /\ UNCHANGED <<active, remove, attestation, unitAttested>>

\* COMPLETE publishes the Remove record and then, if the Create record still
\* is what BEGIN admitted, the terminal state of the Create record.
ReconcileComplete ==
    /\ pending = Idle
    /\ active # None
    /\ remove[active].stage = CLEANUP
    /\ dir = None
    /\ remove' = [remove EXCEPT ![active].stage = REMOVED]
    /\ pending' = [step |-> "abort", inst |-> active]
    /\ UNCHANGED <<active, create, attestation, unitAttested>>

CompletionStateMatches ==
    create[pending.inst].stage = UNIT /\ remove[pending.inst].stage = REMOVED

ReconcileAbortCreate ==
    /\ pending.step = "abort"
    /\ pending' = Idle
    /\ IF CompletionStateMatches
       THEN create' = [create EXCEPT ![pending.inst].stage = ABORTED]
       ELSE UNCHANGED create               \* "completion state mismatch"
    /\ UNCHANGED <<active, remove, attestation, unitAttested>>

\* The process executing the operation dies between its two publishes.
CrashBetweenPublishes ==
    /\ pending # Idle
    /\ pending' = Idle
    /\ UNCHANGED <<active, create, remove, attestation, unitAttested>>

-----------------------------------------------------------------------------
(* The specification: any authority call at any time, on any disk.            *)

LedgerStep ==
    \/ \E i \in Instances : CreateStagePreRegistration(i)
    \/ ActivateInstance
    \/ \E s \in STAGES \cup {UNKNOWN} : CreateStage(s)
    \/ CreateAttestation
    \/ CreateUnitAttestation
    \/ \E i \in Instances : AdoptSecureLegacyRemove(i)
    \/ AdoptActivate
    \/ RemoveBegin
    \/ RemoveConfirmRemoteRemoved
    \/ RemoveComplete
    \/ ReconcileBegin
    \/ ReconcileConfirmRemoteRemoved
    \/ ReconcileComplete
    \/ ReconcileAbortCreate
    \/ CrashBetweenPublishes

\* Everything the ledger does not control: the runner account, the official
\* tools, systemd and the administrator.
EnvironmentDirectory ==
    /\ dir' \in (Inodes \cup {None, "untrusted"}) \ {dir}
    /\ UNCHANGED <<ledger, registration, service, unit, wrapper>>

EnvironmentRegistration ==
    /\ registration' \in Registration \ {registration}
    /\ UNCHANGED <<ledger, dir, service, unit, wrapper>>

EnvironmentService ==
    /\ \/ service' = ~service /\ UNCHANGED <<unit, wrapper>>
       \/ unit' \in Units \ {unit} /\ UNCHANGED <<service, wrapper>>
       \/ wrapper' \in Wrappers /\ UNCHANGED <<service, unit>>
    /\ UNCHANGED <<ledger, dir, registration>>

Next ==
    \/ LedgerStep /\ UNCHANGED disk
    \/ NormalizeNewRegistration /\ UNCHANGED <<dir, service, unit, wrapper>>
    \/ EnvironmentDirectory
    \/ EnvironmentRegistration
    \/ EnvironmentService

Spec == Init /\ [][Next]_vars

-----------------------------------------------------------------------------
(* What the ledger promises, whatever the disk does.                          *)

\* An instance that was published but never became active, because its
\* writer died between the two publishes.
Orphan(i) ==
    /\ create[i].stage \in {PRE, LEGACY}
    /\ remove[i].stage = ABSENT
    /\ ~attestation[i].issued
    /\ i \notin unitAttested

\* At most one cycle of a slot is open: every instance but the active one is
\* unused, an orphan of a crash, or a closed cycle.  create_stage refuses
\* PRE_REGISTRATION ("prior cycle not closed") to make it so.
OneOpenCycle ==
    \A i \in Instances \ {active} : Fresh(i) \/ Orphan(i) \/ Closed(i)

\* The attestation and the Remove record of a cycle name the directory the
\* cycle was created in, so that no deletion can be authorised for another one.
BoundToDirectory ==
    \A i \in Instances :
        /\ attestation[i].issued => attestation[i].inode = create[i].inode
        /\ remove[i].stage # ABSENT => remove[i].inode = create[i].inode

\* A Remove record of an attested cycle names the agentId of the attestation,
\* whichever of remove_stage and reconcile_incomplete_create_stage wrote it.
BoundToRegistration ==
    \A i \in Instances :
        remove[i].stage # ABSENT /\ attestation[i].issued
            => remove[i].id = attestation[i].id

\* No cycle gets as far as its Unit, or is reconciled, without an attestation
\* issued for its own directory.
AttestedBeforeUnit ==
    \A i \in Instances :
        create[i].stage \in {UNIT, START, HEALTH, COMPLETE, ABORTED}
            => attestation[i].issued /\ attestation[i].inode = create[i].inode

\* Whatever the host does between two calls, all records of one cycle are about
\* one directory and one registration.
BoundToCycle == BoundToDirectory /\ BoundToRegistration /\ AttestedBeforeUnit

\* CREATE_ABORTED_RECONCILED is written after, and only after, the Remove of
\* the same instance completed, even if the writer dies in between.
AbortedOnlyAfterRemoved ==
    \A i \in Instances :
        create[i].stage = ABORTED => remove[i].stage = REMOVED

\* Between the two publishes of an operation, the record already on disk is
\* harmless: a cycle waiting for the pointer owns nothing yet and waits for a
\* slot that is free, and a reconciliation waiting for its terminal Create
\* record has completed its Remove.
PendingConsistent ==
    /\ pending.step \in {"activate", "adopt"} =>
           /\ pending.inst \in Instances
           /\ Orphan(pending.inst)
           /\ active # None => Closed(active)
    /\ pending.step = "activate" =>
           /\ create[pending.inst].stage = PRE
           /\ active # None => create[pending.inst].inode # remove[active].inode
    /\ pending.step = "adopt" => create[pending.inst].stage = LEGACY /\ active = None
    /\ pending.step = "abort" =>
           pending.inst = active /\ active \in Instances /\ remove[active].stage = REMOVED

\* The four stores agree on how far an instance came: nothing is recorded of
\* an instance that was never created, nothing is attested before the official
\* registration, nothing is removed before the Unit stage.
RecordsInOrder ==
    \A i \in Instances :
        /\ Fresh(i) => ~attestation[i].issued /\ i \notin unitAttested
        /\ create[i].stage \in {PRE, LEGACY} => ~attestation[i].issued
        /\ remove[i].stage # ABSENT =>
               create[i].stage \in {UNIT, START, HEALTH, COMPLETE, UNKNOWN, LEGACY, ABORTED}

\* Before the pointer was ever written there is no cycle, only orphans.
NoCycleBeforePointer ==
    active = None => \A i \in Instances : Fresh(i) \/ Orphan(i)

\* What makes the promises above inductive.
LedgerInvariant == PendingConsistent /\ RecordsInOrder /\ NoCycleBeforePointer

ClosedCycleKept(i) ==
    Closed(i) => /\ create'[i] = create[i]
                 /\ remove'[i] = remove[i]
                 /\ attestation'[i] = attestation[i]
                 /\ (i \in unitAttested') = (i \in unitAttested)
UnknownKept(i) == create[i].stage = UNKNOWN => create'[i] = create[i]

\* "Completed Create/Remove cycles and history: immutable": no call, however
\* late or repeated, changes any record of a cycle that closed, the active one
\* included, or moves a Create record on from REGISTRATION_OUTCOME_UNKNOWN.
HistoryImmutable ==
    [][\A i \in Instances : ClosedCycleKept(i) /\ UnknownKept(i)]_vars

\* The pointer never leaves a cycle that is not closed: an UNKNOWN or pending
\* outcome keeps blocking the slot, and no crash of a writer unblocks it.
OpenCycleKeepsSlot ==
    [][active # None /\ ~Closed(active) => active' = active]_vars

\* When a slot is reopened, the new cycle does not own the directory that the
\* previous cycle was removed with.
NewCycleNewDirectory ==
    [][active # None /\ active' # active
          => create'[active'].inode # remove[active].inode]_vars

-----------------------------------------------------------------------------
(* The ledger implements the abstract slot.                                   *)

SlotPhase ==
    IF active = None THEN "free"
    ELSE IF Closed(active) THEN "free"
    ELSE IF remove[active].stage # ABSENT THEN "removing"
    ELSE IF create[active].stage \in {COMPLETE, LEGACY} THEN "live"
    ELSE "creating"

SlotSpent == {i \in Instances : i = active \/ Closed(i)}

Slot == INSTANCE RunnerSlot
        WITH Cycles <- Instances, None <- None,
             phase <- SlotPhase, holder <- active, spent <- SlotSpent

\* Read through SlotPhase and SlotSpent, every step of the ledger is a step of
\* the abstract slot or leaves it alone, for every order of calls and crashes.
ImplementsSlot == Slot!SlotSpec
=============================================================================
