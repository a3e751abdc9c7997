------------------------ MODULE RunnerLifecycleProofs ------------------------
(* Proofs about RunnerLifecycle: Create, Remove, reconciliation and recovery  *)
(* over the ledger, for any number of cycles, directories and registrations,  *)
(* with scripts that die at any step and requests that land at any time.      *)
EXTENDS RunnerLifecycle, LifecycleAuthorityProofs

-----------------------------------------------------------------------------
(* The invariant.                                                             *)

\* Registrations that exist and were asked for by a cycle of the ledger.
Owned == {r \in remote : owner[r] \in Instances}
IsRemoval(p) == script[p].op \in {"remove", "reconcile"}

\* One script at a time, at a step of its own, under the lock.
ScriptInv ==
    \A p \in Processes :
        /\ script[p].op = "none" => script[p] = NoScript
        /\ script[p].op # "none" => lock = p
        /\ script[p].op = "create" => script[p].at \in CreateSteps
        /\ IsRemoval(p) => script[p].at \in RemoveSteps
        /\ script[p].op = "recover" => script[p].at \in RecoverSteps

\* What stands in the directory needs a directory; .service is written after
\* the Unit, and stays beside the .runner of what is registered.
HostInv ==
    /\ dir = None => ~populated
    /\ ~populated => ~service /\ ~registration.present
    /\ active # None /\ create[active].stage \in {PRE, PERMISSION, UNKNOWN} => ~service
    /\ service => \A r \in Owned : registration.present /\ registration.id = r

\* A request of a dead Create is the one thing its cycle still waits for.
Waits(q) ==
    /\ q.id = None /\ q.cycle = active /\ active \in Instances
    /\ create[active].stage = PRE /\ remove[active].stage = ABSENT
    /\ Owned = {}
    /\ \A p \in Processes :
           script[p].op = "create" => script[p].at \in {"prepare", "pre", "activate"}

\* Every registration can be named: the attestation, the Remove record say
\* which one it is.
Named ==
    /\ \A r \in remote : owner[r] # None
    /\ NoOrphanRegistration
    /\ \A r \in Owned :
           /\ create[active].stage # LEGACY
           /\ attestation[active].issued => r = attestation[active].id
           /\ remove[active].stage # ABSENT => r = remove[active].id
Awaited == \A q \in inflight : q.kind = "register" => Waits(q)
GitHubInv == Named /\ Awaited

\* How far a Create is says what the ledger and the host hold.
CreateBefore == {"prepare", "pre", "activate"}
StageAt(at) ==
    CASE at \in {"register", "unknown", "permission"} -> PRE
      [] at \in {"normalize", "attest", "unit"} -> PERMISSION
      [] at \in {"install", "record", "unitAttest", "start"} -> UNIT
      [] at \in {"startService", "health"} -> START
      [] OTHER -> HEALTH
AttestedSteps == {"unit", "install", "record", "unitAttest", "start", "startService", "health",
                  "check", "complete"}
InstalledSteps == AttestedSteps \ {"unit", "install"}
StartedSteps == {"start", "startService", "health", "check", "complete"}

CreateInv ==
    \A p \in Processes : script[p].op = "create" =>
        /\ dir # None
        /\ script[p].at # "prepare" => populated
        /\ script[p].at \in CreateBefore => ~service
        /\ script[p].at \notin CreateBefore =>
               /\ active \in Instances /\ remove[active].stage = ABSENT
               /\ create[active].stage = StageAt(script[p].at)
               /\ \A q \in inflight : q.kind # "register"
        /\ script[p].at = "register" => Owned = {}
        /\ script[p].at \notin CreateBefore \cup {"register", "unknown"} =>
               \A r \in Owned : registration.present /\ registration.id = r
        /\ script[p].at \in AttestedSteps =>
               /\ attestation[active].issued
               /\ registration.present =>
                      registration.secure /\ registration.id = attestation[active].id
        /\ script[p].at \in InstalledSteps => unit = "root0644"
        /\ script[p].at \in StartedSteps \/ (script[p].at = "record" /\ p = "web") =>
               active \in unitAttested
        /\ script[p].at \in StartedSteps \/ (script[p].at = "unitAttest" /\ p = "cli") => service

\* How far a Remove or a reconciliation is.
GoneSteps == {"confirm", "delete", "close", "abort"}
RemoveInv ==
    \A p \in Processes : IsRemoval(p) /\ script[p].at \notin {"begin", "adopt"} =>
        /\ active \in Instances /\ remove[active].stage # ABSENT
        /\ script[p].at \in {"stopService", "quarantine", "unregister", "confirm"} =>
               /\ remove[active].stage = REMOTE_UNKNOWN
               /\ registration.present => registration.id = remove[active].id
        /\ script[p].at # "stopService" => unit = "absent"
        /\ script[p].at \in GoneSteps =>
               Owned = {} /\ remove[active].id \notin remote /\ ~registration.present
        /\ script[p].at = "delete" => remove[active].stage = CLEANUP /\ dir = remove[active].inode

\* A recovery runs beside no registration it could lose.
RecoverInv ==
    \A p \in Processes : script[p].op = "recover" =>
        /\ service => ~registration.present
        /\ script[p].at \in {"stopService", "delete"} => service

\* The ledger keeps its own invariant under the scripts as well.
LInv == /\ LifecycleTypeOK /\ RecordsInv /\ PointerInv
        /\ ScriptInv /\ HostInv /\ GitHubInv /\ CreateInv /\ RemoveInv /\ RecoverInv

-----------------------------------------------------------------------------
(* What every step of a script does to the scripts.                           *)

LEMMA Moved ==
  ASSUME LifecycleTypeOK, ScriptInv, NEW p \in Processes, script[p].op # "none",
         NEW step \in CreateSteps \cup RemoveSteps \cup RecoverSteps, Goto(p, step)
  PROVE  /\ script'[p] = [op |-> script[p].op, at |-> step, made |-> script[p].made]
         /\ \A s \in Processes \ {p} : script[s] = NoScript /\ script'[s] = NoScript
         /\ script' \in [Processes -> Scripts]
         /\ lock = p /\ lock' = p
<1>1. script[p] \in Scripts /\ script \in [Processes -> Scripts] /\ lock = p
  BY DEF LifecycleTypeOK, ScriptInv
<1>2. \A s \in Processes \ {p} : script[s] = NoScript
  BY <1>1 DEF ScriptInv, LifecycleTypeOK, Scripts
<1>3. script'[p] = [op |-> script[p].op, at |-> step, made |-> script[p].made]
  BY <1>1 DEF Goto, Scripts
<1>4. script'[p] \in Scripts
  BY <1>1, <1>3 DEF Scripts
<1> QED
  BY <1>1, <1>2, <1>3, <1>4 DEF Goto

LEMMA Ended ==
  ASSUME LifecycleTypeOK, ScriptInv, NEW p \in Processes, script[p].op # "none", End(p)
  PROVE  /\ \A s \in Processes : script'[s] = NoScript
         /\ \A s \in Processes \ {p} : script[s] = NoScript
         /\ script' \in [Processes -> Scripts]
         /\ lock = p /\ lock' = None
<1>1. script \in [Processes -> Scripts] /\ lock = p
  BY DEF LifecycleTypeOK, ScriptInv
<1>2. \A s \in Processes \ {p} : script[s] = NoScript
  BY <1>1 DEF ScriptInv, LifecycleTypeOK, Scripts
<1>3. NoScript \in Scripts
  BY DEF NoScript, Scripts
<1> QED
  BY <1>1, <1>2, <1>3 DEF End

LEMMA Begun ==
  ASSUME LifecycleTypeOK, ScriptInv, NEW p \in Processes, NEW made \in BOOLEAN,
         NEW op \in {"create", "remove", "reconcile", "recover"},
         NEW step \in CreateSteps \cup RemoveSteps \cup RecoverSteps, Begin(p, op, step, made)
  PROVE  /\ script'[p] = [op |-> op, at |-> step, made |-> made]
         /\ \A s \in Processes : script[s] = NoScript
         /\ \A s \in Processes \ {p} : script'[s] = NoScript
         /\ script' \in [Processes -> Scripts]
         /\ lock = None /\ lock' = p
<1>1. script \in [Processes -> Scripts] /\ lock = None /\ None \notin Processes
  BY HostAssumption DEF LifecycleTypeOK, Begin, LockFree, Processes
<1>2. \A s \in Processes : script[s] = NoScript
  BY <1>1 DEF ScriptInv
<1>3. [op |-> op, at |-> step, made |-> made] \in Scripts
  BY DEF Scripts
<1> QED
  BY <1>1, <1>2, <1>3 DEF Begin

LEMMA CreateMoves ==
  ASSUME NEW p \in Processes, CreateStep(p)
  PROVE  /\ script[p].op = "create"
         /\ End(p) \/ \E step \in CreateSteps : Goto(p, step)
<1> USE DEF At, CreateSteps
<1>1. CASE CreatePrepare(p) \/ CreatePre(p) \/ CreateActivate(p) \/ Register(p)
           \/ RegisterUncertain(p) \/ CreateUnknown(p)
  BY <1>1 DEF CreatePrepare, CreatePre, CreateActivate, Register, RegisterUncertain,
     CreateUnknown, LedgerCall
<1>2. CASE CreatePermission(p) \/ CreateNormalize(p) \/ CreateAttest(p) \/ CreateUnitStage(p)
           \/ InstallUnit(p)
  BY <1>2 DEF CreatePermission, CreateNormalize, CreateAttest, CreateUnitStage, InstallUnit,
     LedgerCall
<1>3. CASE WriteServiceRecord(p) \/ AttestUnit(p) \/ CreateStartStage(p) \/ StartService(p)
           \/ CreateHealthStage(p) \/ CheckHealth(p) \/ CreateComplete(p)
  BY <1>3 DEF WriteServiceRecord, AttestUnit, CreateStartStage, StartService,
     CreateHealthStage, CheckHealth, CreateComplete, LedgerCall
<1> QED
  BY <1>1, <1>2, <1>3 DEF CreateStep

LEMMA RemoveMoves ==
  ASSUME NEW p \in Processes, RemoveStep(p)
  PROVE  \/ script[p].at = "delete" /\ End(p)
         \/ IsRemoval(p) /\ (End(p) \/ \E step \in RemoveSteps : Goto(p, step))
<1> USE DEF At, RemoveSteps, IsRemoval
<1>1. CASE BeginRemoval(p) \/ AdoptLegacy(p) \/ BeginReconcile(p) \/ StopServiceCli(p)
           \/ StopServiceWeb(p) \/ QuarantineRecord(p)
  BY <1>1 DEF BeginRemoval, AdoptLegacy, BeginReconcile, StopServiceCli, StopServiceWeb,
     QuarantineRecord, LedgerCall
<1>2. CASE Unregister(p) \/ UnregisterUncertain(p) \/ ConfirmRemoval(p) \/ DeleteRemoved(p)
           \/ DeleteInterrupted(p)
  BY <1>2 DEF Unregister, UnregisterUncertain, ConfirmRemoval, DeleteRemoved,
     DeleteInterrupted, LedgerCall
<1>3. CASE CompleteRemoval(p) \/ CompleteReconcile(p) \/ AbortReconciled(p)
  BY <1>3 DEF CompleteRemoval, CompleteReconcile, AbortReconciled, LedgerCall
<1> QED
  BY <1>1, <1>2, <1>3 DEF RemoveStep

LEMMA RecoverMoves ==
  ASSUME NEW p \in Processes, RecoverStep(p)
  PROVE  /\ script[p].op = "recover"
         /\ End(p) \/ \E step \in RecoverSteps : Goto(p, step)
BY DEF RecoverStep, RecoverStop, RecoverVerify, RecoverDelete, At, RecoverSteps

LEMMA StartMoves ==
  ASSUME NEW p \in Processes, StartScript(p)
  PROVE  \/ \E made \in BOOLEAN : Begin(p, "create", "prepare", made)
         \/ Begin(p, "remove", "begin", FALSE)
         \/ Begin(p, "reconcile", "begin", FALSE)
         \/ Begin(p, "recover", "stopService", FALSE)
BY DEF StartScript, CreateBegin, RemoveStart, ReconcileStart, RecoverStart

LEMMA WorldMoves ==
  ASSUME \/ \E q \in inflight : LateRegister(q) \/ LateUnregister(q) \/ RequestLost(q)
         \/ DeletedAtGitHub \/ ListenerCleansUp \/ ServiceDies \/ DirectoryClearedByHand
         \/ UNCHANGED lifecycleVars
  PROVE  UNCHANGED <<ledger, script, lock>>
BY DEF LateRegister, LateUnregister, RequestLost, DeletedAtGitHub, ListenerCleansUp,
   ServiceDies, DirectoryClearedByHand, lifecycleVars

\* A script that ended is at no step.
LEMMA NobodyRuns ==
  ASSUME \A s \in Processes : script'[s] = NoScript
  PROVE  ScriptInv' /\ CreateInv' /\ RemoveInv' /\ RecoverInv'
BY DEF NoScript, ScriptInv, CreateInv, RemoveInv, RecoverInv, IsRemoval

LEMMA ScriptsStep ==
  ASSUME LifecycleTypeOK, ScriptInv, [LifecycleNext]_lifecycleVars
  PROVE  /\ ScriptInv'
         /\ script' \in [Processes -> Scripts] /\ lock' \in Processes \cup {None}
<1>1. ASSUME NEW p \in Processes, script[p].op # "none", End(p)
      PROVE  /\ ScriptInv'
             /\ script' \in [Processes -> Scripts] /\ lock' \in Processes \cup {None}
  BY <1>1, Ended, NobodyRuns
<1>2. ASSUME NEW p \in Processes, NEW step \in CreateSteps \cup RemoveSteps \cup RecoverSteps,
             script[p].op # "none", Goto(p, step),
             script[p].op = "create" => step \in CreateSteps,
             IsRemoval(p) => step \in RemoveSteps,
             script[p].op = "recover" => step \in RecoverSteps
      PROVE  /\ ScriptInv'
             /\ script' \in [Processes -> Scripts] /\ lock' \in Processes \cup {None}
  <2>0. /\ script'[p] = [op |-> script[p].op, at |-> step, made |-> script[p].made]
        /\ \A s \in Processes \ {p} : script[s] = NoScript /\ script'[s] = NoScript
        /\ script' \in [Processes -> Scripts] /\ lock = p /\ lock' = p
    BY <1>2, Moved
  <2>1. script'[p].op = script[p].op /\ script'[p].at = step
    BY <2>0
  <2>2. NoScript.op = "none"
    BY DEF NoScript
  <2> QED
    BY <1>2, <2>0, <2>1, <2>2 DEF ScriptInv, IsRemoval
<1>3. ASSUME NEW p \in Processes, NEW made \in BOOLEAN,
             NEW op \in {"create", "remove", "reconcile", "recover"},
             NEW step \in CreateSteps \cup RemoveSteps \cup RecoverSteps, Begin(p, op, step, made),
             op = "create" => step \in CreateSteps,
             op \in {"remove", "reconcile"} => step \in RemoveSteps,
             op = "recover" => step \in RecoverSteps
      PROVE  /\ ScriptInv'
             /\ script' \in [Processes -> Scripts] /\ lock' \in Processes \cup {None}
  <2>0. /\ script'[p] = [op |-> op, at |-> step, made |-> made]
        /\ \A s \in Processes \ {p} : script'[s] = NoScript
        /\ script' \in [Processes -> Scripts] /\ lock' = p
    BY <1>3, Begun
  <2>1. script'[p].op = op /\ script'[p].at = step
    BY <2>0
  <2>2. NoScript.op = "none"
    BY DEF NoScript
  <2> QED
    BY <1>3, <2>0, <2>1, <2>2 DEF ScriptInv, IsRemoval
<1>4. ASSUME NEW p \in Processes, StartScript(p)
      PROVE  /\ ScriptInv'
             /\ script' \in [Processes -> Scripts] /\ lock' \in Processes \cup {None}
  <2>1. "prepare" \in CreateSteps /\ "begin" \in RemoveSteps /\ "stopService" \in RecoverSteps
    BY DEF CreateSteps, RemoveSteps, RecoverSteps
  <2> QED
    BY <1>3, <1>4, <2>1, StartMoves
<1>5. ASSUME NEW p \in Processes, CreateStep(p)
      PROVE  /\ ScriptInv'
             /\ script' \in [Processes -> Scripts] /\ lock' \in Processes \cup {None}
  BY <1>1, <1>2, <1>5, CreateMoves DEF IsRemoval
<1>6. ASSUME NEW p \in Processes, RemoveStep(p)
      PROVE  /\ ScriptInv'
             /\ script' \in [Processes -> Scripts] /\ lock' \in Processes \cup {None}
  <2>1. CASE script[p].at = "delete" /\ End(p)
    <3>1. script[p].op # "none"
      BY <2>1 DEF ScriptInv, NoScript
    <3> QED
      BY <1>1, <2>1, <3>1
  <2>2. CASE IsRemoval(p) /\ (End(p) \/ \E step \in RemoveSteps : Goto(p, step))
    BY <1>1, <1>2, <2>2 DEF IsRemoval
  <2> QED
    BY <1>6, <2>1, <2>2, RemoveMoves
<1>7. ASSUME NEW p \in Processes, RecoverStep(p)
      PROVE  /\ ScriptInv'
             /\ script' \in [Processes -> Scripts] /\ lock' \in Processes \cup {None}
  BY <1>1, <1>2, <1>7, RecoverMoves DEF IsRemoval
<1>8. ASSUME NEW p \in Processes, Die(p) \/ Crash(p)
      PROVE  /\ ScriptInv'
             /\ script' \in [Processes -> Scripts] /\ lock' \in Processes \cup {None}
  BY <1>1, <1>8 DEF Die, Crash, Abandon
<1>9. CASE UNCHANGED <<script, lock>>
  BY <1>9 DEF ScriptInv, IsRemoval, LifecycleTypeOK
<1> QED
  BY <1>4, <1>5, <1>6, <1>7, <1>8, <1>9, WorldMoves DEF LifecycleNext, ScriptStep

-----------------------------------------------------------------------------
(* The ledger under the scripts, and types.                                   *)

LEMMA CreateLedger ==
  ASSUME NEW p \in Processes, CreateStep(p)
  PROVE  (LedgerStep /\ UNCHANGED disk) \/ UNCHANGED ledger
<1>1. \A s \in {PERMISSION, UNIT, START, HEALTH, COMPLETE, UNKNOWN} : s \in STAGES \cup {UNKNOWN}
  BY DEF STAGES
<1>2. CASE CreatePrepare(p) \/ CreatePre(p) \/ CreateActivate(p) \/ Register(p)
           \/ RegisterUncertain(p) \/ CreateUnknown(p)
  BY <1>1, <1>2 DEF CreatePrepare, CreatePre, CreateActivate, Register, RegisterUncertain,
     CreateUnknown, LedgerCall, LedgerStep
<1>3. CASE CreatePermission(p) \/ CreateNormalize(p) \/ CreateAttest(p) \/ CreateUnitStage(p)
           \/ InstallUnit(p)
  BY <1>1, <1>3 DEF CreatePermission, CreateNormalize, NormalizeNewRegistration, CreateAttest,
     CreateUnitStage, InstallUnit, LedgerCall, LedgerStep
<1>4. CASE WriteServiceRecord(p) \/ AttestUnit(p) \/ CreateStartStage(p) \/ StartService(p)
           \/ CreateHealthStage(p) \/ CheckHealth(p) \/ CreateComplete(p)
  BY <1>1, <1>4 DEF WriteServiceRecord, AttestUnit, CreateStartStage, StartService,
     CreateHealthStage, CheckHealth, CreateComplete, LedgerCall, LedgerStep
<1> QED
  BY <1>2, <1>3, <1>4 DEF CreateStep

LEMMA RemoveLedger ==
  ASSUME NEW p \in Processes, RemoveStep(p)
  PROVE  (LedgerStep /\ UNCHANGED disk) \/ UNCHANGED ledger
<1>1. CASE BeginRemoval(p) \/ AdoptLegacy(p) \/ BeginReconcile(p) \/ ConfirmRemoval(p)
           \/ CompleteRemoval(p) \/ CompleteReconcile(p) \/ AbortReconciled(p)
  BY <1>1 DEF BeginRemoval, AdoptLegacy, BeginReconcile, ConfirmRemoval, CompleteRemoval,
     CompleteReconcile, AbortReconciled, LedgerCall, LedgerStep
<1>2. CASE StopServiceCli(p) \/ StopServiceWeb(p) \/ QuarantineRecord(p) \/ Unregister(p)
           \/ UnregisterUncertain(p) \/ DeleteRemoved(p) \/ DeleteInterrupted(p)
  BY <1>2 DEF StopServiceCli, StopServiceWeb, QuarantineRecord, Unregister,
     UnregisterUncertain, DeleteRemoved, DeleteInterrupted
<1> QED
  BY <1>1, <1>2 DEF RemoveStep

\* Every step is one call of the authority, cuts one short, or leaves the
\* ledger alone.
LEMMA LedgerMoves ==
  ASSUME [LifecycleNext]_lifecycleVars
  PROVE  \/ LedgerStep /\ UNCHANGED disk
         \/ UNCHANGED ledger
         \/ pending' = Idle /\ UNCHANGED <<active, create, remove, attestation, unitAttested>>
<1>1. ASSUME NEW p \in Processes, StartScript(p) PROVE UNCHANGED ledger
  BY <1>1 DEF StartScript, CreateBegin, RemoveStart, ReconcileStart, RecoverStart
<1>2. ASSUME NEW p \in Processes, RecoverStep(p) PROVE UNCHANGED ledger
  BY <1>2 DEF RecoverStep, RecoverStop, RecoverVerify, RecoverDelete
<1>3. ASSUME NEW p \in Processes, Die(p) \/ Crash(p)
      PROVE  pending' = Idle /\ UNCHANGED <<active, create, remove, attestation, unitAttested>>
  BY <1>3 DEF Die, Crash, Abandon
<1> QED
  BY <1>1, <1>2, <1>3, CreateLedger, RemoveLedger, WorldMoves DEF LifecycleNext, ScriptStep

LEMMA LedgerInvStep ==
  ASSUME TypeOK, RecordsInv, PointerInv, [LifecycleNext]_lifecycleVars
  PROVE  RecordsInv' /\ PointerInv'
<1>1. CASE LedgerStep
  BY <1>1, LedgerRecordsInv, LedgerPointerInv
<1>2. CASE UNCHANGED <<active, create, remove, attestation, unitAttested>>
           /\ pending' \in {pending, Idle}
  <2>1. RecordsInv'
    BY <1>2 DEF RecordsInv, BoundToDirectory, BoundToRegistration, AttestedBeforeUnit,
       AbortedOnlyAfterRemoved, RecordsInOrder, Fresh
  <2>2. OneOpenCycle' /\ NoCycleBeforePointer'
    BY <1>2 DEF PointerInv, OneOpenCycle, NoCycleBeforePointer, Fresh, Orphan, Closed
  <2>3. PendingConsistent'
    <3>1. CASE pending' = pending
      BY <1>2, <3>1 DEF PointerInv, PendingConsistent, Orphan, Closed
    <3>2. CASE pending' = Idle
      BY <3>2 DEF PendingConsistent, Idle
    <3> QED
      BY <1>2, <3>1, <3>2
  <2> QED
    BY <2>1, <2>2, <2>3 DEF PointerInv
<1> QED
  BY <1>1, <1>2, LedgerMoves DEF ledger

LEMMA DiskTypes ==
  ASSUME LifecycleTypeOK, [LifecycleNext]_lifecycleVars
  PROVE  /\ dir' \in Inodes \cup {None, "untrusted"} /\ registration' \in Registration
         /\ service' \in BOOLEAN /\ unit' \in Units /\ wrapper' \in Wrappers
<1> USE DEF LifecycleTypeOK, TypeOK, disk
<1>0. /\ NoRegistration \in Registration
      /\ \A r \in RunnerIds, b \in BOOLEAN :
             [present |-> TRUE, id |-> r, secure |-> b] \in Registration
      /\ "absent" \in Units /\ "root0644" \in Units
  BY DEF Registration, Units
<1> DEFINE Typed == /\ dir' \in Inodes \cup {None, "untrusted"} /\ registration' \in Registration
                    /\ service' \in BOOLEAN /\ unit' \in Units /\ wrapper' \in Wrappers
<1>1. ASSUME NEW p \in Processes, CreateBegin(p) PROVE Typed
  BY <1>1 DEF CreateBegin
<1>2. ASSUME NEW p \in Processes, CreateNormalize(p) PROVE Typed
  <2>1. registration' = [registration EXCEPT !.secure = TRUE] /\ registration.present
    BY <1>2 DEF CreateNormalize, NormalizeNewRegistration
  <2>2. registration \in [present : {TRUE}, id : RunnerIds \cup {None}, secure : BOOLEAN]
    BY <2>1, PresentRegistration
  <2>3. registration' \in [present : {TRUE}, id : RunnerIds \cup {None}, secure : BOOLEAN]
    BY <2>1, <2>2
  <2> QED
    BY <1>2, <2>3 DEF CreateNormalize, Registration
<1>3. ASSUME NEW p \in Processes, Register(p) PROVE Typed
  BY <1>0, <1>3 DEF Register, Unissued
<1>4. ASSUME NEW p \in Processes, InstallUnit(p) \/ WriteServiceRecord(p) PROVE Typed
  BY <1>0, <1>4 DEF InstallUnit, WriteServiceRecord
<1>5. ASSUME NEW p \in Processes, StopServiceCli(p) \/ StopServiceWeb(p) \/ QuarantineRecord(p)
                                  \/ RecoverStop(p)
      PROVE  Typed
  BY <1>0, <1>5 DEF StopServiceCli, StopServiceWeb, QuarantineRecord, RecoverStop, SvcUninstall,
     SvcUninstallPartial
<1>6. ASSUME NEW p \in Processes, Unregister(p) \/ UnregisterUncertain(p) PROVE Typed
  BY <1>0, <1>6 DEF Unregister, UnregisterUncertain
<1>7. ASSUME NEW p \in Processes, DeleteInterrupted(p) PROVE Typed
  BY <1>0, <1>7 DEF DeleteInterrupted
<1>8. CASE DeleteDirectory
  BY <1>0, <1>8 DEF DeleteDirectory
<1>9. ASSUME NEW p \in Processes, Die(p) \/ DeleteRemoved(p) \/ RecoverDelete(p) PROVE Typed
  BY <1>8, <1>9 DEF Die, DeleteRemoved, RecoverDelete
<1>10. ASSUME NEW q \in inflight, LateRegister(q) PROVE Typed
  BY <1>0, <1>10 DEF LateRegister, Unissued
<1>11. CASE ListenerCleansUp
  BY <1>0, <1>11 DEF ListenerCleansUp
<1>12. CASE DirectoryClearedByHand
  BY <1>8, <1>12 DEF DirectoryClearedByHand
<1>13. CASE UNCHANGED disk
  BY <1>13
<1>14. ASSUME NEW p \in Processes, StartScript(p) PROVE Typed
  BY <1>1, <1>13, <1>14 DEF StartScript, RemoveStart, ReconcileStart, RecoverStart
<1>15. ASSUME NEW p \in Processes, CreateStep(p) PROVE Typed
  BY <1>2, <1>3, <1>4, <1>13, <1>15 DEF CreateStep, CreatePrepare, CreatePre, CreateActivate,
     RegisterUncertain, CreateUnknown, CreatePermission, CreateAttest, CreateUnitStage,
     AttestUnit, CreateStartStage, StartService, CreateHealthStage, CheckHealth,
     CreateComplete, LedgerCall
<1>16. ASSUME NEW p \in Processes, RemoveStep(p) PROVE Typed
  BY <1>5, <1>6, <1>7, <1>9, <1>13, <1>16 DEF RemoveStep, BeginRemoval, AdoptLegacy,
     BeginReconcile, ConfirmRemoval, CompleteRemoval, CompleteReconcile, AbortReconciled,
     LedgerCall
<1>17. ASSUME NEW p \in Processes, RecoverStep(p) PROVE Typed
  BY <1>5, <1>9, <1>13, <1>17 DEF RecoverStep, RecoverVerify
<1>18. ASSUME NEW p \in Processes, Crash(p) PROVE Typed
  BY <1>13, <1>18 DEF Crash
<1>19. CASE \/ \E q \in inflight : LateUnregister(q) \/ RequestLost(q)
            \/ DeletedAtGitHub \/ ServiceDies \/ UNCHANGED lifecycleVars
  BY <1>13, <1>19 DEF LateUnregister, RequestLost, DeletedAtGitHub, ServiceDies, lifecycleVars
<1> QED
  BY <1>9, <1>10, <1>11, <1>12, <1>14, <1>15, <1>16, <1>17, <1>18, <1>19
     DEF LifecycleNext, ScriptStep

LEMMA HostTypes ==
  ASSUME LifecycleTypeOK, [LifecycleNext]_lifecycleVars
  PROVE  populated' \in BOOLEAN /\ quarantined' \in BOOLEAN /\ running' \in BOOLEAN
<1> USE DEF LifecycleTypeOK, host
<1> DEFINE Typed == populated' \in BOOLEAN /\ quarantined' \in BOOLEAN /\ running' \in BOOLEAN
<1>0. CASE DeleteDirectory
  BY <1>0 DEF DeleteDirectory
<1>1. ASSUME NEW p \in Processes, CreateStep(p) PROVE Typed
  <2>1. CASE CreatePrepare(p) \/ Register(p) \/ StartService(p)
    BY <2>1 DEF CreatePrepare, Register, StartService
  <2>2. CASE UNCHANGED host
    BY <2>2
  <2> QED
    BY <1>1, <2>1, <2>2 DEF CreateStep, CreatePre, CreateActivate, RegisterUncertain,
       CreateUnknown, CreatePermission, CreateNormalize, CreateAttest, CreateUnitStage,
       InstallUnit, WriteServiceRecord, AttestUnit, CreateStartStage, CreateHealthStage,
       CheckHealth, CreateComplete, LedgerCall
<1>2. ASSUME NEW p \in Processes, RemoveStep(p) \/ RecoverStep(p) PROVE Typed
  <2>1. CASE StopServiceCli(p) \/ StopServiceWeb(p) \/ QuarantineRecord(p) \/ RecoverStop(p)
             \/ DeleteInterrupted(p)
    BY <2>1 DEF StopServiceCli, StopServiceWeb, QuarantineRecord, RecoverStop, SvcUninstall,
       SvcUninstallPartial, DeleteInterrupted
  <2>2. CASE DeleteRemoved(p) \/ RecoverDelete(p)
    BY <1>0, <2>2 DEF DeleteRemoved, RecoverDelete
  <2>3. CASE UNCHANGED host
    BY <2>3
  <2> QED
    BY <1>2, <2>1, <2>2, <2>3 DEF RemoveStep, RecoverStep, BeginRemoval, AdoptLegacy,
       BeginReconcile, Unregister, UnregisterUncertain, ConfirmRemoval, CompleteRemoval,
       CompleteReconcile, AbortReconciled, RecoverVerify, LedgerCall
<1>3. ASSUME NEW p \in Processes, Die(p) \/ Crash(p) PROVE Typed
  BY <1>0, <1>3 DEF Die, Crash
<1>4. ASSUME NEW p \in Processes, StartScript(p) PROVE Typed
  BY <1>4 DEF StartScript, CreateBegin, RemoveStart, ReconcileStart, RecoverStart
<1>5. CASE ListenerCleansUp \/ ServiceDies \/ DirectoryClearedByHand
  BY <1>0, <1>5 DEF ListenerCleansUp, ServiceDies, DirectoryClearedByHand
<1>6. CASE \/ \E q \in inflight : LateRegister(q) \/ LateUnregister(q) \/ RequestLost(q)
           \/ DeletedAtGitHub \/ UNCHANGED lifecycleVars
  BY <1>6 DEF LateRegister, LateUnregister, RequestLost, DeletedAtGitHub, lifecycleVars
<1> QED
  BY <1>1, <1>2, <1>3, <1>4, <1>5, <1>6 DEF LifecycleNext, ScriptStep

LEMMA GitHubTypes ==
  ASSUME LifecycleTypeOK, [LifecycleNext]_lifecycleVars
  PROVE  /\ remote' \subseteq RunnerIds /\ inflight' \subseteq Requests
         /\ owner' \in [RunnerIds -> Instances \cup {None, "legacy"}]
<1> USE DEF LifecycleTypeOK, TypeOK, github
<1> DEFINE Typed == /\ remote' \subseteq RunnerIds /\ inflight' \subseteq Requests
                    /\ owner' \in [RunnerIds -> Instances \cup {None, "legacy"}]
<1>1. ASSUME NEW p \in Processes, CreateStep(p) PROVE Typed
  <2>1. CASE Register(p) \/ RegisterUncertain(p)
    BY <2>1 DEF Register, RegisterUncertain, Unissued
  <2>2. CASE UNCHANGED github
    BY <2>2
  <2> QED
    BY <1>1, <2>1, <2>2 DEF CreateStep, CreatePrepare, CreatePre, CreateActivate, StartService,
       CreateUnknown, CreatePermission, CreateNormalize, CreateAttest, CreateUnitStage,
       InstallUnit, WriteServiceRecord, AttestUnit, CreateStartStage, CreateHealthStage,
       CheckHealth, CreateComplete, LedgerCall
<1>2. ASSUME NEW p \in Processes, RemoveStep(p) \/ RecoverStep(p) PROVE Typed
  <2>1. CASE Unregister(p) \/ UnregisterUncertain(p)
    BY <2>1 DEF Unregister, UnregisterUncertain
  <2>2. CASE UNCHANGED github
    BY <2>2
  <2> QED
    BY <1>2, <2>1, <2>2 DEF RemoveStep, RecoverStep, BeginRemoval, AdoptLegacy, BeginReconcile,
       StopServiceCli, StopServiceWeb, QuarantineRecord, ConfirmRemoval, DeleteRemoved,
       DeleteInterrupted, CompleteRemoval, CompleteReconcile, AbortReconciled, RecoverStop,
       RecoverVerify, RecoverDelete, LedgerCall
<1>3. ASSUME NEW p \in Processes, Die(p) \/ Crash(p) PROVE Typed
  <2>1. [kind |-> "register", cycle |-> active, id |-> None] \in Requests
    BY DEF Requests
  <2>2. ASSUME registration.present
        PROVE  [kind |-> "unregister", cycle |-> active, id |-> registration.id] \in Requests
    <3>1. registration.id \in RunnerIds \cup {None}
      BY <2>2, PresentRegistration
    <3> QED
      BY <3>1 DEF Requests
  <2> QED
    BY <1>3, <2>1, <2>2 DEF Die, Crash, Abandon
<1>4. ASSUME NEW p \in Processes, StartScript(p) PROVE Typed
  BY <1>4 DEF StartScript, CreateBegin, RemoveStart, ReconcileStart, RecoverStart
<1>5. ASSUME NEW q \in inflight, LateRegister(q) PROVE Typed
  BY <1>5 DEF LateRegister, Unissued, Requests
<1>6. ASSUME NEW q \in inflight, LateUnregister(q) \/ RequestLost(q) PROVE Typed
  BY <1>6 DEF LateUnregister, RequestLost
<1>7. CASE DeletedAtGitHub
  BY <1>7 DEF DeletedAtGitHub
<1>8. CASE ListenerCleansUp \/ ServiceDies \/ DirectoryClearedByHand \/ UNCHANGED lifecycleVars
  BY <1>8 DEF ListenerCleansUp, ServiceDies, DirectoryClearedByHand, lifecycleVars
<1> QED
  BY <1>1, <1>2, <1>3, <1>4, <1>5, <1>6, <1>7, <1>8 DEF LifecycleNext, ScriptStep

LEMMA TypesStep ==
  ASSUME LifecycleTypeOK, RecordsInv, PointerInv, ScriptInv, [LifecycleNext]_lifecycleVars
  PROVE  LifecycleTypeOK'
<1>1. TypeOK'
  <2>1. CASE LedgerStep /\ UNCHANGED disk
    BY <2>1, NextTypeOK DEF Next, LifecycleTypeOK
  <2>2. CASE UNCHANGED <<active, create, remove, attestation, unitAttested>>
             /\ pending' \in {pending, Idle}
    BY <2>2, DiskTypes DEF LifecycleTypeOK, TypeOK, Idle, Pending
  <2> QED
    BY <2>1, <2>2, LedgerMoves DEF ledger
<1> QED
  BY <1>1, ScriptsStep, HostTypes, GitHubTypes DEF LifecycleTypeOK

-----------------------------------------------------------------------------
(* The host.                                                                  *)

LEMMA EmptyDirectory == ASSUME DeleteDirectory PROVE HostInv'
BY DEF DeleteDirectory, HostInv, NoRegistration

LEMMA HostCreate ==
  ASSUME LInv, NEW p \in Processes, CreateStep(p)
  PROVE  HostInv'
<1> USE NoneAssumption DEF LInv, LifecycleTypeOK, TypeOK, HostInv, Owned, At, disk, host, github,
        LedgerCall,
        PRE, PERMISSION, UNKNOWN, UNIT, START, HEALTH, COMPLETE, LEGACY
<1> DEFINE Mine == script[p].op = "create" /\ script[p].at \notin CreateBefore =>
                       active \in Instances /\ create[active].stage = StageAt(script[p].at)
<1>0. Mine
  BY DEF CreateInv
<1>1. CASE CreatePrepare(p)
  BY <1>1 DEF CreatePrepare, CreateInv, ledger
<1>2. CASE CreatePre(p)
  <2>1. PICK i \in Instances : CreateStagePreRegistration(i)
    BY <1>2 DEF CreatePre
  <2>2. i # active /\ create' = [create EXCEPT ![i] = [stage |-> PRE, inode |-> dir]]
    BY <2>1, NoneAssumption DEF CreateStagePreRegistration, PriorCycleClosed, Closed, Fresh, ABSENT,
       ABORTED
  <2>3. UNCHANGED <<dir, populated, service, registration, active, remote, owner>>
    BY <1>2, <2>1 DEF CreatePre, CreateStagePreRegistration
  <2> QED
    BY <2>2, <2>3
<1>3. CASE CreateActivate(p)
  <2>1. ~service
    BY <1>3 DEF CreateActivate, CreateInv, CreateBefore
  <2> QED
    BY <1>3, <2>1 DEF CreateActivate, ActivateInstance
<1>4. CASE Register(p)
  <2>1. ~service /\ populated
    BY <1>0, <1>4 DEF Register, CreateInv, CreateBefore, StageAt
  <2> QED
    BY <1>4, <2>1 DEF Register, ledger
<1>5. CASE RegisterUncertain(p)
  <2>1. ~service
    BY <1>0, <1>5 DEF RegisterUncertain, CreateBefore, StageAt
  <2> QED
    BY <1>5, <2>1 DEF RegisterUncertain, ledger
<1>6. CASE CreateUnknown(p)
  <2>1. ~service
    BY <1>0, <1>6 DEF CreateUnknown, CreateBefore, StageAt
  <2> QED
    BY <1>6, <2>1 DEF CreateUnknown, CreateStage
<1>7. CASE CreatePermission(p)
  <2>1. ~service
    BY <1>0, <1>7 DEF CreatePermission, CreateBefore, StageAt
  <2> QED
    BY <1>7, <2>1 DEF CreatePermission, CreateStage
<1>8. CASE CreateUnitStage(p)
  BY <1>8 DEF CreateUnitStage, CreateStage, CreateStageAllowed
<1>9. CASE CreateStartStage(p)
  BY <1>9 DEF CreateStartStage, CreateStage, CreateStageAllowed
<1>10. CASE CreateHealthStage(p)
  BY <1>10 DEF CreateHealthStage, CreateStage, CreateStageAllowed
<1>11. CASE CreateComplete(p)
  BY <1>11 DEF CreateComplete, CreateStage, CreateStageAllowed
<1>12. CASE CreateNormalize(p)
  <2>1. registration' = [registration EXCEPT !.secure = TRUE] /\ registration.present
        /\ UNCHANGED <<dir, populated, service, active, create, remote, owner>>
    BY <1>12 DEF CreateNormalize, NormalizeNewRegistration, ledger
  <2>2. registration \in [present : {TRUE}, id : RunnerIds \cup {None}, secure : BOOLEAN]
    BY <2>1, PresentRegistration
  <2>3. registration'.present = registration.present /\ registration'.id = registration.id
    BY <2>1, <2>2
  <2> QED
    BY <2>1, <2>3
<1>13. CASE WriteServiceRecord(p)
  <2>1. /\ populated /\ create[active].stage = UNIT
        /\ \A r \in Owned : registration.present /\ registration.id = r
    BY <1>0, <1>13 DEF WriteServiceRecord, CreateInv, CreateBefore, StageAt
  <2> QED
    BY <1>13, <2>1 DEF WriteServiceRecord, ledger
<1>14. CASE UNCHANGED <<dir, populated, service, registration, active, create, remote, owner>>
  BY <1>14
<1> QED
  BY <1>1, <1>2, <1>3, <1>4, <1>5, <1>6, <1>7, <1>8, <1>9, <1>10, <1>11, <1>12, <1>13, <1>14
     DEF CreateStep, CreateAttest, CreateAttestation, InstallUnit, AttestUnit,
         CreateUnitAttestation, StartService, CheckHealth, ledger

LEMMA HostRemove ==
  ASSUME LInv, NEW p \in Processes, RemoveStep(p)
  PROVE  HostInv'
<1> USE NoneAssumption DEF LInv, LifecycleTypeOK, TypeOK, HostInv, Owned, At, disk, host, github,
        LedgerCall,
        PRE, PERMISSION, UNKNOWN, UNIT, LEGACY, ABORTED
<1>1. CASE BeginRemoval(p)
  BY <1>1 DEF BeginRemoval, RemoveBegin, AdoptSecureLegacyRemove
<1>2. CASE AdoptLegacy(p)
  BY <1>2 DEF AdoptLegacy, AdoptActivate, PointerInv, PendingConsistent
<1>3. CASE StopServiceCli(p)
  <2>1. UNCHANGED <<dir, populated, registration, active, create, remote, owner>>
    BY <1>3 DEF StopServiceCli, SvcUninstall, SvcUninstallPartial, ledger
  <2>2. service' = service \/ service' = FALSE
    BY <1>3 DEF StopServiceCli, SvcUninstall, SvcUninstallPartial
  <2> QED
    BY <2>1, <2>2
<1>4. CASE QuarantineRecord(p)
  BY <1>4 DEF QuarantineRecord, ledger
<1>5. CASE Unregister(p) \/ UnregisterUncertain(p)
  BY <1>5 DEF Unregister, UnregisterUncertain, ledger, NoRegistration
<1>6. CASE DeleteRemoved(p)
  BY <1>6, EmptyDirectory DEF DeleteRemoved
<1>7. CASE DeleteInterrupted(p)
  <2>1. Owned = {}
    BY <1>7 DEF DeleteInterrupted, RemoveInv, RecoverInv, ScriptInv, IsRemoval, GoneSteps,
       CreateSteps, NoScript, Scripts
  <2> QED
    <3>1. dir # None /\ UNCHANGED <<dir, active, create, remote, owner>>
      BY <1>7 DEF DeleteInterrupted, ledger
    <3>2. service' = service \/ service' = FALSE
      BY <1>7 DEF DeleteInterrupted
    <3>3. ~populated' => ~service' /\ ~registration'.present
      BY <1>7 DEF DeleteInterrupted
    <3> QED
      BY <2>1, <3>1, <3>2, <3>3
<1>8. CASE AbortReconciled(p)
  BY <1>8 DEF AbortReconciled, ReconcileAbortCreate, CreateRecord
<1>9. CASE UNCHANGED <<dir, populated, service, registration, active, create, remote, owner>>
  BY <1>9
<1> QED
  BY <1>1, <1>2, <1>3, <1>4, <1>5, <1>6, <1>7, <1>8, <1>9 DEF RemoveStep, BeginReconcile,
     ReconcileBegin, StopServiceWeb, ConfirmRemoval, RemoveConfirmRemoteRemoved,
     ReconcileConfirmRemoteRemoved, CompleteRemoval, RemoveComplete, CompleteReconcile,
     ReconcileComplete, ledger

LEMMA HostStep ==
  ASSUME LInv, [LifecycleNext]_lifecycleVars
  PROVE  HostInv'
<1> USE NoneAssumption DEF LInv, LifecycleTypeOK, TypeOK, HostInv, Owned, At, disk, host, github,
        ledger
<1>1. CASE UNCHANGED <<dir, populated, service, registration, active, create, remote, owner>>
  BY <1>1
<1>2. ASSUME NEW p \in Processes, StartScript(p) PROVE HostInv'
  <2>1. CASE CreateBegin(p)
    BY <2>1, NoneAssumption DEF CreateBegin
  <2> QED
    BY <1>1, <1>2, <2>1 DEF StartScript, RemoveStart, ReconcileStart, RecoverStart
<1>3. ASSUME NEW p \in Processes, RecoverStep(p) PROVE HostInv'
  <2>1. CASE RecoverStop(p)
    BY <2>1 DEF RecoverStop, SvcUninstall, SvcUninstallPartial
  <2>2. CASE RecoverDelete(p)
    BY <2>2, EmptyDirectory DEF RecoverDelete
  <2> QED
    BY <1>1, <1>3, <2>1, <2>2 DEF RecoverStep, RecoverVerify
<1>4. ASSUME NEW p \in Processes, Die(p) \/ Crash(p) PROVE HostInv'
  <2>1. CASE DeleteDirectory
    BY <2>1, EmptyDirectory
  <2> QED
    BY <1>1, <1>4, <2>1 DEF Die, Crash, Abandon
<1>5. ASSUME NEW q \in inflight, LateRegister(q) PROVE HostInv'
  <2>1. ~service
    BY <1>5 DEF LateRegister, GitHubInv, Awaited, Waits, PRE
  <2> QED
    BY <1>5, <2>1 DEF LateRegister
<1>6. ASSUME NEW q \in inflight, LateUnregister(q) \/ RequestLost(q) PROVE HostInv'
  BY <1>6 DEF LateUnregister, RequestLost
<1>7. CASE DeletedAtGitHub
  BY <1>7 DEF DeletedAtGitHub
<1>8. CASE ListenerCleansUp
  BY <1>8 DEF ListenerCleansUp, NoRegistration
<1>9. CASE DirectoryClearedByHand
  BY <1>9, EmptyDirectory DEF DirectoryClearedByHand
<1>10. CASE ServiceDies \/ UNCHANGED lifecycleVars
  BY <1>1, <1>10 DEF ServiceDies, lifecycleVars
<1> QED
  BY <1>2, <1>3, <1>4, <1>5, <1>6, <1>7, <1>8, <1>9, <1>10, HostCreate, HostRemove
     DEF LifecycleNext, ScriptStep

-----------------------------------------------------------------------------
(* GitHub.                                                                    *)

\* Registrations that disappear, or none at all, disturb nothing.
LEMMA NamedShrinks ==
  ASSUME Named, remote' \subseteq remote,
         UNCHANGED <<owner, active, create, remove, attestation>>
  PROVE  Named' /\ Owned' \subseteq Owned
BY DEF Named, NoOrphanRegistration, Unconfirmed, Owned

LEMMA NothingNamed ==
  ASSUME Owned = {}, Named, UNCHANGED <<remote, owner>>
  PROVE  Named' /\ Owned' = {}
BY DEF Named, NoOrphanRegistration, Owned

\* A new registration of a cycle that has none.
LEMMA OneNamed ==
  ASSUME LifecycleTypeOK, RecordsInv, Named, Owned = {}, active \in Instances,
         create[active].stage = PRE, remove[active].stage = ABSENT,
         NEW r \in Unissued, remote' = remote \cup {r}, owner' = [owner EXCEPT ![r] = active],
         UNCHANGED <<active, create, remove, attestation>>
  PROVE  Named' /\ Owned' = {r}
<1>1. r \in RunnerIds /\ owner'[r] = active /\ \A s \in RunnerIds \ {r} : owner'[s] = owner[s]
  BY DEF Unissued, LifecycleTypeOK, TypeOK
<1>2. Owned' = {r}
  BY <1>1 DEF Owned, LifecycleTypeOK
<1>3. ~attestation[active].issued
  BY DEF RecordsInv, RecordsInOrder
<1>4. \A s \in remote' : owner'[s] # None
  BY <1>1, NoneAssumption DEF Named, LifecycleTypeOK
<1>5. NoOrphanRegistration'
  BY <1>1, <1>2 DEF NoOrphanRegistration, Unconfirmed, Owned, LifecycleTypeOK
<1> QED
  BY <1>2, <1>3, <1>4, <1>5 DEF Named, PRE, LEGACY, ABSENT

LEMMA NamedCreate ==
  ASSUME LInv, NEW p \in Processes, CreateStep(p)
  PROVE  Named'
<1> USE NoneAssumption DEF LInv, LifecycleTypeOK, TypeOK, GitHubInv, At, github, LedgerCall,
        PRE, PERMISSION, UNKNOWN, UNIT, START, HEALTH, COMPLETE, LEGACY
<1>0. script[p].op = "create" /\ script[p].at \notin CreateBefore =>
          active \in Instances /\ create[active].stage = StageAt(script[p].at)
          /\ remove[active].stage = ABSENT
  BY DEF CreateInv
<1>1. CASE CreatePre(p)
  <2>1. PICK i \in Instances : CreateStagePreRegistration(i)
    BY <1>1 DEF CreatePre
  <2>2. i # active /\ create' = [create EXCEPT ![i] = [stage |-> PRE, inode |-> dir]]
    BY <2>1 DEF CreateStagePreRegistration, PriorCycleClosed, Closed, Fresh, ABSENT, ABORTED
  <2>3. UNCHANGED <<remote, owner, active, remove, attestation>>
    BY <1>1, <2>1 DEF CreatePre, CreateStagePreRegistration
  <2> QED
    BY <2>2, <2>3 DEF Named, NoOrphanRegistration, Unconfirmed, Owned
<1>2. CASE CreateActivate(p)
  <2>1. Owned = {}
    BY <1>2 DEF CreateActivate, ActivateInstance, Named, NoOrphanRegistration, Unconfirmed, Owned,
       PointerInv, PendingConsistent, Closed, REMOVED, ABSENT, REMOTE_UNKNOWN
  <2> QED
    BY <1>2, <2>1, NothingNamed DEF CreateActivate
<1>3. CASE Register(p)
  <2>1. Owned = {} /\ active \in Instances /\ create[active].stage = PRE
        /\ remove[active].stage = ABSENT
    BY <1>0, <1>3 DEF Register, CreateInv, CreateBefore, StageAt
  <2>2. PICK r \in Unissued : remote' = remote \cup {r} /\ owner' = [owner EXCEPT ![r] = active]
    BY <1>3 DEF Register
  <2> QED
    BY <1>3, <2>1, <2>2, OneNamed DEF Register, ledger
<1>4. CASE RegisterUncertain(p)
  <2>1. Owned = {} /\ active \in Instances /\ create[active].stage = PRE
        /\ remove[active].stage = ABSENT
    BY <1>0, <1>4 DEF RegisterUncertain, CreateInv, CreateBefore, StageAt
  <2>2. CASE UNCHANGED <<remote, owner>>
    BY <2>1, <2>2, NothingNamed
  <2>3. ASSUME NEW r \in Unissued, remote' = remote \cup {r}, owner' = [owner EXCEPT ![r] = active]
        PROVE  Named'
    BY <1>4, <2>1, <2>3, OneNamed DEF RegisterUncertain, ledger
  <2> QED
    BY <1>4, <2>2, <2>3 DEF RegisterUncertain
<1>5. ASSUME NEW s \in {PERMISSION, UNIT, START, HEALTH, COMPLETE, UNKNOWN}, CreateStage(s),
             UNCHANGED github
      PROVE  Named'
  <2>1. create'[active].stage # LEGACY
    BY <1>5 DEF CreateStage, CreateStageAllowed, CreateRecord
  <2> QED
    BY <1>5, <2>1 DEF CreateStage, Named, NoOrphanRegistration, Unconfirmed, Owned
<1>6. CASE CreateUnknown(p) \/ CreatePermission(p) \/ CreateUnitStage(p) \/ CreateStartStage(p)
           \/ CreateHealthStage(p) \/ CreateComplete(p)
  BY <1>5, <1>6 DEF CreateUnknown, CreatePermission, CreateUnitStage, CreateStartStage,
     CreateHealthStage, CreateComplete
<1>7. CASE CreateAttest(p)
  <2>1. /\ active \in Instances /\ remove[active].stage = ABSENT
        /\ create[active].stage = PERMISSION
        /\ \A r \in Owned : registration.id = r
    BY <1>0, <1>7 DEF CreateAttest, CreateInv, CreateBefore, StageAt
  <2>2. attestation'[active].id = registration.id
        /\ UNCHANGED <<remote, owner, active, create, remove>>
    BY <1>7, <2>1 DEF CreateAttest, CreateAttestation
  <2> QED
    BY <2>1, <2>2 DEF Named, NoOrphanRegistration, Unconfirmed, Owned
<1>8. CASE UNCHANGED <<remote, owner, active, create, remove, attestation>>
  BY <1>8, NamedShrinks
<1> QED
  BY <1>1, <1>2, <1>3, <1>4, <1>6, <1>7, <1>8 DEF CreateStep, CreatePrepare, CreateNormalize,
     NormalizeNewRegistration, InstallUnit, WriteServiceRecord, AttestUnit,
     CreateUnitAttestation, StartService, CheckHealth, ledger

LEMMA NamedRemove ==
  ASSUME LInv, NEW p \in Processes, RemoveStep(p)
  PROVE  Named'
<1> USE NoneAssumption DEF LInv, LifecycleTypeOK, TypeOK, GitHubInv, At, github, LedgerCall
<1>0. IsRemoval(p) /\ script[p].at \in GoneSteps => Owned = {}
  BY DEF RemoveInv, GoneSteps
<1>1. active = None => Owned = {}
  BY DEF Named, NoOrphanRegistration, Owned
<1>2. ASSUME RemoveBegin \/ ReconcileBegin, UNCHANGED github PROVE Named'
  <2>1. /\ active \in Instances /\ UNCHANGED <<active, create, attestation, remote, owner>>
        /\ remove'[active].stage = REMOTE_UNKNOWN /\ remove'[active].id = registration.id
    BY <1>2 DEF RemoveBegin, ReconcileBegin
  <2>2. create[active].stage # LEGACY =>
            attestation[active].issued /\ attestation[active].id = registration.id
    BY <1>2 DEF RemoveBegin, ReconcileBegin, RegistrationAttested
  <2> QED
    BY <2>1, <2>2 DEF Named, NoOrphanRegistration, Unconfirmed, Owned
<1>3. CASE BeginRemoval(p)
  <2>1. CASE RemoveBegin
    BY <1>2, <1>3, <2>1 DEF BeginRemoval
  <2>2. ASSUME NEW i \in Instances, AdoptSecureLegacyRemove(i) PROVE Named'
    BY <1>1, <1>3, <2>2, NothingNamed DEF BeginRemoval, AdoptSecureLegacyRemove
  <2> QED
    BY <1>3, <2>1, <2>2 DEF BeginRemoval
<1>4. CASE BeginReconcile(p)
  BY <1>2, <1>4 DEF BeginReconcile
<1>5. CASE AdoptLegacy(p)
  BY <1>1, <1>5, NothingNamed DEF AdoptLegacy, AdoptActivate, PointerInv, PendingConsistent
<1>6. CASE ConfirmRemoval(p) \/ CompleteRemoval(p) \/ CompleteReconcile(p) \/ AbortReconciled(p)
  <2>1. IsRemoval(p) /\ script[p].at \in GoneSteps /\ UNCHANGED <<remote, owner>>
    BY <1>6 DEF ConfirmRemoval, CompleteRemoval, CompleteReconcile, AbortReconciled, IsRemoval,
       GoneSteps
  <2> QED
    BY <1>0, <2>1, NothingNamed
<1>7. CASE Unregister(p) \/ UnregisterUncertain(p)
  BY <1>7, NamedShrinks DEF Unregister, UnregisterUncertain, ledger
<1>8. CASE UNCHANGED <<remote, owner, active, create, remove, attestation>>
  BY <1>8, NamedShrinks
<1> QED
  BY <1>3, <1>4, <1>5, <1>6, <1>7, <1>8 DEF RemoveStep, StopServiceCli, StopServiceWeb,
     QuarantineRecord, DeleteRemoved, DeleteInterrupted, ledger

LEMMA NamedStep ==
  ASSUME LInv, [LifecycleNext]_lifecycleVars
  PROVE  Named'
<1> USE DEF LInv, GitHubInv
<1>1. CASE UNCHANGED <<remote, owner, active, create, remove, attestation>>
  BY <1>1, NamedShrinks
<1>2. ASSUME NEW p \in Processes, StartScript(p) PROVE Named'
  BY <1>1, <1>2 DEF StartScript, CreateBegin, RemoveStart, ReconcileStart, RecoverStart, ledger,
     github
<1>3. ASSUME NEW p \in Processes, RecoverStep(p) PROVE Named'
  BY <1>1, <1>3 DEF RecoverStep, RecoverStop, RecoverVerify, RecoverDelete, ledger, github
<1>4. ASSUME NEW p \in Processes, Die(p) \/ Crash(p) PROVE Named'
  BY <1>1, <1>4 DEF Die, Crash, Abandon
<1>5. ASSUME NEW q \in inflight, LateRegister(q) PROVE Named'
  <2>1. Waits(q)
    BY <1>5 DEF LateRegister, Awaited
  <2>2. PICK r \in Unissued : remote' = remote \cup {r} /\ owner' = [owner EXCEPT ![r] = active]
    BY <1>5, <2>1 DEF LateRegister, Waits
  <2> QED
    BY <1>5, <2>1, <2>2, OneNamed DEF LateRegister, Waits, ledger
<1>6. ASSUME NEW q \in inflight, LateUnregister(q) PROVE Named'
  BY <1>6, NamedShrinks DEF LateUnregister, ledger
<1>7. CASE DeletedAtGitHub
  BY <1>7, NamedShrinks DEF DeletedAtGitHub, ledger
<1>8. CASE \/ \E q \in inflight : RequestLost(q)
           \/ ListenerCleansUp \/ ServiceDies \/ DirectoryClearedByHand \/ UNCHANGED lifecycleVars
  BY <1>1, <1>8 DEF RequestLost, ListenerCleansUp, ServiceDies, DirectoryClearedByHand,
     lifecycleVars, ledger, github
<1> QED
  BY <1>2, <1>3, <1>4, <1>5, <1>6, <1>7, <1>8, NamedCreate, NamedRemove
     DEF LifecycleNext, ScriptStep

\* A dead Create still waits for its request: nothing of the ledger moved.
LEMMA AwaitedSame ==
  ASSUME Awaited, inflight' \subseteq inflight, Owned' \subseteq Owned,
         UNCHANGED <<active, create, remove>>,
         \A s \in Processes : script'[s].op = "create" =>
             script'[s].at \in CreateBefore \/ script' = script
  PROVE  Awaited'
BY DEF Awaited, Waits, CreateBefore

LEMMA OwnedSame == ASSUME remote' \subseteq remote, UNCHANGED owner PROVE Owned' \subseteq Owned
BY DEF Owned

LEMMA NothingAwaited ==
  ASSUME inflight' \subseteq inflight, \A q \in inflight : q.kind # "register"
  PROVE  Awaited'
BY DEF Awaited

LEMMA AwaitedCreate ==
  ASSUME LInv, NEW p \in Processes, CreateStep(p)
  PROVE  Awaited'
<1> USE DEF LInv, LifecycleTypeOK, TypeOK, GitHubInv, At, github, LedgerCall
<1>0. inflight' = inflight
  BY DEF CreateStep, CreatePrepare, CreatePre, CreateActivate, Register, RegisterUncertain,
     CreateUnknown, CreatePermission, CreateNormalize, CreateAttest, CreateUnitStage,
     InstallUnit, WriteServiceRecord, AttestUnit, CreateStartStage, StartService,
     CreateHealthStage, CheckHealth, CreateComplete
<1>1. CASE CreatePrepare(p)
  <2>1. script[p].op # "none" /\ Goto(p, "pre") /\ "pre" \in CreateSteps
    BY <1>1 DEF CreatePrepare, CreateSteps
  <2>2. /\ script'[p] = [op |-> script[p].op, at |-> "pre", made |-> script[p].made]
        /\ \A s \in Processes \ {p} : script'[s] = NoScript
    BY <2>1, Moved
  <2> QED
    BY <1>0, <1>1, <2>2, AwaitedSame, OwnedSame DEF CreatePrepare, CreateBefore, ledger, NoScript
<1>2. CASE CreatePre(p)
  <2>1. active \in Instances => create[active].stage # PRE
    BY <1>2, NoneAssumption DEF CreatePre, CreateStagePreRegistration, PriorCycleClosed, Closed,
       PRE, COMPLETE, LEGACY, ABORTED
  <2> QED
    BY <1>0, <2>1, NothingAwaited DEF Awaited, Waits
<1>3. CASE CreateActivate(p)
  <2>1. active \in Instances => create[active].stage # PRE
    BY <1>3, NoneAssumption DEF CreateActivate, ActivateInstance, PointerInv, PendingConsistent,
       Closed, PRE, COMPLETE, LEGACY, ABORTED
  <2> QED
    BY <1>0, <2>1, NothingAwaited DEF Awaited, Waits
<1>4. CASE script[p].op = "create" /\ script[p].at \notin CreateBefore
  BY <1>0, <1>4, NothingAwaited DEF CreateInv
<1> QED
  BY <1>1, <1>2, <1>3, <1>4 DEF CreateBefore, CreateStep, Register, RegisterUncertain,
     CreateUnknown, CreatePermission, CreateNormalize, CreateAttest, CreateUnitStage,
     InstallUnit, WriteServiceRecord, AttestUnit, CreateStartStage, StartService,
     CreateHealthStage, CheckHealth, CreateComplete

LEMMA AwaitedRemove ==
  ASSUME LInv, NEW p \in Processes, RemoveStep(p)
  PROVE  Awaited'
<1> USE DEF LInv, LifecycleTypeOK, TypeOK, GitHubInv, At, github, LedgerCall
<1>0. inflight' = inflight
  BY DEF RemoveStep, BeginRemoval, AdoptLegacy, BeginReconcile, StopServiceCli, StopServiceWeb,
     QuarantineRecord, Unregister, UnregisterUncertain, ConfirmRemoval, DeleteRemoved,
     DeleteInterrupted, CompleteRemoval, CompleteReconcile, AbortReconciled
<1>1. CASE IsRemoval(p) /\ script[p].at \notin {"begin", "adopt"}
  BY <1>0, <1>1, NothingAwaited DEF RemoveInv, Awaited, Waits
<1>2. CASE BeginRemoval(p) \/ BeginReconcile(p)
  <2>1. active \in Instances => create[active].stage # PRE
    BY <1>2, NoneAssumption DEF BeginRemoval, BeginReconcile, RemoveBegin, ReconcileBegin,
       AdoptSecureLegacyRemove, PRE, COMPLETE, LEGACY, UNIT
  <2> QED
    BY <1>0, <2>1, NothingAwaited DEF Awaited, Waits
<1>3. CASE AdoptLegacy(p)
  <2>1. active = None
    BY <1>3 DEF AdoptLegacy, AdoptActivate, PointerInv, PendingConsistent
  <2> QED
    BY <1>0, <2>1, NoneAssumption, NothingAwaited DEF Awaited, Waits
<1>4. CASE DeleteInterrupted(p) /\ ~IsRemoval(p)
  <2>1. \A s \in Processes : script'[s] = NoScript
    <3>1. End(p) /\ script[p].op # "none"
      BY <1>4 DEF DeleteInterrupted, ScriptInv, NoScript
    <3> QED
      BY <3>1, Ended
  <2> QED
    BY <1>0, <1>4, <2>1, AwaitedSame, OwnedSame DEF DeleteInterrupted, ledger, NoScript
<1> QED
  BY <1>1, <1>2, <1>3, <1>4 DEF RemoveStep, StopServiceCli, StopServiceWeb, QuarantineRecord,
     Unregister, UnregisterUncertain, ConfirmRemoval, DeleteRemoved, DeleteInterrupted,
     CompleteRemoval, CompleteReconcile, AbortReconciled, IsRemoval

LEMMA AwaitedAbandon ==
  ASSUME LInv, NEW p \in Processes, Abandon(p)
  PROVE  Awaited'
<1> USE DEF LInv, LifecycleTypeOK, TypeOK, GitHubInv
<1>1. script[p].op # "none" /\ End(p) /\ UNCHANGED <<active, create, remove, remote, owner>>
  BY DEF Abandon
<1>2. \A s \in Processes : script'[s].op = "none"
  BY <1>1, Ended DEF NoScript
<1>3. ASSUME NEW q \in inflight', q.kind = "register" PROVE Waits(q)'
  <2>1. CASE q \in inflight
    BY <1>1, <1>2, <1>3, <2>1 DEF Awaited, Waits, Owned
  <2>2. CASE q \notin inflight
    <3>1. script[p].at = "register" /\ q = [kind |-> "register", cycle |-> active, id |-> None]
      BY <1>3, <2>2 DEF Abandon
    <3>2. script[p].op = "create"
      BY <1>1, <3>1 DEF ScriptInv, IsRemoval, Scripts, RemoveSteps, RecoverSteps
    <3>3. /\ active \in Instances /\ create[active].stage = PRE /\ remove[active].stage = ABSENT
          /\ Owned = {}
      BY <3>1, <3>2 DEF CreateInv, CreateBefore, StageAt
    <3> QED
      BY <1>1, <1>2, <3>1, <3>3 DEF Waits, Owned
  <2> QED
    BY <2>1, <2>2
<1> QED
  BY <1>3 DEF Awaited

LEMMA AwaitedStep ==
  ASSUME LInv, [LifecycleNext]_lifecycleVars
  PROVE  Awaited'
<1> USE DEF LInv, LifecycleTypeOK, TypeOK, GitHubInv
<1>1. ASSUME NEW p \in Processes, StartScript(p) PROVE Awaited'
  <2>1. \A s \in Processes : script'[s].op = "create" => script'[s].at \in CreateBefore
    <3>1. ASSUME NEW op \in {"create", "remove", "reconcile", "recover"}, NEW made \in BOOLEAN,
                 NEW step \in {"prepare", "begin", "stopService"}, Begin(p, op, step, made),
                 op = "create" => step = "prepare"
          PROVE  \A s \in Processes : script'[s].op = "create" => script'[s].at \in CreateBefore
      <4>1. step \in CreateSteps \cup RemoveSteps \cup RecoverSteps
        BY DEF CreateSteps, RemoveSteps, RecoverSteps
      <4>2. /\ script'[p] = [op |-> op, at |-> step, made |-> made]
            /\ \A s \in Processes \ {p} : script'[s] = NoScript
        BY <3>1, <4>1, Begun
      <4> QED
        BY <3>1, <4>2 DEF NoScript, CreateBefore
    <3> QED
      BY <1>1, <3>1, StartMoves
  <2>2. UNCHANGED <<ledger, github>>
    BY <1>1 DEF StartScript, CreateBegin, RemoveStart, ReconcileStart, RecoverStart
  <2> QED
    BY <2>1, <2>2, AwaitedSame, OwnedSame DEF ledger, github
<1>2. ASSUME NEW p \in Processes, RecoverStep(p) PROVE Awaited'
  <2>1. UNCHANGED <<ledger, github>> /\ script[p].op = "recover"
    BY <1>2 DEF RecoverStep, RecoverStop, RecoverVerify, RecoverDelete, At
  <2>2. \A s \in Processes : script'[s].op # "create"
    <3>1. CASE End(p)
      BY <2>1, <3>1, Ended DEF NoScript
    <3>2. ASSUME NEW step \in RecoverSteps, Goto(p, step)
          PROVE  \A s \in Processes : script'[s].op # "create"
      <4>1. /\ script'[p] = [op |-> script[p].op, at |-> step, made |-> script[p].made]
            /\ \A s \in Processes \ {p} : script'[s] = NoScript
        BY <2>1, <3>2, Moved
      <4> QED
        BY <2>1, <4>1 DEF NoScript
    <3> QED
      BY <1>2, <3>1, <3>2, RecoverMoves
  <2> QED
    BY <2>1, <2>2, AwaitedSame, OwnedSame DEF ledger, github
<1>3. ASSUME NEW q \in inflight, LateRegister(q) PROVE Awaited'
  <2>1. ASSUME NEW o \in inflight, o.kind = "register" PROVE o = q
    <3>1. o \in Requests /\ q \in Requests /\ q.kind = "register" /\ Waits(o) /\ Waits(q)
      BY <1>3, <2>1 DEF LateRegister, Awaited
    <3> QED
      BY <2>1, <3>1 DEF Requests, Waits
  <2> QED
    BY <1>3, <2>1 DEF LateRegister, Awaited
<1>4. ASSUME NEW q \in inflight, LateUnregister(q) \/ RequestLost(q) PROVE Awaited'
  BY <1>4, AwaitedSame, OwnedSame DEF LateUnregister, RequestLost, ledger
<1>5. CASE DeletedAtGitHub
  <2>1. inflight' = inflight /\ remote' \subseteq remote /\ UNCHANGED <<ledger, owner, script>>
    BY <1>5 DEF DeletedAtGitHub
  <2> QED
    BY <2>1, AwaitedSame, OwnedSame DEF ledger
<1>6. CASE ListenerCleansUp \/ ServiceDies \/ DirectoryClearedByHand \/ UNCHANGED lifecycleVars
  BY <1>6, AwaitedSame, OwnedSame DEF ListenerCleansUp, ServiceDies, DirectoryClearedByHand,
     lifecycleVars, ledger, github
<1> QED
  BY <1>1, <1>2, <1>3, <1>4, <1>5, <1>6, AwaitedCreate, AwaitedRemove, AwaitedAbandon
     DEF LifecycleNext, ScriptStep, Die, Crash

-----------------------------------------------------------------------------
(* Create.                                                                    *)

LEMMA Goes ==
  ASSUME LifecycleTypeOK, ScriptInv, NEW p \in Processes, script[p].op # "none",
         NEW step \in CreateSteps \cup RemoveSteps \cup RecoverSteps, Goto(p, step)
  PROVE  /\ script'[p].op = script[p].op /\ script'[p].at = step
         /\ \A s \in Processes : s # p => script'[s].op = "none"
<1>1. /\ script'[p] = [op |-> script[p].op, at |-> step, made |-> script[p].made]
      /\ \A s \in Processes \ {p} : script'[s] = NoScript
  BY Moved
<1> QED
  BY <1>1 DEF NoScript

\* Scripts of the other kinds do not make a Create.
LEMMA NoCreateRuns ==
  ASSUME \A s \in Processes : script'[s].op # "create"
  PROVE  CreateInv'
BY DEF CreateInv

LEMMA CreateInvCreate ==
  ASSUME LInv, NEW p \in Processes, CreateStep(p), Named', Awaited'
  PROVE  CreateInv'
<1> USE NoneAssumption DEF LInv, LifecycleTypeOK, TypeOK, GitHubInv, At, github, LedgerCall, disk,
        host, CreateSteps
<1>0. script[p].op = "create" => script[p].op # "none"
  OBVIOUS
<1>1. CASE CreatePrepare(p)
  <2>1. script'[p].at = "pre" /\ \A s \in Processes : s # p => script'[s].op = "none"
    BY <1>1, Goes DEF CreatePrepare
  <2>2. dir' # None /\ populated' /\ ~service'
    BY <1>1 DEF CreatePrepare, CreateInv, CreateBefore
  <2> QED
    BY <2>1, <2>2 DEF CreateInv, CreateBefore, AttestedSteps, InstalledSteps, StartedSteps
<1>2. CASE CreatePre(p)
  <2>1. script'[p].at = "activate" /\ \A s \in Processes : s # p => script'[s].op = "none"
    BY <1>2, Goes DEF CreatePre
  <2>2. dir' # None /\ populated' /\ ~service'
    BY <1>2 DEF CreatePre, CreateInv, CreateBefore
  <2> QED
    BY <2>1, <2>2 DEF CreateInv, CreateBefore, AttestedSteps, InstalledSteps, StartedSteps
<1>3. CASE CreateActivate(p)
  <2>1. script'[p].at = "register" /\ \A s \in Processes : s # p => script'[s].op = "none"
    BY <1>3, Goes DEF CreateActivate
  <2>2. dir' # None /\ populated'
    BY <1>3 DEF CreateActivate, CreateInv, CreateBefore
  <2>3. /\ active' \in Instances /\ remove'[active'].stage = ABSENT /\ create'[active'].stage = PRE
    BY <1>3 DEF CreateActivate, ActivateInstance, PointerInv, PendingConsistent, Orphan
  <2>4. active # None => Closed(active)
    BY <1>3 DEF CreateActivate, ActivateInstance, PointerInv, PendingConsistent
  <2>5. Owned' = {}
    BY <1>3, <2>4 DEF CreateActivate, Named, NoOrphanRegistration, Unconfirmed, Owned, Closed,
       REMOVED, ABSENT, REMOTE_UNKNOWN
  <2>6. \A q \in inflight' : q.kind # "register"
    BY <1>3, <2>4 DEF CreateActivate, Awaited, Waits, Closed, PRE, COMPLETE, LEGACY, ABORTED
  <2> QED
    BY <2>1, <2>2, <2>3, <2>5, <2>6 DEF CreateInv, CreateBefore, StageAt, AttestedSteps,
       InstalledSteps, StartedSteps
<1> DEFINE Here(at) == /\ script[p].op = "create" /\ script[p].at = at
           Next1(at) == /\ script'[p].at = at
                        /\ \A s \in Processes : s # p => script'[s].op = "none"
<1>4. CASE Register(p)
  <2>1. Next1("permission") /\ dir' # None /\ populated'
    BY <1>4, Goes DEF Register, CreateInv
  <2>2. /\ active \in Instances /\ remove[active].stage = ABSENT /\ create[active].stage = PRE
        /\ \A q \in inflight : q.kind # "register"
        /\ Owned = {} /\ UNCHANGED <<ledger, inflight>>
    BY <1>4 DEF Register, CreateInv, CreateBefore, StageAt
  <2>3. PICK r \in Unissued, secure \in BOOLEAN :
            /\ remote' = remote \cup {r} /\ owner' = [owner EXCEPT ![r] = active]
            /\ registration' = [present |-> TRUE, id |-> r, secure |-> secure]
    BY <1>4 DEF Register
  <2>4. Owned' = {r} /\ registration'.present /\ registration'.id = r
    BY <2>2, <2>3, OneNamed DEF ledger
  <2> QED
    BY <2>1, <2>2, <2>4 DEF CreateInv, CreateBefore, StageAt, AttestedSteps,
       InstalledSteps, StartedSteps, ledger
<1>5. CASE RegisterUncertain(p)
  <2>1. Next1("unknown") /\ dir' # None /\ populated'
    BY <1>5, Goes DEF RegisterUncertain, CreateInv
  <2>2. /\ active \in Instances /\ remove[active].stage = ABSENT /\ create[active].stage = PRE
        /\ \A q \in inflight : q.kind # "register"
        /\ UNCHANGED <<ledger, inflight>>
    BY <1>5 DEF RegisterUncertain, CreateInv, CreateBefore, StageAt
  <2> QED
    BY <2>1, <2>2 DEF CreateInv, CreateBefore, StageAt, AttestedSteps, InstalledSteps,
       StartedSteps, ledger
<1>6. CASE CreateUnknown(p) \/ CreateComplete(p)
  <2>1. script[p].op # "none" /\ End(p)
    BY <1>6 DEF CreateUnknown, CreateComplete
  <2> QED
    BY <2>1, Ended, NobodyRuns
<1>7. ASSUME NEW at, at \in {"permission", "normalize", "attest", "unit", "install", "record",
                            "unitAttest", "start", "startService", "health", "check"},
             At(p, "create", at)
      PROVE  /\ active \in Instances /\ remove[active].stage = ABSENT
             /\ create[active].stage = StageAt(at)
             /\ \A q \in inflight : q.kind # "register"
             /\ dir # None /\ populated
             /\ \A r \in Owned : registration.present /\ registration.id = r
  BY <1>7 DEF CreateInv, CreateBefore
<1>8. CASE CreatePermission(p)
  <2>1. Next1("normalize")
    BY <1>8, Goes DEF CreatePermission
  <2>2. /\ create'[active].stage = PERMISSION
        /\ UNCHANGED <<active, remove, attestation, unitAttested>>
    BY <1>7, <1>8 DEF CreatePermission, CreateStage, CreateRecord
  <2> QED
    BY <1>7, <1>8, <2>1, <2>2 DEF CreatePermission, CreateInv, CreateBefore, StageAt,
       AttestedSteps, InstalledSteps, StartedSteps, Owned
<1>9. CASE CreateNormalize(p)
  <2>1. Next1("attest")
    BY <1>9, Goes DEF CreateNormalize
  <2>2. registration'.present = registration.present /\ registration'.id = registration.id
    <3>1. registration' = [registration EXCEPT !.secure = TRUE] /\ registration.present
      BY <1>9 DEF CreateNormalize, NormalizeNewRegistration
    <3>2. registration \in [present : {TRUE}, id : RunnerIds \cup {None}, secure : BOOLEAN]
      BY <3>1, PresentRegistration
    <3> QED
      BY <3>1, <3>2
  <2>3. UNCHANGED <<ledger, dir, host, github>>
    BY <1>9 DEF CreateNormalize, NormalizeNewRegistration
  <2> QED
    BY <1>7, <1>9, <2>1, <2>2, <2>3 DEF CreateNormalize, CreateInv, CreateBefore, StageAt,
       AttestedSteps, InstalledSteps, StartedSteps, Owned, ledger
<1>10. CASE CreateAttest(p)
  <2>1. Next1("unit")
    BY <1>10, Goes DEF CreateAttest
  <2>2. /\ attestation'[active].issued /\ attestation'[active].id = registration.id
        /\ registration.secure /\ UNCHANGED <<active, create, remove, unitAttested>>
    BY <1>7, <1>10 DEF CreateAttest, CreateAttestation
  <2> QED
    BY <1>7, <1>10, <2>1, <2>2 DEF CreateAttest, CreateInv, CreateBefore, StageAt,
       AttestedSteps, InstalledSteps, StartedSteps, Owned
<1>11. ASSUME NEW at, At(p, "create", at), at \in AttestedSteps \ {"complete"}
       PROVE  /\ attestation[active].issued
              /\ registration.present =>
                     registration.secure /\ registration.id = attestation[active].id
  BY <1>11 DEF CreateInv
<1>12. CASE CreateUnitStage(p)
  <2>1. Next1("install")
    BY <1>12, Goes DEF CreateUnitStage
  <2>2. /\ create'[active].stage = UNIT /\ UNCHANGED <<active, remove, attestation, unitAttested>>
    BY <1>7, <1>12 DEF CreateUnitStage, CreateStage, CreateRecord
  <2> QED
    BY <1>7, <1>11, <1>12, <2>1, <2>2 DEF CreateUnitStage, CreateInv, CreateBefore, StageAt,
       AttestedSteps, InstalledSteps, StartedSteps, Owned
<1>13. CASE InstallUnit(p)
  <2>1. Next1(IF p = "web" THEN "unitAttest" ELSE "record")
    BY <1>13, Goes DEF InstallUnit
  <2>2. unit' = "root0644" /\ UNCHANGED <<ledger, dir, registration, service, host, github>>
    BY <1>13 DEF InstallUnit
  <2> QED
    BY <1>7, <1>11, <1>13, <2>1, <2>2 DEF InstallUnit, CreateInv, CreateBefore, StageAt,
       AttestedSteps, InstalledSteps, StartedSteps, Owned, ledger
<1>14. ASSUME NEW at, At(p, "create", at), at \in InstalledSteps \ {"complete"}
       PROVE  unit = "root0644" /\ (at \in StartedSteps => service /\ active \in unitAttested)
  BY <1>14 DEF CreateInv
<1>15. CASE WriteServiceRecord(p)
  <2>1. Next1(IF p = "web" THEN "start" ELSE "unitAttest")
    BY <1>15, Goes DEF WriteServiceRecord
  <2>2. service' /\ UNCHANGED <<ledger, dir, registration, unit, host, github>>
    BY <1>15 DEF WriteServiceRecord
  <2>3. p = "web" => active \in unitAttested
    BY <1>15 DEF WriteServiceRecord, CreateInv
  <2> QED
    BY <1>7, <1>11, <1>14, <1>15, <2>1, <2>2, <2>3 DEF WriteServiceRecord, CreateInv,
       CreateBefore, StageAt, AttestedSteps, InstalledSteps, StartedSteps, Owned, ledger
<1>16. CASE AttestUnit(p)
  <2>1. Next1(IF p = "web" THEN "record" ELSE "start")
    BY <1>16, Goes DEF AttestUnit
  <2>2. active \in unitAttested' /\ UNCHANGED <<active, create, remove, attestation>>
    BY <1>16 DEF AttestUnit, CreateUnitAttestation
  <2>3. p # "web" => service
    BY <1>16 DEF AttestUnit, CreateInv, Processes
  <2> QED
    BY <1>7, <1>11, <1>14, <1>16, <2>1, <2>2, <2>3 DEF AttestUnit, CreateInv,
       CreateBefore, StageAt, AttestedSteps, InstalledSteps, StartedSteps, Owned
<1>17. CASE CreateStartStage(p)
  <2>1. Next1("startService")
    BY <1>17, Goes DEF CreateStartStage
  <2>2. create'[active].stage = START /\ UNCHANGED <<active, remove, attestation, unitAttested>>
    BY <1>7, <1>17 DEF CreateStartStage, CreateStage, CreateRecord
  <2> QED
    BY <1>7, <1>11, <1>14, <1>17, <2>1, <2>2 DEF CreateStartStage, CreateInv,
       CreateBefore, StageAt, AttestedSteps, InstalledSteps, StartedSteps, Owned
<1>18. CASE StartService(p)
  <2>1. Next1("health")
    BY <1>18, Goes DEF StartService
  <2> QED
    BY <1>7, <1>11, <1>14, <1>18, <2>1 DEF StartService, CreateInv, CreateBefore, StageAt,
       AttestedSteps, InstalledSteps, StartedSteps, Owned, ledger
<1>19. CASE CreateHealthStage(p)
  <2>1. Next1("check")
    BY <1>19, Goes DEF CreateHealthStage
  <2>2. create'[active].stage = HEALTH /\ UNCHANGED <<active, remove, attestation, unitAttested>>
    BY <1>7, <1>19 DEF CreateHealthStage, CreateStage, CreateRecord
  <2> QED
    BY <1>7, <1>11, <1>14, <1>19, <2>1, <2>2 DEF CreateHealthStage, CreateInv,
       CreateBefore, StageAt, AttestedSteps, InstalledSteps, StartedSteps, Owned
<1>20. CASE CheckHealth(p)
  <2>1. Next1("complete")
    BY <1>20, Goes DEF CheckHealth
  <2> QED
    BY <1>7, <1>11, <1>14, <1>20, <2>1 DEF CheckHealth, CreateInv, CreateBefore, StageAt,
       AttestedSteps, InstalledSteps, StartedSteps, Owned, ledger
<1> QED
  BY <1>1, <1>2, <1>3, <1>4, <1>5, <1>6, <1>8, <1>9, <1>10, <1>12, <1>13, <1>15, <1>16, <1>17,
     <1>18, <1>19, <1>20 DEF CreateStep

\* Scripts of the other kinds, and deaths.
LEMMA NoCreateAfter ==
  ASSUME LInv, NEW p \in Processes, script[p].op \notin {"none", "create"},
         End(p) \/ \E step \in CreateSteps \cup RemoveSteps \cup RecoverSteps : Goto(p, step)
  PROVE  CreateInv'
<1> USE DEF LInv
<1>1. CASE End(p)
  BY <1>1, Ended, NobodyRuns
<1>2. ASSUME NEW step \in CreateSteps \cup RemoveSteps \cup RecoverSteps, Goto(p, step)
      PROVE  CreateInv'
  <2>1. \A s \in Processes : script'[s].op # "create"
    BY <1>2, Goes
  <2> QED
    BY <2>1, NoCreateRuns
<1> QED
  BY <1>1, <1>2

\* While a Create runs, what it relies on can only shrink.
LEMMA CreateInvWorld ==
  ASSUME LInv, UNCHANGED <<script, ledger, dir, service, unit, populated>>,
         Owned' \subseteq Owned, inflight' \subseteq inflight,
         registration' = registration \/
             (registration' = NoRegistration /\ registration.id \notin remote)
  PROVE  CreateInv'
<1> USE DEF LInv
<1>1. ~NoRegistration.present
  BY DEF NoRegistration
<1>2. \A r \in Owned' : r \in remote
  BY DEF Owned
<1>3. \A r \in Owned' : registration.present /\ registration.id = r
          => registration'.present /\ registration'.id = r
  BY <1>2
<1>4. ASSUME NEW p \in Processes, script'[p].op = "create",
             script'[p].at \notin CreateBefore \cup {"register", "unknown"}
      PROVE  \A r \in Owned' : registration'.present /\ registration'.id = r
  <2>1. \A r \in Owned : registration.present /\ registration.id = r
    BY <1>4 DEF CreateInv
  <2> QED
    BY <1>3, <2>1
<1>5. ASSUME NEW p \in Processes, script'[p].op = "create", script'[p].at \in AttestedSteps
      PROVE  /\ attestation'[active'].issued
             /\ registration'.present =>
                    registration'.secure /\ registration'.id = attestation'[active'].id
  BY <1>1, <1>5 DEF CreateInv, ledger
<1>6. ASSUME NEW p \in Processes, script'[p].op = "create", script'[p].at = "register"
      PROVE  Owned' = {}
  BY <1>6 DEF CreateInv
<1>7. ASSUME NEW p \in Processes, script'[p].op = "create"
      PROVE  /\ dir' # None
             /\ script'[p].at # "prepare" => populated'
             /\ script'[p].at \in CreateBefore => ~service'
             /\ script'[p].at \notin CreateBefore =>
                    /\ active' \in Instances /\ remove'[active'].stage = ABSENT
                    /\ create'[active'].stage = StageAt(script'[p].at)
                    /\ \A q \in inflight' : q.kind # "register"
             /\ script'[p].at \in InstalledSteps => unit' = "root0644"
             /\ script'[p].at \in StartedSteps \/ (script'[p].at = "record" /\ p = "web") =>
                    active' \in unitAttested'
             /\ script'[p].at \in StartedSteps \/ (script'[p].at = "unitAttest" /\ p = "cli")
                    => service'
  BY <1>7 DEF CreateInv, ledger
<1> QED
  BY <1>4, <1>5, <1>6, <1>7 DEF CreateInv

LEMMA CreateInvStep ==
  ASSUME LInv, [LifecycleNext]_lifecycleVars, Named', Awaited'
  PROVE  CreateInv'
<1> USE DEF LInv, LifecycleTypeOK, TypeOK, GitHubInv
<1>1. ASSUME NEW p \in Processes, CreateBegin(p) PROVE CreateInv'
  <2>1. (dir = None) \in BOOLEAN /\ Begin(p, "create", "prepare", dir = None)
    BY <1>1 DEF CreateBegin
  <2>2. "prepare" \in CreateSteps \cup RemoveSteps \cup RecoverSteps
    BY DEF CreateSteps
  <2>3. /\ script'[p].at = "prepare"
        /\ \A s \in Processes : s # p => script'[s].op # "create"
    <3>1. /\ script'[p] = [op |-> "create", at |-> "prepare", made |-> (dir = None)]
          /\ \A s \in Processes : s # p => script'[s] = NoScript
      BY <2>1, <2>2, Begun
    <3> QED
      BY <3>1 DEF NoScript
  <2>4. dir' # None
    BY <1>1, NoneAssumption DEF CreateBegin
  <2>5. ~service'
    BY <1>1 DEF CreateBegin, HostInv
  <2> QED
    BY <2>3, <2>4, <2>5 DEF CreateInv, CreateBefore, AttestedSteps, InstalledSteps, StartedSteps
<1>2. ASSUME NEW p \in Processes, RemoveStart(p) \/ ReconcileStart(p) \/ RecoverStart(p)
      PROVE  CreateInv'
  <2>1. ASSUME NEW op \in {"create", "remove", "reconcile", "recover"}, op # "create",
               NEW made \in BOOLEAN, NEW step \in {"begin", "stopService"},
               Begin(p, op, step, made)
        PROVE  \A s \in Processes : script'[s].op # "create"
    <3>1. step \in CreateSteps \cup RemoveSteps \cup RecoverSteps
      BY DEF RemoveSteps, RecoverSteps
    <3>2. /\ script'[p] = [op |-> op, at |-> step, made |-> made]
          /\ \A s \in Processes \ {p} : script'[s] = NoScript
      BY <2>1, <3>1, Begun
    <3> QED
      BY <2>1, <3>2 DEF NoScript
  <2>2. \A s \in Processes : script'[s].op # "create"
    BY <1>2, <2>1 DEF RemoveStart, ReconcileStart, RecoverStart
  <2> QED
    BY <2>2, NoCreateRuns
<1>3. ASSUME NEW p \in Processes, RemoveStep(p) PROVE CreateInv'
  <2>1. script[p].op \notin {"none", "create"}
    BY <1>3, RemoveMoves DEF ScriptInv, NoScript, IsRemoval, CreateSteps
  <2> QED
    BY <1>3, <2>1, RemoveMoves, NoCreateAfter
<1>4. ASSUME NEW p \in Processes, RecoverStep(p) PROVE CreateInv'
  BY <1>4, RecoverMoves, NoCreateAfter
<1>5. ASSUME NEW p \in Processes, Die(p) \/ Crash(p) PROVE CreateInv'
  BY <1>5, Ended, NobodyRuns DEF Die, Crash, Abandon
<1>6. ASSUME NEW q \in inflight, LateRegister(q) PROVE CreateInv'
  <2>1. \A p \in Processes : script[p].op = "create" => script[p].at \in CreateBefore
    BY <1>6 DEF LateRegister, Awaited, Waits, CreateBefore
  <2>2. UNCHANGED <<script, dir, service, populated>>
    BY <1>6 DEF LateRegister, host
  <2> QED
    BY <2>1, <2>2 DEF CreateInv, CreateBefore, AttestedSteps, InstalledSteps, StartedSteps
<1>7. ASSUME NEW q \in inflight, LateUnregister(q) \/ RequestLost(q) PROVE CreateInv'
  <2>1. Owned' \subseteq Owned
    BY <1>7 DEF LateUnregister, RequestLost, Owned
  <2> QED
    BY <1>7, <2>1, CreateInvWorld DEF LateUnregister, RequestLost, disk, host
<1>8. CASE DeletedAtGitHub
  <2>1. Owned' \subseteq Owned
    BY <1>8 DEF DeletedAtGitHub, Owned
  <2> QED
    BY <1>8, <2>1, CreateInvWorld DEF DeletedAtGitHub, disk, host
<1>9. CASE ListenerCleansUp \/ ServiceDies \/ UNCHANGED lifecycleVars
  <2>1. Owned' = Owned
    BY <1>9 DEF ListenerCleansUp, ServiceDies, lifecycleVars, Owned, github
  <2> QED
    BY <1>9, <2>1, CreateInvWorld
       DEF ListenerCleansUp, ServiceDies, lifecycleVars, disk, host, github
<1>10. CASE DirectoryClearedByHand
  <2>1. \A s \in Processes : script'[s].op # "create"
    BY <1>10, HostAssumption DEF DirectoryClearedByHand, ScriptInv, Processes
  <2> QED
    BY <2>1, NoCreateRuns
<1> QED
  BY <1>1, <1>2, <1>3, <1>4, <1>5, <1>6, <1>7, <1>8, <1>9, <1>10, CreateInvCreate
     DEF LifecycleNext, ScriptStep, StartScript

-----------------------------------------------------------------------------
(* Remove, reconciliation and recovery.                                       *)

LEMMA NoRemovalRuns ==
  ASSUME \A s \in Processes :
             script'[s].op \in {"remove", "reconcile"} => script'[s].at \in {"begin", "adopt"}
  PROVE  RemoveInv'
BY DEF RemoveInv, IsRemoval

LEMMA RemoveInvRemove ==
  ASSUME LInv, NEW p \in Processes, RemoveStep(p)
  PROVE  RemoveInv'
<1> USE NoneAssumption DEF LInv, LifecycleTypeOK, TypeOK, GitHubInv, At, github, LedgerCall, disk,
        host, RemoveSteps
<1> DEFINE Next1(at) == /\ script'[p].op = script[p].op /\ script'[p].at = at
                        /\ \A s \in Processes : s # p => script'[s].op = "none"
<1>1. ASSUME IsRemoval(p), script[p].at \notin {"begin", "adopt"}
      PROVE  active \in Instances /\ remove[active].stage # ABSENT
  BY <1>1 DEF RemoveInv
<1>2. ASSUME NEW at \in {"quarantine", "unregister", "confirm"}, IsRemoval(p),
             Next1(at), UNCHANGED <<ledger, owner>>,
             script[p].at \in {"stopService", "quarantine", "unregister", "confirm"},
             registration' = registration \/ ~registration'.present, unit' = "absent",
             at = "confirm" =>
                 Owned' = {} /\ remove[active].id \notin remote' /\ ~registration'.present
      PROVE  RemoveInv'
  <2>1. /\ active \in Instances /\ remove[active].stage = REMOTE_UNKNOWN
        /\ registration.present => registration.id = remove[active].id
        /\ remove[active].stage # ABSENT
    BY <1>2 DEF RemoveInv
  <2> QED
    BY <1>2, <2>1 DEF RemoveInv, IsRemoval, GoneSteps, ledger
<1>3. CASE BeginRemoval(p) /\ RemoveBegin
  <2>1. Next1("stopService")
    BY <1>3, Goes DEF BeginRemoval, RemoveBegin, AdoptSecureLegacyRemove, PriorCycleClosed
  <2>2. /\ active \in Instances /\ active' = active
        /\ remove'[active].stage = REMOTE_UNKNOWN /\ remove'[active].id = registration.id
        /\ registration' = registration
    BY <1>3 DEF BeginRemoval, RemoveBegin
  <2> QED
    BY <2>1, <2>2 DEF RemoveInv, IsRemoval, GoneSteps, REMOTE_UNKNOWN, ABSENT
<1>4. CASE (BeginRemoval(p) /\ \E i \in Instances : AdoptSecureLegacyRemove(i)) \/ AdoptLegacy(p)
  <2>1. Next1("adopt") \/ Next1("begin")
    BY <1>4, Goes DEF BeginRemoval, AdoptLegacy, RemoveBegin, AdoptSecureLegacyRemove
  <2> QED
    BY <2>1, NoRemovalRuns
<1>5. CASE BeginReconcile(p)
  <2>1. Next1("unregister")
    BY <1>5, Goes DEF BeginReconcile
  <2>2. /\ active \in Instances /\ active' = active
        /\ remove'[active].stage = REMOTE_UNKNOWN /\ remove'[active].id = registration.id
        /\ registration' = registration /\ unit' = "absent"
    BY <1>5 DEF BeginReconcile, ReconcileBegin
  <2> QED
    BY <2>1, <2>2 DEF RemoveInv, IsRemoval, GoneSteps, REMOTE_UNKNOWN, ABSENT
<1>6. CASE StopServiceCli(p)
  <2>1. Next1("unregister") /\ IsRemoval(p)
    BY <1>6, Goes DEF StopServiceCli, IsRemoval
  <2>2. UNCHANGED <<ledger, owner, registration>> /\ unit' = "absent"
    BY <1>6 DEF StopServiceCli, SvcUninstall, SvcUninstallPartial
  <2> QED
    BY <1>2, <1>6, <2>1, <2>2 DEF StopServiceCli
<1>7. CASE StopServiceWeb(p)
  <2>1. Next1("quarantine") /\ IsRemoval(p)
    BY <1>7, Goes DEF StopServiceWeb, IsRemoval
  <2> QED
    BY <1>2, <1>7, <2>1 DEF StopServiceWeb
<1>8. CASE QuarantineRecord(p)
  <2>1. Next1("unregister") /\ IsRemoval(p)
    BY <1>8, Goes DEF QuarantineRecord, IsRemoval
  <2> QED
    BY <1>2, <1>8, <2>1 DEF QuarantineRecord
<1>9. CASE Unregister(p)
  <2>1. Next1("confirm") /\ IsRemoval(p)
    BY <1>9, Goes DEF Unregister, IsRemoval
  <2>2. /\ remote' = remote \ {registration.id} /\ ~registration'.present
        /\ registration.present /\ UNCHANGED <<ledger, unit, owner>>
    BY <1>9 DEF Unregister, NoRegistration
  <2>3. /\ registration.id = remove[active].id /\ unit = "absent"
        /\ remove[active].stage # ABSENT
    BY <1>9, <2>1, <2>2 DEF Unregister, RemoveInv, IsRemoval
  <2>4. Owned' = {}
    BY <2>2, <2>3 DEF Named, Owned, ledger
  <2> QED
    BY <1>2, <1>9, <2>1, <2>2, <2>3, <2>4 DEF Unregister
<1>10. CASE ConfirmRemoval(p)
  <2>1. Next1("delete") /\ IsRemoval(p)
    BY <1>10, Goes DEF ConfirmRemoval, IsRemoval
  <2>2. /\ script[p].at = "confirm" /\ dir = remove[active].inode /\ active' = active
        /\ remove' = [remove EXCEPT ![active].stage = CLEANUP]
        /\ UNCHANGED <<dir, unit, registration, remote, owner>>
    BY <1>10 DEF ConfirmRemoval, RemoveConfirmRemoteRemoved, ReconcileConfirmRemoteRemoved
  <2>3. /\ active \in Instances /\ unit = "absent" /\ Owned = {}
        /\ remove[active].id \notin remote /\ ~registration.present
    BY <2>1, <2>2 DEF RemoveInv, IsRemoval, GoneSteps
  <2>4. /\ remove'[active].stage = CLEANUP /\ remove'[active].id = remove[active].id
        /\ remove'[active].inode = remove[active].inode
    BY <2>2, <2>3 DEF RemoveRecord
  <2>5. Owned' = {}
    BY <2>2, <2>3 DEF Owned
  <2> QED
    BY <2>1, <2>2, <2>3, <2>4, <2>5 DEF RemoveInv, IsRemoval, GoneSteps, CLEANUP, ABSENT
<1>11. CASE DeleteRemoved(p)
  <2>1. Next1("close") /\ IsRemoval(p)
    BY <1>11, Goes DEF DeleteRemoved, IsRemoval
  <2>2. /\ active \in Instances /\ unit = "absent" /\ Owned = {}
        /\ remove[active].id \notin remote /\ remove[active].stage # ABSENT
    BY <1>11, <2>1 DEF DeleteRemoved, RemoveInv, IsRemoval, GoneSteps
  <2>3. UNCHANGED <<ledger, unit, remote, owner>> /\ ~registration'.present /\ Owned' = {}
    BY <1>11, <2>2 DEF DeleteRemoved, DeleteDirectory, NoRegistration, Owned
  <2> QED
    BY <2>1, <2>2, <2>3 DEF RemoveInv, IsRemoval, GoneSteps, ledger
<1>12. CASE CompleteReconcile(p)
  <2>1. Next1("abort") /\ IsRemoval(p)
    BY <1>12, Goes DEF CompleteReconcile, IsRemoval
  <2>2. /\ active \in Instances /\ unit = "absent" /\ Owned = {}
        /\ remove[active].id \notin remote /\ ~registration.present
    BY <1>12, <2>1 DEF CompleteReconcile, RemoveInv, IsRemoval, GoneSteps
  <2>3. /\ active' = active /\ remove' = [remove EXCEPT ![active].stage = REMOVED]
        /\ UNCHANGED <<unit, registration, remote, owner>>
    BY <1>12 DEF CompleteReconcile, ReconcileComplete
  <2>4. remove'[active].stage = REMOVED /\ remove'[active].id = remove[active].id
    BY <2>2, <2>3 DEF RemoveRecord
  <2>5. Owned' = {}
    BY <2>2, <2>3 DEF Owned
  <2> QED
    BY <2>1, <2>2, <2>3, <2>4, <2>5 DEF RemoveInv, IsRemoval, GoneSteps, REMOVED, ABSENT
<1>13. CASE \/ UnregisterUncertain(p) \/ DeleteInterrupted(p)
            \/ CompleteRemoval(p) \/ AbortReconciled(p)
  <2>1. End(p)
    BY <1>13 DEF UnregisterUncertain, DeleteInterrupted, CompleteRemoval, AbortReconciled
  <2>2. script[p].op # "none"
    <3>1. script[p].at # "none" \/ script[p].op # "none"
      BY <1>13 DEF UnregisterUncertain, DeleteInterrupted, CompleteRemoval, AbortReconciled
    <3>2. script[p].op = "none" => script[p] = NoScript
      BY DEF ScriptInv
    <3> QED
      BY <3>1, <3>2 DEF NoScript
  <2> QED
    BY <2>1, <2>2, Ended, NobodyRuns
<1> QED
  BY <1>3, <1>4, <1>5, <1>6, <1>7, <1>8, <1>9, <1>10, <1>11, <1>12, <1>13
     DEF RemoveStep, BeginRemoval

\* While a removal runs, what it relies on can only shrink.
LEMMA RemoveInvWorld ==
  ASSUME LInv, UNCHANGED <<script, ledger, dir, unit>>,
         Owned' \subseteq Owned, remote' \subseteq remote,
         registration' = registration \/ registration' = NoRegistration
  PROVE  RemoveInv'
BY DEF LInv, RemoveInv, IsRemoval, NoRegistration, GoneSteps, ledger

LEMMA RemoveInvStep ==
  ASSUME LInv, [LifecycleNext]_lifecycleVars
  PROVE  RemoveInv'
<1> USE DEF LInv, LifecycleTypeOK, TypeOK, GitHubInv
<1>1. ASSUME NEW p \in Processes, script[p].op \in {"create", "recover"},
             End(p) \/ \E step \in CreateSteps \cup RemoveSteps \cup RecoverSteps : Goto(p, step)
      PROVE  RemoveInv'
  <2>1. CASE End(p)
    BY <1>1, <2>1, Ended, NobodyRuns
  <2>2. ASSUME NEW step \in CreateSteps \cup RemoveSteps \cup RecoverSteps, Goto(p, step)
        PROVE  RemoveInv'
    BY <1>1, <2>2, Goes, NoRemovalRuns
  <2> QED
    BY <1>1, <2>1, <2>2
<1>2. ASSUME NEW p \in Processes, StartScript(p) PROVE RemoveInv'
  <2>1. ASSUME NEW op \in {"create", "remove", "reconcile", "recover"}, NEW made \in BOOLEAN,
               NEW step \in {"prepare", "begin", "stopService"}, Begin(p, op, step, made),
               op \in {"remove", "reconcile"} => step = "begin"
        PROVE  RemoveInv'
    <3>1. step \in CreateSteps \cup RemoveSteps \cup RecoverSteps
      BY DEF CreateSteps, RemoveSteps, RecoverSteps
    <3>2. /\ script'[p] = [op |-> op, at |-> step, made |-> made]
          /\ \A s \in Processes \ {p} : script'[s] = NoScript
      BY <2>1, <3>1, Begun
    <3> QED
      BY <2>1, <3>2, NoRemovalRuns DEF NoScript
  <2> QED
    BY <1>2, <2>1, StartMoves
<1>3. ASSUME NEW p \in Processes, CreateStep(p) \/ RecoverStep(p) PROVE RemoveInv'
  BY <1>1, <1>3, CreateMoves, RecoverMoves
<1>4. ASSUME NEW p \in Processes, Die(p) \/ Crash(p) PROVE RemoveInv'
  BY <1>4, Ended, NobodyRuns DEF Die, Crash, Abandon
<1>5. ASSUME NEW q \in inflight, LateRegister(q) PROVE RemoveInv'
  <2>1. \A p \in Processes : IsRemoval(p) => script[p].at \in {"begin", "adopt"}
    BY <1>5 DEF LateRegister, Awaited, Waits, RemoveInv
  <2> QED
    BY <1>5, <2>1, NoRemovalRuns DEF LateRegister, IsRemoval
<1>6. ASSUME NEW q \in inflight, LateUnregister(q) \/ RequestLost(q) PROVE RemoveInv'
  <2>1. Owned' \subseteq Owned
    BY <1>6 DEF LateUnregister, RequestLost, Owned
  <2> QED
    BY <1>6, <2>1, RemoveInvWorld DEF LateUnregister, RequestLost, disk
<1>7. CASE DeletedAtGitHub
  <2>1. Owned' \subseteq Owned
    BY <1>7 DEF DeletedAtGitHub, Owned
  <2> QED
    BY <1>7, <2>1, RemoveInvWorld DEF DeletedAtGitHub, disk
<1>8. CASE ListenerCleansUp \/ ServiceDies \/ UNCHANGED lifecycleVars
  <2>1. Owned' = Owned /\ remote' = remote
    BY <1>8 DEF ListenerCleansUp, ServiceDies, lifecycleVars, Owned, github
  <2> QED
    BY <1>8, <2>1, RemoveInvWorld DEF ListenerCleansUp, ServiceDies, lifecycleVars, disk
<1>9. CASE DirectoryClearedByHand
  <2>1. \A s \in Processes : script'[s].op = "none"
    BY <1>9, HostAssumption DEF DirectoryClearedByHand, ScriptInv, Processes
  <2> QED
    BY <2>1, NoRemovalRuns
<1> QED
  BY <1>2, <1>3, <1>4, <1>5, <1>6, <1>7, <1>8, <1>9, RemoveInvRemove
     DEF LifecycleNext, ScriptStep

LEMMA NoRecoveryRuns ==
  ASSUME \A s \in Processes : script'[s].op # "recover"
  PROVE  RecoverInv'
BY DEF RecoverInv

LEMMA RecoverInvStep ==
  ASSUME LInv, [LifecycleNext]_lifecycleVars
  PROVE  RecoverInv'
<1> USE DEF LInv, LifecycleTypeOK, TypeOK, GitHubInv
<1>1. ASSUME NEW p \in Processes, script[p].op \in {"create", "remove", "reconcile"},
             End(p) \/ \E step \in CreateSteps \cup RemoveSteps \cup RecoverSteps : Goto(p, step)
      PROVE  RecoverInv'
  <2>1. CASE End(p)
    BY <1>1, <2>1, Ended, NobodyRuns
  <2>2. ASSUME NEW step \in CreateSteps \cup RemoveSteps \cup RecoverSteps, Goto(p, step)
        PROVE  RecoverInv'
    BY <1>1, <2>2, Goes, NoRecoveryRuns
  <2> QED
    BY <1>1, <2>1, <2>2
<1>2. ASSUME NEW p \in Processes, CreateStep(p) PROVE RecoverInv'
  BY <1>1, <1>2, CreateMoves
<1>3. ASSUME NEW p \in Processes, RemoveStep(p) PROVE RecoverInv'
  <2>1. CASE script[p].at = "delete" /\ End(p)
    BY <2>1, Ended, NobodyRuns DEF ScriptInv, NoScript
  <2> QED
    BY <1>1, <1>3, <2>1, RemoveMoves DEF IsRemoval
<1>4. ASSUME NEW p \in Processes, Die(p) \/ Crash(p) PROVE RecoverInv'
  BY <1>4, Ended, NobodyRuns DEF Die, Crash, Abandon
<1>5. ASSUME NEW p \in Processes, RecoverDelete(p) PROVE RecoverInv'
  BY <1>5, Ended, NobodyRuns DEF RecoverDelete, At
<1>6. ASSUME NEW p \in Processes, RecoverStop(p) \/ RecoverVerify(p) PROVE RecoverInv'
  <2>1. script[p].op = "recover" /\ registration' = registration
    BY <1>6 DEF RecoverStop, RecoverVerify, SvcUninstall, SvcUninstallPartial, At, disk
  <2>2. service => ~registration.present
    BY <2>1 DEF RecoverInv
  <2>3. CASE RecoverStop(p)
    <3>1. Goto(p, "verify") /\ "verify" \in RecoverSteps
      BY <2>3 DEF RecoverStop, RecoverSteps
    <3>2. /\ script'[p].at = "verify" /\ \A s \in Processes : s # p => script'[s].op = "none"
      BY <2>1, <3>1, Goes
    <3>3. service' => service
      BY <2>3 DEF RecoverStop, SvcUninstall, SvcUninstallPartial, disk
    <3> QED
      BY <2>1, <2>2, <3>2, <3>3 DEF RecoverInv
  <2>4. CASE RecoverVerify(p)
    <3>1. Goto(p, "delete") /\ "delete" \in RecoverSteps
      BY <2>4 DEF RecoverVerify, RecoverSteps
    <3>2. /\ script'[p].at = "delete" /\ \A s \in Processes : s # p => script'[s].op = "none"
      BY <2>1, <3>1, Goes
    <3>3. service /\ service' = service
      BY <2>4 DEF RecoverVerify, ServiceStateAbsent, disk
    <3> QED
      BY <2>1, <2>2, <3>2, <3>3 DEF RecoverInv
  <2> QED
    BY <1>6, <2>3, <2>4
<1>7. ASSUME NEW p \in Processes, StartScript(p) PROVE RecoverInv'
  <2>1. ASSUME NEW op \in {"create", "remove", "reconcile", "recover"}, NEW made \in BOOLEAN,
               NEW step \in {"prepare", "begin", "stopService"}, Begin(p, op, step, made)
        PROVE  script'[p].op = op /\ \A s \in Processes : s # p => script'[s].op # "recover"
    <3>1. step \in CreateSteps \cup RemoveSteps \cup RecoverSteps
      BY DEF CreateSteps, RemoveSteps, RecoverSteps
    <3>2. /\ script'[p] = [op |-> op, at |-> step, made |-> made]
          /\ \A s \in Processes : s # p => script'[s] = NoScript
      BY <2>1, <3>1, Begun
    <3> QED
      BY <3>2 DEF NoScript
  <2>2. CASE CreateBegin(p) \/ RemoveStart(p) \/ ReconcileStart(p)
    <3>1. \A s \in Processes : script'[s].op # "recover"
      BY <2>1, <2>2 DEF CreateBegin, RemoveStart, ReconcileStart
    <3> QED
      BY <3>1, NoRecoveryRuns
  <2>3. CASE RecoverStart(p)
    <3>1. \A s \in Processes : s # p => script'[s].op # "recover"
      BY <2>1, <2>3 DEF RecoverStart
    <3>2. service' /\ ~registration'.present
      BY <2>3 DEF RecoverStart, RunnerFileAbsent, disk
    <3> QED
      BY <3>1, <3>2 DEF RecoverInv
  <2> QED
    BY <1>7, <2>2, <2>3 DEF StartScript
<1>8. ASSUME NEW q \in inflight, LateRegister(q) PROVE RecoverInv'
  <2>1. ~service
    BY <1>8, NoneAssumption DEF LateRegister, Awaited, Waits, HostInv
  <2> QED
    BY <1>8, <2>1 DEF LateRegister, RecoverInv
<1>9. CASE UNCHANGED <<script, service, registration>>
  BY <1>9 DEF RecoverInv
<1>10. CASE ListenerCleansUp
  BY <1>10 DEF ListenerCleansUp, NoRegistration, RecoverInv
<1>11. CASE DirectoryClearedByHand
  <2>1. \A s \in Processes : script'[s].op # "recover"
    BY <1>11, HostAssumption DEF DirectoryClearedByHand, ScriptInv, Processes
  <2> QED
    BY <2>1, NoRecoveryRuns
<1> QED
  BY <1>2, <1>3, <1>4, <1>5, <1>6, <1>7, <1>8, <1>9, <1>10, <1>11
     DEF LifecycleNext, ScriptStep, RecoverStep, LateUnregister, RequestLost, DeletedAtGitHub,
         ServiceDies, lifecycleVars, disk

-----------------------------------------------------------------------------
(* The invariant holds.                                                       *)

LEMMA LifecycleInitTypes == LifecycleInit => LifecycleTypeOK
<1> SUFFICES ASSUME LifecycleInit PROVE LifecycleTypeOK
  OBVIOUS
<1>1. create \in [Instances -> CreateRecord] /\ remove \in [Instances -> RemoveRecord]
      /\ attestation \in [Instances -> Attestation] /\ pending \in Pending
      /\ active \in Instances \cup {None} /\ unitAttested \in SUBSET Instances
  BY DEF LifecycleInit, InitLedger, NoCreate, CreateRecord, NoRemove, RemoveRecord, Origins,
     NoAttestation, Attestation, Idle, Pending
<1>2. script \in [Processes -> Scripts]
  <2>1. NoScript \in Scripts
    BY DEF NoScript, Scripts
  <2> QED
    BY <2>1 DEF LifecycleInit
<1>3. ASSUME EmptyHost PROVE LifecycleTypeOK
  BY <1>1, <1>2, <1>3 DEF LifecycleInit, EmptyHost, LifecycleTypeOK, TypeOK, Registration, Units
<1>4. ASSUME LegacyHost PROVE LifecycleTypeOK
  <2>1. PICK r \in RunnerIds :
            /\ registration \in [present : {TRUE}, id : {r}, secure : BOOLEAN]
            /\ remote = {r}
            /\ owner = [s \in RunnerIds |-> IF s = r THEN "legacy" ELSE None]
    BY <1>4 DEF LegacyHost
  <2>2. registration \in Registration
    BY <2>1 DEF Registration
  <2> QED
    BY <1>1, <1>2, <1>4, <2>1, <2>2 DEF LifecycleInit, LegacyHost, LifecycleTypeOK, TypeOK, Units
<1> QED
  BY <1>3, <1>4 DEF LifecycleInit

LEMMA LifecycleInitInv == LifecycleInit => LInv
<1> SUFFICES ASSUME LifecycleInit PROVE LInv
  OBVIOUS
<1>1. LifecycleTypeOK
  BY LifecycleInitTypes
<1>2. RecordsInv
  BY DEF LifecycleInit, InitLedger, NoCreate, NoRemove, NoAttestation, RecordsInv,
     BoundToDirectory, BoundToRegistration, AttestedBeforeUnit, AbortedOnlyAfterRemoved,
     RecordsInOrder, Fresh, ABSENT, PRE, PERMISSION, UNIT, START, HEALTH, COMPLETE, LEGACY, ABORTED
<1>3. PointerInv
  BY DEF LifecycleInit, InitLedger, NoCreate, Idle, PointerInv, OneOpenCycle, PendingConsistent,
     NoCycleBeforePointer, Fresh
<1>4. ScriptInv /\ CreateInv /\ RemoveInv /\ RecoverInv
  BY DEF LifecycleInit, NoScript, ScriptInv, CreateInv, RemoveInv, RecoverInv, IsRemoval
<1>5. Owned = {} /\ \A r \in remote : owner[r] # None
  <2>1. CASE EmptyHost
    BY <2>1 DEF EmptyHost, Owned
  <2>2. CASE LegacyHost
    <3>1. PICK r \in RunnerIds :
              /\ remote = {r}
              /\ owner = [s \in RunnerIds |-> IF s = r THEN "legacy" ELSE None]
      BY <2>2 DEF LegacyHost
    <3>2. remote = {r} /\ owner[r] = "legacy"
      BY <3>1
    <3> QED
      BY <3>2, HostAssumption DEF Owned
  <2> QED
    BY <2>1, <2>2 DEF LifecycleInit
<1>6. GitHubInv
  BY <1>5 DEF LifecycleInit, GitHubInv, Named, Awaited, NoOrphanRegistration, Owned
<1>7. HostInv
  <2>1. active = None
    BY DEF LifecycleInit, InitLedger
  <2>2. CASE EmptyHost
    BY <2>1, <2>2 DEF EmptyHost, HostInv, NoRegistration
  <2>3. CASE LegacyHost
    BY <1>5, <2>1, <2>3, NoneAssumption DEF LegacyHost, HostInv
  <2> QED
    BY <2>2, <2>3 DEF LifecycleInit
<1> QED
  BY <1>1, <1>2, <1>3, <1>4, <1>6, <1>7 DEF LInv

LEMMA LifecycleStepInv == LInv /\ [LifecycleNext]_lifecycleVars => LInv'
<1> SUFFICES ASSUME LInv, [LifecycleNext]_lifecycleVars PROVE LInv'
  OBVIOUS
<1>1. LifecycleTypeOK' /\ RecordsInv' /\ PointerInv'
  BY TypesStep, LedgerInvStep DEF LInv, LifecycleTypeOK
<1>2. ScriptInv'
  BY ScriptsStep DEF LInv
<1>3. HostInv'
  BY HostStep
<1>4. Named' /\ Awaited'
  BY NamedStep, AwaitedStep
<1>5. CreateInv' /\ RemoveInv' /\ RecoverInv'
  BY <1>4, CreateInvStep, RemoveInvStep, RecoverInvStep
<1> QED
  BY <1>1, <1>2, <1>3, <1>4, <1>5 DEF LInv, GitHubInv

\* Along every run of the scripts, with any number of cycles, directories and
\* registrations: one script at a time, at a step whose ledger record, host
\* and registrations it may rely on, whatever died or landed before it.
THEOREM LifecycleInductive == LifecycleSpec => []LInv
  BY LifecycleInitInv, LifecycleStepInv, PTL DEF LifecycleSpec

\* Type correctness of the scripts and their host.
THEOREM LifecycleTypeCorrect == LifecycleSpec => []LifecycleTypeOK
<1>1. LInv => LifecycleTypeOK
  BY DEF LInv
<1> QED
  BY <1>1, LifecycleInductive, PTL

\* No registration is ever orphaned (RegisterUncertain, Die, Crash and
\* LateRegister included): it belongs to the active cycle, which stays open
\* until the removal of that very registration is confirmed.
THEOREM NoOrphans == LifecycleSpec => []NoOrphanRegistration
<1>1. LInv => NoOrphanRegistration
  BY DEF LInv, GitHubInv, Named
<1> QED
  BY <1>1, LifecycleInductive, PTL

\* What authorises a step at GitHub or a deletion is on disk before it.
THEOREM RecordedBeforeActing == LifecycleSpec => []DurableBeforeEffect
<1>1. LInv => DurableBeforeEffect
  <2> SUFFICES ASSUME LInv, NEW p \in Processes
               PROVE  /\ script[p].at \in {"register", "unknown"} =>
                            create[active].stage = PRE /\ remove[active].stage = ABSENT
                      /\ script[p].at \in {"stopService", "quarantine", "unregister", "confirm"}
                         /\ script[p].op \in {"remove", "reconcile"} =>
                            /\ remove[active].stage = REMOTE_UNKNOWN
                            /\ registration.present => registration.id = remove[active].id
                      /\ script[p].at = "delete" /\ script[p].op \in {"remove", "reconcile"} =>
                            remove[active].stage = CLEANUP /\ dir = remove[active].inode
    BY DEF DurableBeforeEffect
  <2>1. script[p] \in Scripts /\ (script[p].op = "none" => script[p].at = "none")
    BY DEF LInv, LifecycleTypeOK, ScriptInv, NoScript
  <2>2. script[p].at \in {"register", "unknown"} => script[p].op = "create"
    BY <2>1 DEF LInv, ScriptInv, IsRemoval, RemoveSteps, RecoverSteps, Scripts
  <2>3. script[p].at \in {"register", "unknown"} =>
            create[active].stage = PRE /\ remove[active].stage = ABSENT
    BY <2>2 DEF LInv, CreateInv, CreateBefore, StageAt
  <2> QED
    BY <2>3 DEF LInv, RemoveInv, IsRemoval
<1> QED
  BY <1>1, LifecycleInductive, PTL

-----------------------------------------------------------------------------
(* What a step may never do.                                                  *)

\* The steps that write a Remove record.
LEMMA RemoveRecordSteps ==
  ASSUME [LifecycleNext]_lifecycleVars, remove' # remove
  PROVE  \E p \in Processes : \/ BeginRemoval(p) \/ BeginReconcile(p) \/ ConfirmRemoval(p)
                              \/ CompleteRemoval(p) \/ CompleteReconcile(p)
<1>1. ASSUME NEW p \in Processes, CreateStep(p) PROVE remove' = remove
  <2>1. CASE CreatePrepare(p) \/ CreatePre(p) \/ CreateActivate(p) \/ Register(p)
             \/ RegisterUncertain(p) \/ CreateUnknown(p)
    BY <2>1 DEF CreatePrepare, CreatePre, CreateActivate, Register, RegisterUncertain,
       CreateUnknown, LedgerCall, ledger, CreateStagePreRegistration, ActivateInstance, CreateStage
  <2>2. CASE CreatePermission(p) \/ CreateNormalize(p) \/ CreateAttest(p) \/ CreateUnitStage(p)
             \/ InstallUnit(p)
    BY <2>2 DEF CreatePermission, CreateNormalize, CreateAttest, CreateUnitStage, InstallUnit,
       LedgerCall, ledger, CreateStage, CreateAttestation, NormalizeNewRegistration
  <2>3. CASE WriteServiceRecord(p) \/ AttestUnit(p) \/ CreateStartStage(p) \/ StartService(p)
             \/ CreateHealthStage(p) \/ CheckHealth(p) \/ CreateComplete(p)
    BY <2>3 DEF WriteServiceRecord, AttestUnit, CreateStartStage, StartService,
       CreateHealthStage, CheckHealth, CreateComplete, LedgerCall, ledger, CreateStage,
       CreateUnitAttestation
  <2> QED
    BY <1>1, <2>1, <2>2, <2>3 DEF CreateStep
<1>2. ASSUME NEW p \in Processes, RemoveStep(p)
      PROVE  \/ remove' = remove
             \/ BeginRemoval(p) \/ BeginReconcile(p) \/ ConfirmRemoval(p)
             \/ CompleteRemoval(p) \/ CompleteReconcile(p)
  BY <1>2 DEF RemoveStep, AdoptLegacy, LedgerCall, AdoptActivate, StopServiceCli, StopServiceWeb,
     QuarantineRecord, Unregister, UnregisterUncertain, DeleteRemoved, DeleteInterrupted,
     AbortReconciled, ReconcileAbortCreate, ledger
<1>3. ASSUME NEW p \in Processes, RecoverStep(p) \/ Die(p) \/ Crash(p) \/ StartScript(p)
      PROVE  remove' = remove
  BY <1>3 DEF RecoverStep, RecoverStop, RecoverVerify, RecoverDelete, Die, Crash, Abandon,
     StartScript, CreateBegin, RemoveStart, ReconcileStart, RecoverStart, ledger
<1> QED
  BY <1>1, <1>2, <1>3, WorldMoves DEF LifecycleNext, ScriptStep, ledger

\* The steps that write a Create record.
LEMMA CreateRecordSteps ==
  ASSUME [LifecycleNext]_lifecycleVars, create' # create
  PROVE  \E p \in Processes : \/ CreatePre(p) \/ CreateUnknown(p) \/ CreatePermission(p)
                              \/ CreateUnitStage(p) \/ CreateStartStage(p) \/ CreateHealthStage(p)
                              \/ CreateComplete(p) \/ BeginRemoval(p) \/ AbortReconciled(p)
<1>1. ASSUME NEW p \in Processes, CreateStep(p)
      PROVE  \/ create' = create
             \/ CreatePre(p) \/ CreateUnknown(p) \/ CreatePermission(p) \/ CreateUnitStage(p)
             \/ CreateStartStage(p) \/ CreateHealthStage(p) \/ CreateComplete(p)
  <2>1. CASE CreatePrepare(p) \/ CreateActivate(p) \/ Register(p) \/ RegisterUncertain(p)
             \/ CreateNormalize(p) \/ CreateAttest(p)
    BY <2>1 DEF CreatePrepare, CreateActivate, Register, RegisterUncertain, CreateNormalize,
       CreateAttest, LedgerCall, ledger, ActivateInstance, CreateAttestation,
       NormalizeNewRegistration
  <2>2. CASE InstallUnit(p) \/ WriteServiceRecord(p) \/ AttestUnit(p) \/ StartService(p)
             \/ CheckHealth(p)
    BY <2>2 DEF InstallUnit, WriteServiceRecord, AttestUnit, StartService, CheckHealth,
       LedgerCall, ledger, CreateUnitAttestation
  <2> QED
    BY <1>1, <2>1, <2>2 DEF CreateStep
<1>2. ASSUME NEW p \in Processes, RemoveStep(p)
      PROVE  create' = create \/ BeginRemoval(p) \/ AbortReconciled(p)
  <2>1. CASE AdoptLegacy(p) \/ BeginReconcile(p) \/ ConfirmRemoval(p) \/ CompleteRemoval(p)
             \/ CompleteReconcile(p)
    BY <2>1 DEF AdoptLegacy, BeginReconcile, ConfirmRemoval, CompleteRemoval, CompleteReconcile,
       LedgerCall, AdoptActivate, ReconcileBegin, RemoveConfirmRemoteRemoved,
       ReconcileConfirmRemoteRemoved, RemoveComplete, ReconcileComplete
  <2>2. CASE StopServiceCli(p) \/ StopServiceWeb(p) \/ QuarantineRecord(p) \/ Unregister(p)
             \/ UnregisterUncertain(p) \/ DeleteRemoved(p) \/ DeleteInterrupted(p)
    BY <2>2 DEF StopServiceCli, StopServiceWeb, QuarantineRecord, Unregister,
       UnregisterUncertain, DeleteRemoved, DeleteInterrupted, ledger
  <2> QED
    BY <1>2, <2>1, <2>2 DEF RemoveStep
<1>3. ASSUME NEW p \in Processes, RecoverStep(p) \/ Die(p) \/ Crash(p) \/ StartScript(p)
      PROVE  create' = create
  BY <1>3 DEF RecoverStep, RecoverStop, RecoverVerify, RecoverDelete, Die, Crash, Abandon,
     StartScript, CreateBegin, RemoveStart, ReconcileStart, RecoverStart, ledger
<1> QED
  BY <1>1, <1>2, <1>3, WorldMoves DEF LifecycleNext, ScriptStep, ledger

\* REMOVE_COMPLETE (remove_stage and reconcile COMPLETE) is written only when
\* the registration, the Unit and the directory are all gone.
THEOREM RemovalIsProven == LifecycleSpec => RemoveCompleteProven
<1>1. ASSUME LInv, [LifecycleNext]_lifecycleVars, NEW i \in Instances,
             remove'[i].stage = REMOVED, remove[i].stage # REMOVED
      PROVE  remove[i].id \notin remote /\ unit = "absent" /\ dir = None
  <2> USE DEF LInv, LifecycleTypeOK, TypeOK, LedgerCall
  <2>1. PICK p \in Processes : \/ BeginRemoval(p) \/ BeginReconcile(p) \/ ConfirmRemoval(p)
                               \/ CompleteRemoval(p) \/ CompleteReconcile(p)
    BY <1>1, RemoveRecordSteps
  <2>2. CASE BeginRemoval(p) \/ BeginReconcile(p) \/ ConfirmRemoval(p)
    <3>1. \/ remove' = remove
          \/ remove' = [remove EXCEPT ![active].stage = CLEANUP]
          \/ \E origin \in Origins : remove' = [remove EXCEPT ![active] =
                 [stage |-> REMOTE_UNKNOWN, inode |-> dir, id |-> registration.id,
                  origin |-> origin]]
      BY <2>2 DEF BeginRemoval, BeginReconcile, ConfirmRemoval, RemoveBegin, Origins,
         AdoptSecureLegacyRemove, ReconcileBegin, RemoveConfirmRemoteRemoved,
         ReconcileConfirmRemoteRemoved
    <3>2. remove'[i].stage \in {remove[i].stage, CLEANUP, REMOTE_UNKNOWN}
      BY <1>1, <3>1 DEF RemoveRecord
    <3> QED
      BY <1>1, <3>2 DEF REMOVED, CLEANUP, REMOTE_UNKNOWN
  <2>3. CASE CompleteRemoval(p) \/ CompleteReconcile(p)
    <3>1. IsRemoval(p) /\ script[p].at = "close" /\ dir = None
          /\ remove' = [remove EXCEPT ![active].stage = REMOVED]
      BY <2>3 DEF CompleteRemoval, CompleteReconcile, RemoveComplete, ReconcileComplete, At,
         IsRemoval
    <3>2. i = active
      BY <1>1, <3>1
    <3>3. remove[active].id \notin remote /\ unit = "absent"
      BY <1>1, <3>1 DEF RemoveInv, GoneSteps
    <3> QED
      BY <3>1, <3>2, <3>3
  <2> QED
    BY <2>1, <2>2, <2>3
<1>2. LInv /\ [LifecycleNext]_lifecycleVars =>
          [\A i \in Instances :
              remove'[i].stage = REMOVED /\ remove[i].stage # REMOVED =>
                  remove[i].id \notin remote /\ unit = "absent" /\ dir = None]_lifecycleVars
  BY <1>1
<1> QED
  BY <1>2, LifecycleInductive, PTL DEF LifecycleSpec, RemoveCompleteProven

\* No script (cleanup() of a Create, web-runner-cleanup.py, the CLI's rm -rf,
\* local recovery) deletes a directory whose registration exists, or may
\* still come to exist, at GitHub.
THEOREM DeletionIsSafe == LifecycleSpec => NoDeletionWhileRegistered
<1>1. ASSUME LInv, [LifecycleNext]_lifecycleVars, NEW p \in Processes,
             lock = p, dir # None, dir' = None
      PROVE  /\ registration.present => registration.id \notin remote
             /\ ActsForActive(p) =>
                    /\ \A r \in remote : owner[r] # active
                    /\ \A q \in inflight' : q.kind = "register" => q.cycle # active
  <2> USE DEF LInv, LifecycleTypeOK, TypeOK, GitHubInv
  <2>0. ASSUME Owned = {}, inflight' = inflight, \A q \in inflight : q.kind # "register"
        PROVE  /\ \A r \in remote : owner[r] # active
               /\ \A q \in inflight' : q.kind = "register" => q.cycle # active
    BY <1>1, <2>0 DEF Named, Owned
  <2>1. ASSUME NEW s \in Processes, DeleteRemoved(s)
        PROVE  ~registration.present /\ Owned = {} /\ inflight' = inflight
               /\ \A q \in inflight : q.kind # "register"
    <3>1. IsRemoval(s) /\ script[s].at = "delete" /\ inflight' = inflight
      BY <2>1 DEF DeleteRemoved, IsRemoval, github
    <3>2. ~registration.present /\ Owned = {} /\ remove[active].stage # ABSENT
      BY <1>1, <3>1 DEF RemoveInv, GoneSteps
    <3> QED
      BY <1>1, <3>1, <3>2 DEF Awaited, Waits
  <2>2. ASSUME NEW s \in Processes, RecoverDelete(s)
        PROVE  ~registration.present /\ Owned = {} /\ inflight' = inflight
               /\ \A q \in inflight : q.kind # "register"
    <3>1. script[s].op = "recover" /\ script[s].at = "delete" /\ inflight' = inflight
      BY <2>2 DEF RecoverDelete, At, github
    <3>2. service /\ ~registration.present
      BY <1>1, <3>1 DEF RecoverInv
    <3>3. Owned = {}
      BY <1>1, <3>2 DEF HostInv
    <3> QED
      BY <1>1, <3>1, <3>2, <3>3, NoneAssumption DEF Awaited, Waits, HostInv
  <2>3. ASSUME NEW s \in Processes, Die(s) \/ Crash(s)
        PROVE  ~registration.present /\ ~ActsForActive(p)
    <3>1. CleanupApplies(s)
      BY <1>1, <2>3 DEF Die, Crash, disk
    <3>2. s = p
      BY <1>1, <3>1 DEF CleanupApplies, ScriptInv
    <3> QED
      BY <3>1, <3>2 DEF CleanupApplies, RequestNotStarted, ActsForActive
  <2>4. ~(\E s \in Processes : CreateStep(s))
    <3>1. SUFFICES ASSUME NEW s \in Processes, CreateStep(s) PROVE FALSE
      OBVIOUS
    <3>2. dir' = dir
      <4>1. CASE CreatePrepare(s) \/ CreatePre(s) \/ CreateActivate(s) \/ Register(s)
                 \/ RegisterUncertain(s) \/ CreateUnknown(s)
        BY <4>1 DEF CreatePrepare, CreatePre, CreateActivate, Register, RegisterUncertain,
           CreateUnknown, LedgerCall, disk
      <4>2. CASE CreatePermission(s) \/ CreateNormalize(s) \/ CreateAttest(s)
                 \/ CreateUnitStage(s) \/ InstallUnit(s)
        BY <4>2 DEF CreatePermission, CreateNormalize, CreateAttest, CreateUnitStage,
           InstallUnit, LedgerCall, disk
      <4>3. CASE WriteServiceRecord(s) \/ AttestUnit(s) \/ CreateStartStage(s)
                 \/ StartService(s) \/ CreateHealthStage(s) \/ CheckHealth(s)
                 \/ CreateComplete(s)
        BY <4>3 DEF WriteServiceRecord, AttestUnit, CreateStartStage, StartService,
           CreateHealthStage, CheckHealth, CreateComplete, LedgerCall, disk
      <4> QED
        BY <3>1, <4>1, <4>2, <4>3 DEF CreateStep
    <3> QED
      BY <1>1, <3>2
  <2>5. ASSUME NEW s \in Processes, RemoveStep(s) PROVE DeleteRemoved(s)
    <3>1. CASE BeginRemoval(s) \/ AdoptLegacy(s) \/ BeginReconcile(s) \/ StopServiceCli(s)
               \/ StopServiceWeb(s) \/ QuarantineRecord(s) \/ Unregister(s)
      BY <1>1, <3>1 DEF BeginRemoval, AdoptLegacy, BeginReconcile, StopServiceCli,
         StopServiceWeb, QuarantineRecord, Unregister, LedgerCall, disk, SvcUninstall,
         SvcUninstallPartial
    <3>2. CASE UnregisterUncertain(s) \/ ConfirmRemoval(s) \/ DeleteInterrupted(s)
               \/ CompleteRemoval(s) \/ CompleteReconcile(s) \/ AbortReconciled(s)
      BY <1>1, <3>2 DEF UnregisterUncertain, ConfirmRemoval, DeleteInterrupted,
         CompleteRemoval, CompleteReconcile, AbortReconciled, LedgerCall, disk
    <3> QED
      BY <2>5, <3>1, <3>2 DEF RemoveStep
  <2>6. ASSUME NEW s \in Processes, RecoverStep(s) PROVE RecoverDelete(s)
    BY <1>1, <2>6 DEF RecoverStep, RecoverStop, RecoverVerify, disk, SvcUninstall,
       SvcUninstallPartial
  <2>7. ~(\E s \in Processes : StartScript(s))
    BY <1>1, NoneAssumption DEF StartScript, CreateBegin, RemoveStart, ReconcileStart,
       RecoverStart, disk
  <2>8. ~(\/ \E q \in inflight : LateRegister(q) \/ LateUnregister(q) \/ RequestLost(q)
          \/ DeletedAtGitHub \/ ListenerCleansUp \/ ServiceDies \/ DirectoryClearedByHand
          \/ UNCHANGED lifecycleVars)
    BY <1>1, HostAssumption DEF LateRegister, LateUnregister, RequestLost, DeletedAtGitHub,
       ListenerCleansUp, ServiceDies, DirectoryClearedByHand, lifecycleVars, disk, Processes
  <2>9. \E s \in Processes : DeleteRemoved(s) \/ RecoverDelete(s) \/ Die(s) \/ Crash(s)
    BY <1>1, <2>4, <2>5, <2>6, <2>7, <2>8 DEF LifecycleNext, ScriptStep
  <2> QED
    BY <2>0, <2>1, <2>2, <2>3, <2>9
<1>2. LInv /\ [LifecycleNext]_lifecycleVars =>
          [\A p \in Processes : lock = p /\ dir # None /\ dir' = None =>
              /\ registration.present => registration.id \notin remote
              /\ ActsForActive(p) =>
                     /\ \A r \in remote : owner[r] # active
                     /\ \A q \in inflight' : q.kind = "register" => q.cycle # active
          ]_lifecycleVars
  BY <1>1
<1> QED
  BY <1>2, LifecycleInductive, PTL DEF LifecycleSpec, NoDeletionWhileRegistered

\* A Remove freezes the Create record of its cycle; only reconciliation
\* COMPLETE still moves it, to the terminal CREATE_ABORTED_RECONCILED.
THEOREM RemoveFreezes == LifecycleSpec => RemoveFreezesCreate
<1>1. ASSUME LInv, [LifecycleNext]_lifecycleVars, NEW i \in Instances,
             remove[i].stage # ABSENT, create'[i] # create[i]
      PROVE  create[i].stage = UNIT /\ create'[i].stage = ABORTED
  <2> USE DEF LInv, LifecycleTypeOK, TypeOK, LedgerCall, At
  <2>1. PICK p \in Processes : \/ CreatePre(p) \/ CreateUnknown(p) \/ CreatePermission(p)
                               \/ CreateUnitStage(p) \/ CreateStartStage(p)
                               \/ CreateHealthStage(p) \/ CreateComplete(p) \/ BeginRemoval(p)
                               \/ AbortReconciled(p)
    BY <1>1, CreateRecordSteps
  <2>2. ~Fresh(i)
    <3>1. create[i].stage \in {UNIT, START, HEALTH, COMPLETE, UNKNOWN, LEGACY, ABORTED}
      BY <1>1 DEF RecordsInv, RecordsInOrder
    <3> QED
      BY <3>1 DEF Fresh, ABSENT, UNIT, START, HEALTH, COMPLETE, UNKNOWN, LEGACY, ABORTED
  <2>3. ~CreatePre(p) /\ ~BeginRemoval(p)
    BY <1>1, <2>2 DEF CreatePre, BeginRemoval, CreateStagePreRegistration,
       AdoptSecureLegacyRemove, RemoveBegin
  <2>4. ASSUME NEW s, CreateStage(s), script[p].op = "create", script[p].at \notin CreateBefore
        PROVE  FALSE
    <3>1. remove[active].stage = ABSENT
      BY <1>1, <2>4 DEF CreateInv
    <3> QED
      BY <1>1, <2>4, <3>1 DEF CreateStage
  <2>5. AbortReconciled(p)
    BY <2>1, <2>3, <2>4 DEF CreateUnknown, CreatePermission, CreateUnitStage, CreateStartStage,
       CreateHealthStage, CreateComplete, CreateBefore
  <2> QED
    BY <1>1, <2>5 DEF AbortReconciled, ReconcileAbortCreate, CompletionStateMatches, CreateRecord
<1>2. LInv /\ [LifecycleNext]_lifecycleVars =>
          [\A i \in Instances :
              remove[i].stage # ABSENT /\ create'[i] # create[i] =>
                  create[i].stage = UNIT /\ create'[i].stage = ABORTED]_lifecycleVars
  BY <1>1
<1> QED
  BY <1>2, LifecycleInductive, PTL DEF LifecycleSpec, RemoveFreezesCreate

\* CREATE_COMPLETE is written over the attested Unit, its .service record and
\* the owner-only files of the attested registration, whatever GitHub and the
\* listener did since the attestation.
THEOREM CompletionIsChecked == LifecycleSpec => CompletionChecked
<1>1. ASSUME LInv, [LifecycleNext]_lifecycleVars, NEW i \in Instances,
             create'[i].stage = COMPLETE, create[i].stage # COMPLETE
      PROVE  /\ i \in unitAttested /\ unit = "root0644" /\ service
             /\ registration.present =>
                    registration.secure /\ registration.id = attestation[i].id
  <2> USE DEF LInv, LifecycleTypeOK, TypeOK, LedgerCall, At
  <2>1. PICK p \in Processes : \/ CreatePre(p) \/ CreateUnknown(p) \/ CreatePermission(p)
                               \/ CreateUnitStage(p) \/ CreateStartStage(p)
                               \/ CreateHealthStage(p) \/ CreateComplete(p) \/ BeginRemoval(p)
                               \/ AbortReconciled(p)
    BY <1>1, CreateRecordSteps
  <2>2. ~CreatePre(p) /\ ~BeginRemoval(p)
    BY <1>1 DEF CreatePre, BeginRemoval, CreateStagePreRegistration, AdoptSecureLegacyRemove,
       RemoveBegin, PRE, LEGACY, COMPLETE
  <2>3. ~AbortReconciled(p)
    BY <1>1 DEF AbortReconciled, ReconcileAbortCreate, CompletionStateMatches, CreateRecord,
       ABORTED, COMPLETE
  <2>4. ASSUME NEW s \in {UNKNOWN, PERMISSION, UNIT, START, HEALTH, COMPLETE}, CreateStage(s)
        PROVE  s = COMPLETE /\ i = active
    BY <1>1, <2>4 DEF CreateStage, CreateRecord, UNKNOWN, PERMISSION, UNIT, START, HEALTH, COMPLETE
  <2>5. CreateComplete(p) /\ i = active
    BY <2>1, <2>2, <2>3, <2>4 DEF CreateUnknown, CreatePermission, CreateUnitStage,
       CreateStartStage, CreateHealthStage, CreateComplete, UNKNOWN, PERMISSION, UNIT, START,
       HEALTH, COMPLETE
  <2> QED
    BY <1>1, <2>5 DEF CreateComplete, CreateInv, AttestedSteps, InstalledSteps, StartedSteps
<1>2. LInv /\ [LifecycleNext]_lifecycleVars =>
          [\A i \in Instances :
              create'[i].stage = COMPLETE /\ create[i].stage # COMPLETE =>
                  /\ i \in unitAttested /\ unit = "root0644" /\ service
                  /\ registration.present =>
                         registration.secure /\ registration.id = attestation[i].id
          ]_lifecycleVars
  BY <1>1
<1> QED
  BY <1>2, LifecycleInductive, PTL DEF LifecycleSpec, CompletionChecked

-----------------------------------------------------------------------------
(* The scripts implement the abstract slot.                                   *)

\* Create, Remove, reconciliation and recovery, with their crashes and late
\* requests, use one runner slot as RunnerSlot says: they change the ledger by
\* its own calls only, and what dies half way stutters.
THEOREM ScriptsImplementSlot == LifecycleSpec => ImplementsSlot
<1>1. LifecycleInit => Slot!SlotInit
  BY NoneAssumption DEF LifecycleInit, InitLedger, NoCreate, Slot!SlotInit, SlotPhase,
     SlotSpent, Closed, ABSENT, COMPLETE, LEGACY, ABORTED
<1>2. LInv /\ [LifecycleNext]_lifecycleVars => [Slot!SlotNext]_Slot!slotVars
  <2> SUFFICES ASSUME LInv, [LifecycleNext]_lifecycleVars
               PROVE  [Slot!SlotNext]_Slot!slotVars
    OBVIOUS
  <2>1. CASE LedgerStep /\ UNCHANGED disk
    <3>1. IInv /\ [Next]_vars
      BY <2>1 DEF LInv, LifecycleTypeOK, IInv, Next
    <3> QED
      BY <3>1, NextSlot
  <2>2. CASE UNCHANGED <<active, create, remove>>
    BY <2>2 DEF Slot!slotVars, SlotPhase, SlotSpent, Closed
  <2> QED
    BY <2>1, <2>2, LedgerMoves DEF ledger
<1> QED
  BY <1>1, <1>2, LifecycleInductive, PTL DEF LifecycleSpec, ImplementsSlot, Slot!SlotSpec
=============================================================================
