---------------------- MODULE LifecycleAuthorityProofs ----------------------
(* Theorems about the lifecycle ledger, for any number of instances,          *)
(* directories, registrations and wrappers.                                   *)
EXTENDS LifecycleAuthority, TLAPS

-----------------------------------------------------------------------------
(* Types.                                                                     *)

\* Registration files that are there carry an agentId or none, and a mode.
LEMMA PresentRegistration ==
    ASSUME registration \in Registration, registration.present
    PROVE  registration \in [present : {TRUE}, id : RunnerIds \cup {None}, secure : BOOLEAN]
<1>1. NoRegistration.present = FALSE
  BY DEF NoRegistration
<1>2. registration # NoRegistration
  BY <1>1
<1> QED
  BY <1>2 DEF Registration

\* Moving a record to another stage keeps it a record.
LEMMA RemoveStageTyped ==
    ASSUME remove \in [Instances -> RemoveRecord], NEW i \in Instances,
           NEW s \in RemoveStages
    PROVE  [remove EXCEPT ![i].stage = s] \in [Instances -> RemoveRecord]
  BY DEF RemoveRecord

LEMMA CreateStageTyped ==
    ASSUME create \in [Instances -> CreateRecord], NEW i \in Instances,
           NEW s \in CreateStages
    PROVE  [create EXCEPT ![i].stage = s] \in [Instances -> CreateRecord]
  BY DEF CreateRecord

LEMMA InitTypeOK == Init => TypeOK
<1> SUFFICES ASSUME Init PROVE TypeOK
  OBVIOUS
<1>1. create \in [Instances -> CreateRecord]
  BY DEF Init, InitLedger, NoCreate, CreateRecord
<1>2. remove \in [Instances -> RemoveRecord]
  BY DEF Init, InitLedger, NoRemove, RemoveRecord, Origins
<1>3. attestation \in [Instances -> Attestation]
  BY DEF Init, InitLedger, NoAttestation, Attestation
<1>4. pending \in Pending
  BY DEF Init, InitLedger, Idle, Pending
<1> QED
  BY <1>1, <1>2, <1>3, <1>4 DEF Init, InitLedger, InitDisk, TypeOK

LEMMA NextTypeOK == TypeOK /\ [Next]_vars => TypeOK'
<1> SUFFICES ASSUME TypeOK, [Next]_vars PROVE TypeOK'
  OBVIOUS
<1> USE DEF TypeOK, CreateRecord, RemoveRecord, Attestation, Pending, Idle,
            ledger, disk
<1>1. ASSUME NEW i \in Instances, CreateStagePreRegistration(i), UNCHANGED disk
      PROVE TypeOK'
  BY <1>1 DEF CreateStagePreRegistration, DirectoryUsable, CreateStages, STAGES
<1>2. CASE ActivateInstance /\ UNCHANGED disk
  BY <1>2 DEF ActivateInstance
<1>3. ASSUME NEW s \in STAGES \cup {UNKNOWN}, CreateStage(s), UNCHANGED disk
      PROVE TypeOK'
  BY <1>3, CreateStageTyped DEF CreateStage, CreateStageAllowed, CreateStages
<1>4. CASE CreateAttestation /\ UNCHANGED disk
  <2>1. registration.id \in RunnerIds \cup {None}
    BY <1>4, PresentRegistration DEF CreateAttestation
  <2> QED
    BY <1>4, <2>1 DEF CreateAttestation, InCreateDirectory, DirectoryUsable
<1>5. CASE CreateUnitAttestation /\ UNCHANGED disk
  BY <1>5 DEF CreateUnitAttestation
<1>6. ASSUME NEW i \in Instances, AdoptSecureLegacyRemove(i), UNCHANGED disk
      PROVE TypeOK'
  BY <1>6 DEF AdoptSecureLegacyRemove, DirectoryUsable, CreateStages
<1>7. CASE AdoptActivate /\ UNCHANGED disk
  BY <1>7 DEF AdoptActivate
<1>8. CASE RemoveBegin /\ UNCHANGED disk
  <2>1. registration.id \in RunnerIds \cup {None}
    BY <1>8, PresentRegistration DEF RemoveBegin
  <2> QED
    BY <1>8, <2>1 DEF RemoveBegin, InCreateDirectory, DirectoryUsable, RemoveStages, Origins
<1>9. CASE RemoveConfirmRemoteRemoved /\ UNCHANGED disk
  BY <1>9, RemoveStageTyped DEF RemoveConfirmRemoteRemoved, RemoveStages
<1>10. CASE RemoveComplete /\ UNCHANGED disk
  BY <1>10, RemoveStageTyped DEF RemoveComplete, RemoveStages
<1>11. CASE ReconcileBegin /\ UNCHANGED disk
  <2>1. registration.id \in RunnerIds \cup {None}
    BY <1>11, PresentRegistration DEF ReconcileBegin
  <2> QED
    BY <1>11, <2>1 DEF ReconcileBegin, InCreateDirectory, DirectoryUsable, RemoveStages,
                       Origins
<1>12. CASE ReconcileConfirmRemoteRemoved /\ UNCHANGED disk
  BY <1>9, <1>12 DEF ReconcileConfirmRemoteRemoved
<1>13. CASE ReconcileComplete /\ UNCHANGED disk
  <2>1. active \in Instances
    BY <1>13 DEF ReconcileComplete
  <2>2. remove' \in [Instances -> RemoveRecord]
    BY <1>13, <2>1, RemoveStageTyped DEF ReconcileComplete, RemoveStages
  <2>3. pending' \in Pending
    BY <1>13, <2>1 DEF ReconcileComplete
  <2> QED
    BY <1>13, <2>2, <2>3 DEF ReconcileComplete
<1>14. CASE ReconcileAbortCreate /\ UNCHANGED disk
  <2>1. create' \in [Instances -> CreateRecord]
    <3>1. CASE pending.inst \in Instances
      <4>1. [create EXCEPT ![pending.inst].stage = ABORTED] \in [Instances -> CreateRecord]
        BY <3>1, CreateStageTyped DEF CreateStages
      <4>2. create' \in {create, [create EXCEPT ![pending.inst].stage = ABORTED]}
        BY <1>14 DEF ReconcileAbortCreate, CompletionStateMatches
      <4> QED
        BY <4>1, <4>2
    <3>2. CASE pending.inst \notin Instances
      BY <1>14, <3>2 DEF ReconcileAbortCreate, CompletionStateMatches
    <3> QED
      BY <3>1, <3>2
  <2>2. pending' \in Pending
    BY <1>14 DEF ReconcileAbortCreate, CompletionStateMatches
  <2> QED
    BY <1>14, <2>1, <2>2 DEF ReconcileAbortCreate, CompletionStateMatches
<1>15. CASE CrashBetweenPublishes /\ UNCHANGED disk
  BY <1>15 DEF CrashBetweenPublishes
<1>16. CASE NormalizeNewRegistration /\ UNCHANGED <<dir, service, unit, wrapper>>
  <2>1. registration' \in Registration
    <3>1. registration \in [present : {TRUE}, id : RunnerIds \cup {None}, secure : BOOLEAN]
      BY <1>16, PresentRegistration DEF NormalizeNewRegistration
    <3>2. [registration EXCEPT !.secure = TRUE]
              \in [present : {TRUE}, id : RunnerIds \cup {None}, secure : BOOLEAN]
      BY <3>1
    <3> QED
      BY <1>16, <3>2 DEF NormalizeNewRegistration, Registration
  <2> QED
    BY <1>16, <2>1 DEF NormalizeNewRegistration
<1>17. CASE EnvironmentDirectory
  BY <1>17 DEF EnvironmentDirectory
<1>18. CASE EnvironmentRegistration
  BY <1>18 DEF EnvironmentRegistration
<1>19. CASE EnvironmentService
  BY <1>19 DEF EnvironmentService
<1>20. CASE UNCHANGED vars
  BY <1>20 DEF vars
<1> QED
  BY <1>1, <1>2, <1>3, <1>4, <1>5, <1>6, <1>7, <1>8, <1>9, <1>10, <1>11, <1>12,
     <1>13, <1>14, <1>15, <1>16, <1>17, <1>18, <1>19, <1>20
     DEF Next, LedgerStep

\* Type correctness of the ledger for every value of the constants.
THEOREM TypeCorrect == Spec => []TypeOK
  BY InitTypeOK, NextTypeOK, PTL DEF Spec

-----------------------------------------------------------------------------
(* The records of one instance.                                               *)

\* The part of the invariant that speaks of the records of each instance by
\* itself; the pointer and the pending publish do not matter to it.
RecordsInv ==
    /\ BoundToDirectory
    /\ BoundToRegistration
    /\ AttestedBeforeUnit
    /\ AbortedOnlyAfterRemoved
    /\ RecordsInOrder

LEMMA InitRecordsInv == Init => RecordsInv
  BY DEF Init, InitLedger, NoCreate, NoRemove, NoAttestation, RecordsInv,
         BoundToDirectory, BoundToRegistration, AttestedBeforeUnit,
         AbortedOnlyAfterRemoved, RecordsInOrder, Fresh, ABSENT, PRE, PERMISSION, UNIT,
         START, HEALTH, COMPLETE, LEGACY, ABORTED

LEMMA LedgerRecordsInv ==
    ASSUME TypeOK, RecordsInv, LedgerStep
    PROVE  RecordsInv'
<1> USE DEF RecordsInv, BoundToDirectory, BoundToRegistration, AttestedBeforeUnit,
            AbortedOnlyAfterRemoved, RecordsInOrder, Fresh, TypeOK, CreateRecord,
            RemoveRecord, Attestation, ABSENT, PRE, PERMISSION, UNIT, START, HEALTH,
            COMPLETE, LEGACY, ABORTED, UNKNOWN
<1>1. ASSUME NEW i \in Instances, CreateStagePreRegistration(i) PROVE RecordsInv'
  BY <1>1 DEF CreateStagePreRegistration
<1>2. CASE ActivateInstance
  BY <1>2 DEF ActivateInstance
<1>3. ASSUME NEW s \in STAGES \cup {UNKNOWN}, CreateStage(s) PROVE RecordsInv'
  BY <1>3 DEF CreateStage, CreateStageAllowed, StagesInProgress, STAGES, StageIndex,
              AttestationMatches
<1>4. CASE CreateAttestation
  BY <1>4 DEF CreateAttestation, InCreateDirectory
<1>5. CASE CreateUnitAttestation
  BY <1>5 DEF CreateUnitAttestation
<1>6. ASSUME NEW i \in Instances, AdoptSecureLegacyRemove(i) PROVE RecordsInv'
  BY <1>6 DEF AdoptSecureLegacyRemove
<1>7. CASE AdoptActivate
  BY <1>7 DEF AdoptActivate
<1>8. CASE RemoveBegin
  BY <1>8 DEF RemoveBegin, InCreateDirectory, RegistrationAttested, REMOTE_UNKNOWN
<1>9. CASE RemoveConfirmRemoteRemoved
  BY <1>9 DEF RemoveConfirmRemoteRemoved, REMOTE_UNKNOWN, CLEANUP, REMOVED
<1>10. CASE RemoveComplete
  BY <1>10 DEF RemoveComplete, CLEANUP, REMOVED
<1>11. CASE ReconcileBegin
  BY <1>11 DEF ReconcileBegin, InCreateDirectory, RegistrationAttested, REMOTE_UNKNOWN
<1>12. CASE ReconcileConfirmRemoteRemoved
  BY <1>9, <1>12 DEF ReconcileConfirmRemoteRemoved
<1>13. CASE ReconcileComplete
  BY <1>13 DEF ReconcileComplete, CLEANUP, REMOVED
<1>14. CASE ReconcileAbortCreate
  <2>1. CASE create' = create
    BY <1>14, <2>1 DEF ReconcileAbortCreate, CompletionStateMatches
  <2>2. CASE create' # create
    <3>1. create' = [create EXCEPT ![pending.inst].stage = ABORTED]
          /\ create[pending.inst].stage = UNIT /\ remove[pending.inst].stage = REMOVED
      BY <1>14, <2>2 DEF ReconcileAbortCreate, CompletionStateMatches
    <3>2. pending.inst \in Instances
      BY <2>2, <3>1
    <3>3. UNCHANGED <<remove, attestation, unitAttested>>
      BY <1>14 DEF ReconcileAbortCreate, CompletionStateMatches
    <3> QED
      BY <3>1, <3>2, <3>3 DEF REMOVED
  <2> QED
    BY <2>1, <2>2
<1>15. CASE CrashBetweenPublishes
  BY <1>15 DEF CrashBetweenPublishes
<1> QED
  BY <1>1, <1>2, <1>3, <1>4, <1>5, <1>6, <1>7, <1>8, <1>9, <1>10, <1>11, <1>12,
     <1>13, <1>14, <1>15 DEF LedgerStep

LEMMA NextRecordsInv == TypeOK /\ RecordsInv /\ [Next]_vars => RecordsInv'
<1> SUFFICES ASSUME TypeOK, RecordsInv, [Next]_vars PROVE RecordsInv'
  OBVIOUS
<1>1. CASE LedgerStep
  BY <1>1, LedgerRecordsInv
<1>2. CASE UNCHANGED ledger
  BY <1>2 DEF ledger, RecordsInv, BoundToDirectory, BoundToRegistration,
              AttestedBeforeUnit, AbortedOnlyAfterRemoved, RecordsInOrder, Fresh
<1> QED
  BY <1>1, <1>2 DEF Next, vars, NormalizeNewRegistration, EnvironmentDirectory,
                    EnvironmentRegistration, EnvironmentService

-----------------------------------------------------------------------------
(* The pointer and the publish that is still to come.                         *)

PointerInv == OneOpenCycle /\ PendingConsistent /\ NoCycleBeforePointer

LEMMA InitPointerInv == Init => PointerInv
  BY DEF Init, InitLedger, NoCreate, Idle, PointerInv, OneOpenCycle, PendingConsistent,
         NoCycleBeforePointer, Fresh

LEMMA LedgerPointerInv ==
    ASSUME TypeOK, RecordsInv, PointerInv, LedgerStep
    PROVE  PointerInv'
<1> USE DEF PointerInv, OneOpenCycle, PendingConsistent, NoCycleBeforePointer,
            Fresh, Orphan, Closed, TypeOK, CreateRecord, RemoveRecord, Attestation,
            ABSENT, PRE, PERMISSION, UNIT, START, HEALTH, COMPLETE, LEGACY, ABORTED,
            UNKNOWN, REMOVED
<1>0. \A i \in Instances : Fresh(i) =>
          /\ remove[i].stage = ABSENT
          /\ ~attestation[i].issued /\ i \notin unitAttested
  BY DEF RecordsInv, RecordsInOrder
<1>00. active # None => active \in Instances
  OBVIOUS
<1>1. ASSUME NEW i \in Instances, CreateStagePreRegistration(i) PROVE PointerInv'
  BY <1>0, <1>1, NoneAssumption
     DEF CreateStagePreRegistration, Idle, PriorCycleClosed, PriorInodeNotReused
<1>2. CASE ActivateInstance
  BY <1>2, NoneAssumption DEF ActivateInstance, Idle
<1>3. ASSUME NEW s \in STAGES \cup {UNKNOWN}, CreateStage(s) PROVE PointerInv'
  BY <1>3 DEF CreateStage, CreateStageAllowed, StagesInProgress, STAGES, Idle
<1>4. CASE CreateAttestation
  BY <1>4 DEF CreateAttestation, Idle
<1>5. CASE CreateUnitAttestation
  BY <1>5 DEF CreateUnitAttestation, Idle
<1>6. ASSUME NEW i \in Instances, AdoptSecureLegacyRemove(i) PROVE PointerInv'
  BY <1>0, <1>6, NoneAssumption DEF AdoptSecureLegacyRemove, Idle
<1>7. CASE AdoptActivate
  BY <1>7, NoneAssumption DEF AdoptActivate, Idle
<1>8. CASE RemoveBegin
  BY <1>8 DEF RemoveBegin, Idle, REMOTE_UNKNOWN
<1>9. CASE RemoveConfirmRemoteRemoved
  BY <1>9 DEF RemoveConfirmRemoteRemoved, Idle, REMOTE_UNKNOWN, CLEANUP
<1>10. CASE RemoveComplete
  BY <1>10 DEF RemoveComplete, Idle, CLEANUP
<1>11. CASE ReconcileBegin
  BY <1>11 DEF ReconcileBegin, Idle, REMOTE_UNKNOWN
<1>12. CASE ReconcileConfirmRemoteRemoved
  BY <1>9, <1>12 DEF ReconcileConfirmRemoteRemoved
<1>13. CASE ReconcileComplete
  BY <1>13, <1>00 DEF ReconcileComplete, Idle, CLEANUP
<1>14. CASE ReconcileAbortCreate
  BY <1>14, <1>00 DEF ReconcileAbortCreate, CompletionStateMatches, Idle
<1>15. CASE CrashBetweenPublishes
  BY <1>15 DEF CrashBetweenPublishes, Idle
<1> QED
  BY <1>1, <1>2, <1>3, <1>4, <1>5, <1>6, <1>7, <1>8, <1>9, <1>10, <1>11, <1>12,
     <1>13, <1>14, <1>15 DEF LedgerStep

LEMMA NextPointerInv == TypeOK /\ RecordsInv /\ PointerInv /\ [Next]_vars => PointerInv'
<1> SUFFICES ASSUME TypeOK, RecordsInv, PointerInv, [Next]_vars PROVE PointerInv'
  OBVIOUS
<1>1. CASE LedgerStep
  BY <1>1, LedgerPointerInv
<1>2. CASE UNCHANGED ledger
  BY <1>2 DEF ledger, PointerInv, OneOpenCycle, PendingConsistent, NoCycleBeforePointer,
              Fresh, Orphan, Closed
<1> QED
  BY <1>1, <1>2 DEF Next, vars, NormalizeNewRegistration, EnvironmentDirectory,
                    EnvironmentRegistration, EnvironmentService

-----------------------------------------------------------------------------
(* The safety properties.                                                     *)

\* The inductive invariant of the ledger.
IInv == TypeOK /\ RecordsInv /\ PointerInv

THEOREM Inductive == Spec => []IInv
<1>1. Init => IInv
  BY InitTypeOK, InitRecordsInv, InitPointerInv DEF IInv
<1>2. IInv /\ [Next]_vars => IInv'
  BY NextTypeOK, NextRecordsInv, NextPointerInv DEF IInv
<1> QED
  BY <1>1, <1>2, PTL DEF Spec

\* However authority calls, crashes of their writers and changes of the host
\* interleave, at most one cycle of a slot is open.
THEOREM AtMostOneOpenCycle == Spec => []OneOpenCycle
<1>1. IInv => OneOpenCycle
  BY DEF IInv, PointerInv
<1> QED
  BY <1>1, Inductive, PTL

\* Every attestation and every Remove record names the directory and, for an
\* attested cycle, the agentId its cycle was registered with, and there is no
\* Unit stage without an attestation of the cycle's own directory.
THEOREM RecordsBound == Spec => []BoundToCycle
<1>1. IInv => BoundToCycle
  BY DEF IInv, RecordsInv, BoundToCycle
<1> QED
  BY <1>1, Inductive, PTL

\* A Create is only ever closed as reconciled after its Remove completed.
THEOREM AbortNeedsRemoval == Spec => []AbortedOnlyAfterRemoved
<1>1. IInv => AbortedOnlyAfterRemoved
  BY DEF IInv, RecordsInv
<1> QED
  BY <1>1, Inductive, PTL

-----------------------------------------------------------------------------
(* What no step may do.                                                       *)

\* The pointer moves only in the second publish of an opening or an adoption.
LEMMA PointerMoves ==
    ASSUME IInv, [Next]_vars, active' # active
    PROVE  /\ ActivateInstance \/ AdoptActivate
           /\ active' = pending.inst /\ pending.inst \in Instances
           /\ UNCHANGED <<create, remove, attestation, unitAttested>>
<1>1. ActivateInstance \/ AdoptActivate
  BY DEF Next, LedgerStep, vars, ledger, CreateStagePreRegistration, CreateStage,
         CreateAttestation, CreateUnitAttestation, AdoptSecureLegacyRemove, RemoveBegin,
         RemoveConfirmRemoteRemoved, RemoveComplete, ReconcileBegin,
         ReconcileConfirmRemoteRemoved, ReconcileComplete, ReconcileAbortCreate,
         CrashBetweenPublishes, NormalizeNewRegistration, EnvironmentDirectory,
         EnvironmentRegistration, EnvironmentService
<1> QED
  BY <1>1 DEF IInv, PointerInv, PendingConsistent, ActivateInstance, AdoptActivate

\* A slot is never taken from a cycle that is not closed: an uncertain outcome
\* blocks it for good.
THEOREM SlotNotStolen == Spec => OpenCycleKeepsSlot
<1>1. IInv /\ [Next]_vars => [active # None /\ ~Closed(active) => active' = active]_vars
  <2> SUFFICES ASSUME IInv, [Next]_vars, active # None, ~Closed(active), active' # active
               PROVE  FALSE
    OBVIOUS
  <2>1. ActivateInstance \/ AdoptActivate
    BY PointerMoves
  <2> QED
    BY <2>1 DEF IInv, PointerInv, PendingConsistent, ActivateInstance, AdoptActivate
<1> QED
  BY <1>1, Inductive, PTL DEF Spec, OpenCycleKeepsSlot

\* A reopened slot is not reopened on the directory that was removed.
THEOREM FreshDirectory == Spec => NewCycleNewDirectory
<1>1. IInv /\ [Next]_vars =>
          [active # None /\ active' # active
              => create'[active'].inode # remove[active].inode]_vars
  <2> SUFFICES ASSUME IInv, [Next]_vars, active # None, active' # active
               PROVE  create'[active'].inode # remove[active].inode
    OBVIOUS
  <2>1. /\ ActivateInstance \/ AdoptActivate
        /\ active' = pending.inst /\ create' = create
    BY PointerMoves
  <2> QED
    BY <2>1 DEF IInv, PointerInv, PendingConsistent, ActivateInstance, AdoptActivate
<1> QED
  BY <1>1, Inductive, PTL DEF Spec, NewCycleNewDirectory

\* REGISTRATION_OUTCOME_UNKNOWN is sticky: create_stage never leaves it, and
\* neither a Remove nor a reconciliation writes over it.
THEOREM UnknownSticks == Spec => [][\A i \in Instances : UnknownKept(i)]_vars
<1>1. IInv /\ [Next]_vars => [\A i \in Instances : UnknownKept(i)]_vars
  <2> SUFFICES ASSUME IInv, [Next]_vars, NEW i \in Instances, create[i].stage = UNKNOWN
               PROVE  create'[i] = create[i]
    BY DEF UnknownKept
  <2> USE DEF Fresh, UNKNOWN, ABSENT, UNIT, PRE, PERMISSION, START, HEALTH, COMPLETE,
              IInv, TypeOK
  <2>1. ASSUME NEW j \in Instances, CreateStagePreRegistration(j)
        PROVE create'[i] = create[i]
    BY <2>1 DEF CreateStagePreRegistration
  <2>2. ASSUME NEW s \in STAGES \cup {UNKNOWN}, CreateStage(s) PROVE create'[i] = create[i]
    BY <2>2 DEF CreateStage, CreateStageAllowed, StagesInProgress, STAGES
  <2>3. ASSUME NEW j \in Instances, AdoptSecureLegacyRemove(j) PROVE create'[i] = create[i]
    BY <2>3 DEF AdoptSecureLegacyRemove
  <2>4. CASE ReconcileAbortCreate
    BY <2>4 DEF ReconcileAbortCreate, CompletionStateMatches
  <2>5. CASE UNCHANGED create
    BY <2>5
  <2> QED
    BY <2>1, <2>2, <2>3, <2>4, <2>5
       DEF Next, LedgerStep, vars, ledger, ActivateInstance, CreateAttestation,
           CreateUnitAttestation, AdoptActivate, RemoveBegin, RemoveConfirmRemoteRemoved,
           RemoveComplete, ReconcileBegin, ReconcileConfirmRemoteRemoved,
           ReconcileComplete, CrashBetweenPublishes, NormalizeNewRegistration,
           EnvironmentDirectory, EnvironmentRegistration, EnvironmentService
<1> QED
  BY <1>1, Inductive, PTL DEF Spec

\* No call changes any record of a cycle that closed, or a Create record whose
\* outcome is unknown.
THEOREM HistoryKept == Spec => HistoryImmutable
<1> DEFINE Kept(i) == /\ create'[i] = create[i]
                      /\ remove'[i] = remove[i]
                      /\ attestation'[i] = attestation[i]
                      /\ (i \in unitAttested') = (i \in unitAttested)
<1>1. IInv /\ [Next]_vars => [\A i \in Instances : ClosedCycleKept(i)]_vars
  <2> SUFFICES ASSUME IInv, [Next]_vars, NEW i \in Instances, Closed(i)
               PROVE  Kept(i)
    BY DEF ClosedCycleKept
  <2> USE DEF Closed, Fresh, ABSENT, PRE, PERMISSION, UNIT, START, HEALTH, COMPLETE,
              LEGACY, ABORTED, REMOVED, REMOTE_UNKNOWN, CLEANUP, IInv, TypeOK
  <2>1. ASSUME NEW j \in Instances, CreateStagePreRegistration(j) PROVE Kept(i)
    BY <2>1 DEF CreateStagePreRegistration
  <2>2. CASE ActivateInstance \/ AdoptActivate \/ CrashBetweenPublishes
    BY <2>2 DEF ActivateInstance, AdoptActivate, CrashBetweenPublishes
  <2>3. ASSUME NEW s \in STAGES \cup {UNKNOWN}, CreateStage(s) PROVE Kept(i)
    BY <2>3 DEF CreateStage, CreateStageAllowed, StagesInProgress, STAGES
  <2>4. CASE CreateAttestation
    BY <2>4 DEF CreateAttestation
  <2>5. CASE CreateUnitAttestation
    BY <2>5 DEF CreateUnitAttestation
  <2>6. ASSUME NEW j \in Instances, AdoptSecureLegacyRemove(j) PROVE Kept(i)
    BY <2>6 DEF AdoptSecureLegacyRemove
  <2>7. CASE RemoveBegin \/ ReconcileBegin
    BY <2>7 DEF RemoveBegin, ReconcileBegin
  <2>8. CASE RemoveConfirmRemoteRemoved \/ ReconcileConfirmRemoteRemoved
    BY <2>8 DEF RemoveConfirmRemoteRemoved, ReconcileConfirmRemoteRemoved
  <2>9. CASE RemoveComplete \/ ReconcileComplete
    BY <2>9 DEF RemoveComplete, ReconcileComplete
  <2>10. CASE ReconcileAbortCreate
    BY <2>10 DEF ReconcileAbortCreate, CompletionStateMatches
  <2>11. CASE UNCHANGED ledger
    BY <2>11 DEF ledger
  <2> QED
    BY <2>1, <2>2, <2>3, <2>4, <2>5, <2>6, <2>7, <2>8, <2>9, <2>10, <2>11
       DEF Next, LedgerStep, vars, NormalizeNewRegistration, EnvironmentDirectory,
           EnvironmentRegistration, EnvironmentService
<1> QED
  <2>1. /\ [\A i \in Instances : ClosedCycleKept(i)]_vars
        /\ [\A i \in Instances : UnknownKept(i)]_vars
        => [\A i \in Instances : ClosedCycleKept(i) /\ UnknownKept(i)]_vars
    OBVIOUS
  <2> QED
    BY <1>1, <2>1, UnknownSticks, Inductive, PTL DEF Spec, HistoryImmutable

-----------------------------------------------------------------------------
(* The ledger implements the abstract slot.                                   *)

LEMMA InitSlot == Init => Slot!SlotInit
  BY NoneAssumption DEF Init, InitLedger, NoCreate, Slot!SlotInit, SlotPhase, SlotSpent,
         Closed, ABSENT, COMPLETE, LEGACY, ABORTED

LEMMA NextSlot == IInv /\ [Next]_vars => [Slot!SlotNext]_Slot!slotVars
<1> SUFFICES ASSUME IInv, [Next]_vars PROVE [Slot!SlotNext]_Slot!slotVars
  OBVIOUS
<1> USE DEF Closed, SlotPhase, SlotSpent, Slot!slotVars, IInv, TypeOK,
            CreateRecord, RemoveRecord, ABSENT, PRE, PERMISSION, UNIT, START, HEALTH,
            COMPLETE, LEGACY, ABORTED, UNKNOWN, REMOVED, REMOTE_UNKNOWN, CLEANUP
<1>0. None \notin Instances
  BY NoneAssumption
<1>1. ASSUME NEW i \in Instances, CreateStagePreRegistration(i)
      PROVE UNCHANGED Slot!slotVars
  BY <1>0, <1>1 DEF CreateStagePreRegistration, Fresh
<1>2. CASE ActivateInstance
  <2>1. PICK j \in Instances : j = pending.inst
    BY <1>2 DEF ActivateInstance, PointerInv, PendingConsistent
  <2>2. /\ active' = j
        /\ create[j].stage = PRE /\ remove[j].stage = ABSENT
        /\ UNCHANGED <<create, remove>>
        /\ active # None => Closed(active)
    BY <1>2, <2>1 DEF ActivateInstance, PointerInv, PendingConsistent, Orphan
  <2>3. SlotPhase = "free" /\ SlotPhase' = "creating"
    BY <1>0, <2>2
  <2>4. j \notin SlotSpent /\ SlotSpent' = SlotSpent \cup {j}
    BY <1>0, <2>2
  <2>5. Slot!Open(j)
    BY <2>2, <2>3, <2>4 DEF Slot!Open
  <2> QED
    BY <2>5 DEF Slot!SlotNext
<1>3. ASSUME NEW s \in STAGES \cup {UNKNOWN}, CreateStage(s)
      PROVE Slot!Finish \/ Slot!Release \/ UNCHANGED Slot!slotVars
  BY <1>0, <1>3 DEF CreateStage, CreateStageAllowed, StagesInProgress, STAGES,
                    Slot!Finish, Slot!Release
<1>4. CASE AdoptActivate
  <2>1. PICK j \in Instances : j = pending.inst
    BY <1>4 DEF AdoptActivate, PointerInv, PendingConsistent
  <2>2. /\ active' = j /\ active = None
        /\ create[j].stage = LEGACY /\ remove[j].stage = ABSENT
        /\ UNCHANGED <<create, remove>>
    BY <1>4, <2>1 DEF AdoptActivate, PointerInv, PendingConsistent, Orphan
  <2>3. \A i \in Instances : ~Closed(i)
    BY <2>2 DEF PointerInv, NoCycleBeforePointer, Fresh, Orphan
  <2>4. SlotPhase = "free" /\ SlotPhase' = "live"
    BY <1>0, <2>2
  <2>5. SlotSpent = {} /\ SlotSpent' = {j}
    BY <1>0, <2>2, <2>3
  <2>6. Slot!Adopt(j)
    BY <2>2, <2>4, <2>5 DEF Slot!Adopt
  <2> QED
    BY <2>6 DEF Slot!SlotNext
<1>5. ASSUME NEW i \in Instances, AdoptSecureLegacyRemove(i) PROVE UNCHANGED Slot!slotVars
  BY <1>0, <1>5 DEF AdoptSecureLegacyRemove, Fresh, RecordsInv, RecordsInOrder
<1>6. CASE RemoveBegin
  BY <1>0, <1>6 DEF RemoveBegin, Slot!BeginRemove, Slot!SlotNext
<1>7. CASE ReconcileBegin
  BY <1>0, <1>7 DEF ReconcileBegin, Slot!BeginRemove, Slot!SlotNext
<1>8. CASE RemoveConfirmRemoteRemoved \/ ReconcileConfirmRemoteRemoved
  BY <1>0, <1>8 DEF RemoveConfirmRemoteRemoved, ReconcileConfirmRemoteRemoved
<1>9. CASE RemoveComplete \/ ReconcileComplete
  BY <1>0, <1>9 DEF RemoveComplete, ReconcileComplete, Slot!Release, Slot!SlotNext
<1>10. CASE ReconcileAbortCreate
  BY <1>0, <1>10 DEF ReconcileAbortCreate, CompletionStateMatches, PointerInv, PendingConsistent, Slot!Release,
                     Slot!SlotNext
<1>11. CASE UNCHANGED <<active, create, remove>>
  BY <1>11
<1> QED
  BY <1>1, <1>2, <1>3, <1>4, <1>5, <1>6, <1>7, <1>8, <1>9, <1>10, <1>11
     DEF Next, LedgerStep, vars, ledger, CreateAttestation, CreateUnitAttestation,
         CrashBetweenPublishes, NormalizeNewRegistration, EnvironmentDirectory,
         EnvironmentRegistration, EnvironmentService, Slot!SlotNext

\* Every behaviour of the ledger is a behaviour of the abstract slot.
THEOREM Refinement == Spec => ImplementsSlot
  BY InitSlot, NextSlot, Inductive, PTL DEF Spec, ImplementsSlot, Slot!SlotSpec
=============================================================================
