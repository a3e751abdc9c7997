-------------------------- MODULE FreshInstallProofs --------------------------
(* Proofs about FreshInstall, for any passwords and any number of failures    *)
(* and crashes.  A run trusts nothing it has not looked at: what it has       *)
(* passed is as expected, whatever stage it found on disk.                    *)
EXTENDS FreshInstall, FiniteSetTheorems, TLAPS

-----------------------------------------------------------------------------
(* The plan.                                                                  *)

LEMMA PlanIsFixed ==
  /\ Len(Plan) = 21
  /\ Plan[14] = "journal" /\ Plan[15] = "credential" /\ Plan[21] = "INSTALL_COMPLETE"
BY DEF Plan, PlanOf

LEMMA CredentialAfterJournal ==
  ASSUME NEW k \in 1..21, Plan[k] = "credential"
  PROVE  k = 15
BY DEF Plan, PlanOf

LEMMA CompleteIsLast ==
  ASSUME NEW k \in 1..21
  PROVE  Plan[k] = "INSTALL_COMPLETE" <=> k = 21
BY DEF Plan, PlanOf

LEMMA PlanIsWhole == \A o \in Objects : \E k \in 1..20 : Plan[k] = o
<1>1. /\ Plan[2] = "runtime" /\ Plan[4] = "user" /\ Plan[5] = "lock" /\ Plan[6] = "log"
      /\ Plan[8] = "hooks" /\ Plan[9] = "archiveConf" /\ Plan[11] = "executorUnit"
      /\ Plan[13] = "webConf" /\ Plan[14] = "journal" /\ Plan[15] = "credential"
      /\ Plan[16] = "webUnit" /\ Plan[18] = "services"
  BY DEF Plan, PlanOf
<1>2. \A k \in {2, 4, 5, 6, 8, 9, 11, 13, 14, 15, 16, 18} : k \in 1..20
  OBVIOUS
<1> QED
  BY <1>1, <1>2 DEF Objects

\* Later positions have no lower rank, and the last one has a higher one.
LEMMA RankGrows ==
  /\ Complete = Rank(21) /\ Complete \in Nat
  /\ \A k \in 1..21 : Rank(k) \in 0..Complete /\ (Rank(k) = Complete => k = 21)
<1> DEFINE S(k) == {i \in 1..k : Plan[i] \notin Objects}
<1>1. \A k \in 0..21 : IsFiniteSet(S(k)) /\ Cardinality(S(k)) \in Nat
  <2> SUFFICES ASSUME NEW k \in 0..21
               PROVE  IsFiniteSet(S(k)) /\ Cardinality(S(k)) \in Nat
    OBVIOUS
  <2>1. IsFiniteSet(1..k)
    BY FS_Interval
  <2>2. S(k) \subseteq 1..k
    OBVIOUS
  <2> QED
    BY <2>1, <2>2, FS_Subset, FS_CardinalityType
<1>2. Complete = Rank(21)
  <2>1. (CHOOSE k \in 1..21 : Plan[k] = "INSTALL_COMPLETE") = 21
    BY CompleteIsLast
  <2> QED
    BY <2>1, PlanIsFixed DEF Complete, Stage
<1>3. ASSUME NEW k \in 1..21, k # 21
      PROVE  Cardinality(S(k)) < Cardinality(S(21))
  <2>0. Plan[21] \notin Objects
    BY PlanIsFixed DEF Objects
  <2>1. S(k) \subseteq S(20) /\ 21 \notin S(20) /\ S(21) = S(20) \cup {21}
    BY <1>3, <2>0
  <2> HIDE DEF S
  <2>2. Cardinality(S(k)) <= Cardinality(S(20))
    BY <1>1, <2>1, FS_Subset
  <2>3. Cardinality(S(21)) = Cardinality(S(20)) + 1
    BY <1>1, <2>1, FS_AddElement
  <2> QED
    BY <1>1, <2>2, <2>3
<1> QED
  BY <1>1, <1>2, <1>3 DEF Rank

-----------------------------------------------------------------------------
(* What a run knows.                                                          *)

\* What a run has passed is as expected, at whatever stage it started.
PassedIsExact ==
    run.mode # "idle" =>
        \A k \in 1..(run.at - 1) : Plan[k] \in Objects => object[Plan[k]] = "exact"

\* What a run writes was not there, and the journal not beside a credential;
\* a stage is written at its own place, and no run starts from the last one.
WritingInv ==
    /\ run.mode = "write" =>
        /\ AtObject /\ object[Here] = "torn"
        /\ Here = "journal" => object["credential"] = "absent"
    /\ run.mode = "rename" => ~AtObject
    /\ run.mode # "idle" => stage < Complete

IInv == InstallTypeOK /\ PassedIsExact /\ WritingInv /\ CredentialIsJournalled

LEMMA InitIInv == InstallInit => IInv
<1> SUFFICES ASSUME InstallInit PROVE IInv
  OBVIOUS
<1>1. object \in [Objects -> {"absent", "torn", "exact", "foreign"}]
  BY DEF InstallInit
<1>2. stage \in 0..Complete /\ run \in [mode : {"idle", "visit", "write", "rename"}, at : 1..Len(Plan)]
  BY RankGrows, PlanIsFixed DEF InstallInit, Idle
<1>3. damage \subseteq {"altered", "rebooted", "runner"} /\ interrupted \in 0..Interruptions
  BY InterruptionsAssumption DEF InstallInit
<1>4. stray \in BOOLEAN /\ crowded \subseteq Directories /\ runner \in BOOLEAN
       /\ {journal, published} \subseteq Secrets \cup {None}
  BY DEF InstallInit
<1>5. InstallTypeOK
  BY <1>1, <1>2, <1>3, <1>4 DEF InstallTypeOK
<1>6. "credential" \in Objects
  BY DEF Objects
<1>7. PassedIsExact /\ WritingInv /\ CredentialIsJournalled
  BY <1>6 DEF InstallInit, PassedIsExact, WritingInv, CredentialIsJournalled, Idle
<1> QED
  BY <1>5, <1>7 DEF IInv

LEMMA TypeStep ==
  ASSUME IInv, [InstallNext]_installVars
  PROVE  InstallTypeOK'
<1> USE InterruptionsAssumption, RankGrows, PlanIsFixed
    DEF IInv, InstallTypeOK, WritingInv, record, host, Idle, Move
<1>0. AtObject => run.at < 21
  BY DEF AtObject, Here, Objects
<1>00. Directories \subseteq Objects /\ "lock" \in Objects
  BY DEF Directories, Objects
<1>1. CASE BeginFresh
  BY <1>1 DEF BeginFresh
<1>2. CASE BeginResume
  BY <1>2 DEF BeginResume
<1>3. CASE Keep
  BY <1>0, <1>3 DEF Keep
<1>4. CASE StartInstall
  BY <1>4 DEF StartInstall
<1>5. CASE EndInstall
  <2>1. run' \in [mode : {"idle", "visit", "write", "rename"}, at : 1..Len(Plan)]
    BY <1>0, <1>5 DEF EndInstall
  <2>2. object' \in [Objects -> {"absent", "torn", "exact", "foreign"}]
    BY <1>5 DEF EndInstall
  <2>3. journal' \in Secrets \cup {None} /\ published' \in Secrets \cup {None}
    BY <1>5 DEF EndInstall
  <2> QED
    BY <1>5, <2>1, <2>2, <2>3 DEF EndInstall
<1>6. CASE PassStage
  BY <1>6 DEF PassStage, Covered
<1>7. CASE WriteState
  BY <1>7 DEF WriteState
<1>8. CASE RenameState
  <2>1. CASE Here = "INSTALL_COMPLETE"
    BY <1>8, <2>1 DEF RenameState, AdvanceOrEnd
  <2>2. CASE Here # "INSTALL_COMPLETE"
    BY <1>8, <2>2 DEF RenameState, AdvanceOrEnd, RunOn, Here
  <2> QED
    BY <2>1, <2>2
<1>9. CASE Refuse
  BY <1>9 DEF Refuse
<1>10. CASE Fail
  BY <1>10 DEF Fail
<1>11. CASE Crash
  <2>1. object' \in [Objects -> {"absent", "torn", "exact", "foreign"}]
    BY <1>11 DEF Crash
  <2>2. /\ run' = Idle /\ UNCHANGED <<stage, crowded, journal, published, runner, damage>>
        /\ interrupted < Interruptions /\ interrupted' = interrupted + 1
    BY <1>11 DEF Crash
  <2>3. stray' \in BOOLEAN
    BY <1>11 DEF Crash
  <2> QED
    BY <2>1, <2>2, <2>3
<1>12. CASE Reboot
  BY <1>12 DEF Reboot
<1>13. ASSUME NEW o \in Objects, Alter(o) PROVE InstallTypeOK'
  BY <1>13 DEF Alter, Altered
<1>14. ASSUME NEW d \in Directories, Crowd(d) PROVE InstallTypeOK'
  BY <1>14 DEF Crowd, Altered
<1>15. CASE CreateRunner
  BY <1>15 DEF CreateRunner
<1>16. CASE UNCHANGED installVars
  BY <1>16 DEF installVars
<1> QED
  BY <1>1, <1>2, <1>3, <1>4, <1>5, <1>6, <1>7, <1>8, <1>9, <1>10, <1>11, <1>12, <1>13, <1>14,
     <1>15, <1>16 DEF InstallNext, RunStep, Begin

LEMMA RunInvStep ==
  ASSUME IInv, InstallTypeOK', [InstallNext]_installVars
  PROVE  PassedIsExact' /\ WritingInv'
<1> USE RankGrows, PlanIsFixed
    DEF IInv, InstallTypeOK, PassedIsExact, WritingInv, record, host, Idle, Move, AtObject, Here
<1>1. CASE BeginFresh
  BY <1>1 DEF BeginFresh
<1>2. CASE BeginResume
  <2>1. Plan[1] \notin Objects
    BY DEF Plan, PlanOf, Objects
  <2> QED
    BY <1>2, <2>1 DEF BeginResume
<1>3. CASE Keep
  BY <1>3 DEF Keep, Verified, MayKeep
<1>4. CASE StartInstall
  BY <1>4 DEF StartInstall, MayInstall
<1>5. CASE EndInstall
  BY <1>5 DEF EndInstall
<1>6. CASE PassStage
  BY <1>6 DEF PassStage
<1>7. CASE WriteState
  BY <1>7 DEF WriteState
<1>8. CASE RenameState
  <2>1. CASE Here = "INSTALL_COMPLETE"
    BY <1>8, <2>1 DEF RenameState, AdvanceOrEnd
  <2>2. CASE Here # "INSTALL_COMPLETE"
    BY <1>8, <2>2 DEF RenameState, AdvanceOrEnd, RunOn
  <2> QED
    BY <2>1, <2>2
<1>9. CASE Refuse
  BY <1>9 DEF Refuse
<1>10. CASE Fail
  BY <1>10 DEF Fail
<1>11. CASE Crash
  BY <1>11 DEF Crash
<1>12. CASE Reboot
  BY <1>12 DEF Reboot
<1>13. ASSUME NEW o \in Objects, Alter(o) PROVE PassedIsExact' /\ WritingInv'
  BY <1>13 DEF Alter, Altered
<1>14. ASSUME NEW d \in Directories, Crowd(d) PROVE PassedIsExact' /\ WritingInv'
  BY <1>14 DEF Crowd, Altered
<1>15. CASE CreateRunner
  BY <1>15 DEF CreateRunner
<1>16. CASE UNCHANGED installVars
  BY <1>16 DEF installVars
<1> QED
  BY <1>1, <1>2, <1>3, <1>4, <1>5, <1>6, <1>7, <1>8, <1>9, <1>10, <1>11, <1>12, <1>13, <1>14,
     <1>15, <1>16 DEF InstallNext, RunStep, Begin

LEMMA CredentialStep ==
  ASSUME IInv, InstallTypeOK', [InstallNext]_installVars
  PROVE  CredentialIsJournalled'
<1> USE DEF IInv, InstallTypeOK, WritingInv, CredentialIsJournalled, Here
<1>0. "journal" \in Objects /\ "credential" \in Objects
  BY DEF Objects
<1>1. CASE UNCHANGED <<object, journal, published>> /\ damage \subseteq damage'
  BY <1>1
<1>2. CASE StartInstall
  BY <1>0, <1>2 DEF StartInstall, MayInstall
<1>3. CASE EndInstall
  <2>1. CASE Here = "credential"
    <3>1. run.at = 15
      BY <2>1, PlanIsFixed, CredentialAfterJournal
    <3>2. object["journal"] = "exact"
      BY <1>0, <1>3, <3>1, PlanIsFixed DEF PassedIsExact, EndInstall
    <3> QED
      BY <1>0, <1>3, <2>1, <3>2 DEF EndInstall
  <2>2. CASE Here # "credential"
    BY <1>0, <1>3, <2>2 DEF EndInstall
  <2> QED
    BY <2>1, <2>2
<1>4. CASE Crash
  BY <1>0, <1>4 DEF Crash
<1>5. CASE Reboot
  BY <1>0, <1>5 DEF Reboot
<1>6. ASSUME NEW o \in Objects, Alter(o) PROVE CredentialIsJournalled'
  BY <1>6 DEF Alter, Altered
<1>7. CASE CreateRunner
  BY <1>1, <1>7 DEF CreateRunner
<1>8. ASSUME NEW d \in Directories, Crowd(d) PROVE CredentialIsJournalled'
  BY <1>1, <1>8 DEF Crowd, Altered
<1>9. CASE BeginFresh \/ BeginResume \/ Keep \/ PassStage \/ WriteState \/ RenameState
            \/ Refuse \/ Fail
  BY <1>1, <1>9 DEF BeginFresh, BeginResume, Keep, PassStage, WriteState, RenameState, Refuse,
     Fail, host
<1>10. CASE UNCHANGED installVars
  BY <1>1, <1>10 DEF installVars, host
<1> QED
  BY <1>2, <1>3, <1>4, <1>5, <1>6, <1>7, <1>8, <1>9, <1>10 DEF InstallNext, RunStep, Begin

\* The strengthening the other theorems rest on; types included.
THEOREM InstallInductive == InstallSpec => []IInv
<1>1. IInv /\ [InstallNext]_installVars => IInv'
  BY TypeStep, RunInvStep, CredentialStep DEF IInv
<1> QED
  BY InitIInv, <1>1, PTL DEF InstallSpec

-----------------------------------------------------------------------------
(* What the installer promises.                                               *)

\* install-auth-recovery.py: the credential web-auth.conf holds is the one of
\* the journal, however often the installation failed around it.
THEOREM CredentialsAreJournalled == InstallSpec => []CredentialIsJournalled
<1>1. IInv => CredentialIsJournalled
  BY DEF IInv
<1> QED
  BY <1>1, InstallInductive, PTL

\* write_state INSTALL_COMPLETE: all objects were looked at by this very run.
THEOREM CompletionsAreProven == InstallSpec => CompleteIsProven
<1>1. ASSUME IInv, [InstallNext]_installVars, stage' = Complete, stage # Complete
      PROVE  \A o \in Objects : object[o] = "exact"
  <2>1. RenameState
    BY <1>1 DEF InstallNext, RunStep, Begin, BeginFresh, BeginResume, Keep, StartInstall,
       EndInstall, PassStage, WriteState, Refuse, Fail, Crash, Reboot, Alter, Crowd, Altered,
       CreateRunner, record, installVars
  <2>2. run.mode = "rename" /\ run.at = 21
    BY <1>1, <2>1, RankGrows, PlanIsFixed DEF RenameState, IInv, InstallTypeOK
  <2> QED
    BY <1>1, <2>2, PlanIsWhole, PlanIsFixed DEF IInv, PassedIsExact
<1> QED
  BY <1>1, InstallInductive, PTL DEF InstallSpec, CompleteIsProven

\* checked_install, checked_directory, auth_recovery: what is foreign or torn
\* stays as it is.
THEOREM NothingIsOverwritten == InstallSpec => NothingOverwritten
<1>1. ASSUME IInv, [InstallNext]_installVars,
             NEW o \in Objects, Unfinished(o), object'[o] # object[o]
      PROVE  damage' # damage
  <2> USE <1>1 DEF IInv, InstallTypeOK, WritingInv, Unfinished, Here
  <2>1. CASE StartInstall
    BY <2>1 DEF StartInstall, MayInstall
  <2>2. CASE EndInstall
    BY <2>2 DEF EndInstall
  <2>3. CASE Crash
    BY <2>3 DEF Crash
  <2>4. CASE Reboot
    BY <2>4 DEF Reboot
  <2>5. ASSUME NEW p \in Objects, Alter(p) PROVE damage' # damage
    BY <2>5 DEF Alter, Altered
  <2>6. CASE UNCHANGED object
    BY <2>6
  <2> QED
    BY <2>1, <2>2, <2>3, <2>4, <2>5, <2>6 DEF InstallNext, RunStep, Begin, BeginFresh,
       BeginResume, Keep, PassStage, WriteState, RenameState, Refuse, Fail, Crowd,
       CreateRunner, host, installVars
<1>2. IInv /\ [InstallNext]_installVars =>
        [\A o \in Objects :
            Unfinished(o) /\ object'[o] # object[o] => damage' # damage]_installVars
  BY <1>1
<1> QED
  BY <1>2, InstallInductive, PTL DEF InstallSpec, NothingOverwritten

-----------------------------------------------------------------------------
(* Repeated runs.                                                             *)

\* The number of stages up to a position, by what stands there.
LEMMA RankSteps ==
  /\ Rank(0) = 0 /\ Rank(1) = 1
  /\ \A k \in 0..21 : Rank(k) \in Nat
  /\ \A k \in 1..21 : Rank(k) = Rank(k - 1) + (IF Plan[k] \in Objects THEN 0 ELSE 1)
<1> DEFINE S(k) == {i \in 1..k : Plan[i] \notin Objects}
<1>1. \A k \in 0..21 : IsFiniteSet(S(k)) /\ Cardinality(S(k)) \in Nat
  <2> SUFFICES ASSUME NEW k \in 0..21
               PROVE  IsFiniteSet(S(k)) /\ Cardinality(S(k)) \in Nat
    OBVIOUS
  <2>1. IsFiniteSet(1..k)
    BY FS_Interval
  <2>2. S(k) \subseteq 1..k
    OBVIOUS
  <2> QED
    BY <2>1, <2>2, FS_Subset, FS_CardinalityType
<1>2. Cardinality(S(0)) = 0
  <2>1. S(0) = {}
    OBVIOUS
  <2> QED
    BY <2>1, FS_EmptySet
<1>3. ASSUME NEW k \in 1..21, Plan[k] \in Objects
      PROVE  Cardinality(S(k)) = Cardinality(S(k - 1))
  <2>1. S(k) = S(k - 1)
    BY <1>3
  <2> QED
    BY <2>1
<1>4. ASSUME NEW k \in 1..21, Plan[k] \notin Objects
      PROVE  Cardinality(S(k)) = Cardinality(S(k - 1)) + 1
  <2>1. S(k) = S(k - 1) \cup {k} /\ k \notin S(k - 1) /\ k - 1 \in 0..21
    BY <1>4
  <2> HIDE DEF S
  <2> QED
    BY <1>1, <2>1, FS_AddElement
<1>5. \A k \in 0..21 : Rank(k) = Cardinality(S(k))
  BY DEF Rank
<1>6. Plan[1] \notin Objects
  BY DEF Plan, PlanOf, Objects
<1> HIDE DEF S
<1>7. Rank(1) = 1
  BY <1>1, <1>2, <1>4, <1>5, <1>6
<1> QED
  BY <1>1, <1>2, <1>3, <1>4, <1>5, <1>7

\* No later position has a lower rank.
LEMMA RankIsMonotone ==
  ASSUME NEW j \in 0..21, NEW k \in j..21
  PROVE  Rank(j) <= Rank(k)
<1> DEFINE S(m) == {i \in 1..m : Plan[i] \notin Objects}
<1>1. IsFiniteSet(S(k))
  <2>1. IsFiniteSet(1..k) /\ S(k) \subseteq 1..k
    BY FS_Interval
  <2> QED
    BY <2>1, FS_Subset
<1>2. S(j) \subseteq S(k)
  OBVIOUS
<1> HIDE DEF S
<1>3. Cardinality(S(j)) <= Cardinality(S(k))
  BY <1>1, <1>2, FS_Subset
<1> QED
  BY <1>3 DEF Rank, S

\* An object stands at one place, between the first stage and the last.
LEMMA PlanIsInjective ==
  ASSUME NEW j \in 1..21, NEW k \in 1..21, Plan[j] = Plan[k]
  PROVE  j = k
BY DEF Plan, PlanOf

LEMMA Positions ==
  /\ Plan[1] \notin Objects /\ Plan[20] = "SMOKE_VERIFIED" /\ Plan[18] = "services"
  /\ Plan[6] = "log" /\ Plan[2] = "runtime" /\ Plan[12] = "EXECUTOR_INSTALLED"
  /\ JournalAllowedFrom = Rank(12)
<1>1. /\ Plan[1] \notin Objects /\ Plan[20] = "SMOKE_VERIFIED" /\ Plan[18] = "services"
      /\ Plan[6] = "log" /\ Plan[2] = "runtime" /\ Plan[12] = "EXECUTOR_INSTALLED"
  BY DEF Plan, PlanOf, Objects
<1>2. (CHOOSE k \in 1..Len(Plan) : Plan[k] = "EXECUTOR_INSTALLED") = 12
  BY <1>1, PlanIsFixed, PlanIsInjective
<1> QED
  BY <1>1, <1>2 DEF JournalAllowedFrom, Stage

\* What the record says of the host, as long as nobody altered it and no
\* reboot took the lock directory: the objects of a recorded stage are as
\* expected, and none is there that a recorded stage does not lead to.
RecordHolds ==
    /\ damage \cap {"altered", "rebooted"} = {} =>
        \A k \in 1..Len(Plan) :
            Plan[k] \in Objects /\ stage > Rank(k) => object[Plan[k]] = "exact"
    /\ "altered" \notin damage =>
        /\ crowded = {}
        /\ \A k \in 1..Len(Plan) :
              Plan[k] \in Objects /\ object[Plan[k]] # "absent" => stage >= Rank(k)
    /\ runner => "runner" \in damage
    /\ run.mode # "idle" => stage >= Rank(run.at - 1)
    /\ run.mode = "rename" => stage < Rank(run.at)


LEMMA InitRecordHolds == InstallInit => RecordHolds
BY RankSteps, PlanIsFixed DEF InstallInit, RecordHolds, Idle

LEMMA StepRecordHolds == IInv /\ RecordHolds /\ [InstallNext]_installVars => RecordHolds'
<1> SUFFICES ASSUME IInv, RecordHolds, [InstallNext]_installVars PROVE RecordHolds'
  OBVIOUS
<1>0. /\ stage \in Nat /\ run.at \in 1..21 /\ run.at - 1 \in 0..21
      /\ \A k \in 0..21 : Rank(k) \in Nat
      /\ object \in [Objects -> {"absent", "torn", "exact", "foreign"}]
      /\ run \in [mode : {"idle", "visit", "write", "rename"}, at : 1..21]
  BY RankGrows, RankSteps, PlanIsFixed DEF IInv, InstallTypeOK
<1> USE PlanIsFixed DEF RecordHolds
<1>1. CASE BeginFresh
  BY <1>0, <1>1, RankSteps DEF BeginFresh, record, host
<1>2. CASE BeginResume
  BY <1>0, <1>2, RankSteps DEF BeginResume, record, host
<1>3. CASE Keep
  <2>1. Rank(run.at) = Rank(run.at - 1) /\ run.at + 1 - 1 = run.at
    BY <1>0, <1>3, RankSteps DEF Keep, AtObject, Here
  <2> QED
    BY <1>0, <1>3, <2>1 DEF Keep, Move, record, host
<1>4. CASE StartInstall
  <2>1. Rank(run.at) = Rank(run.at - 1) /\ Here \in Objects /\ object[Here] = "absent"
    BY <1>0, <1>4, RankSteps DEF StartInstall, AtObject, Here, MayInstall
  <2>2. object' = [object EXCEPT ![Here] = "torn"] /\ stage' = stage /\ damage' = damage
        /\ run' = [mode |-> "write", at |-> run.at] /\ UNCHANGED <<crowded, runner>>
    BY <1>4 DEF StartInstall, Move, record
  <2>3. stage >= Rank(run.at)
    BY <1>4, <2>1 DEF StartInstall
  <2>4. ASSUME NEW k \in 1..21, Plan[k] \in Objects, object'[Plan[k]] # "absent",
               "altered" \notin damage
        PROVE  stage >= Rank(k)
    <3>1. CASE Plan[k] = Here
      BY <1>0, <2>3, <3>1, PlanIsInjective DEF Here
    <3>2. CASE Plan[k] # Here
      BY <1>0, <2>2, <2>4, <3>2
    <3> QED
      BY <3>1, <3>2
  <2>5. ASSUME NEW k \in 1..21, Plan[k] \in Objects, stage > Rank(k),
               damage \cap {"altered", "rebooted"} = {}
        PROVE  object'[Plan[k]] = "exact"
    BY <1>0, <2>1, <2>2, <2>5
  <2>6. run.mode = "visit"
    BY <1>4 DEF StartInstall
  <2> QED
    BY <1>0, <2>2, <2>4, <2>5, <2>6
<1>5. CASE EndInstall
  <2>1. Rank(run.at) = Rank(run.at - 1) /\ Here \in Objects /\ object[Here] = "torn"
        /\ run.at + 1 - 1 = run.at
    BY <1>0, <1>5, RankSteps DEF EndInstall, AtObject, Here, IInv, WritingInv
  <2>2. object' = [object EXCEPT ![Here] = "exact"] /\ stage' = stage /\ damage' = damage
        /\ run' = [mode |-> "visit", at |-> run.at + 1] /\ UNCHANGED <<crowded, runner>>
        /\ run.mode = "write"
    BY <1>5 DEF EndInstall, Move, record
  <2>3. \A o \in Objects : /\ object[o] = "exact" => object'[o] = "exact"
                           /\ object'[o] # "absent" => object[o] # "absent"
    BY <1>0, <2>1, <2>2
  <2> QED
    BY <1>0, <2>1, <2>2, <2>3
<1>6. CASE PassStage
  <2>1. stage >= Rank(run.at) /\ run.at + 1 - 1 = run.at
    BY <1>0, <1>6 DEF PassStage, Covered
  <2> QED
    BY <1>0, <1>6, <2>1 DEF PassStage, Move, record, host
<1>7. CASE WriteState
  <2>1. stage < Rank(run.at)
    BY <1>0, <1>7 DEF WriteState, Covered
  <2> QED
    BY <1>0, <1>7, <2>1 DEF WriteState, Move, record, host
<1>8. CASE RenameState
  <2>1. /\ stage < Rank(run.at) /\ stage' = Rank(run.at) /\ run.at + 1 - 1 = run.at
        /\ UNCHANGED <<object, crowded, runner, damage>>
        /\ run' = Idle \/ run' = [mode |-> "visit", at |-> run.at + 1]
    BY <1>0, <1>8 DEF RenameState, AdvanceOrEnd, RunOn, Move, host
  <2>2. ASSUME NEW k \in 1..21, Plan[k] \in Objects, Rank(run.at) > Rank(k)
        PROVE  object[Plan[k]] = "exact"
    <3>1. k < run.at
      BY <1>0, <2>2, RankIsMonotone
    <3> QED
      BY <1>0, <1>8, <2>2, <3>1 DEF RenameState, IInv, PassedIsExact
  <2> QED
    BY <1>0, <2>1, <2>2 DEF Idle
<1>9. CASE Refuse \/ Fail
  BY <1>0, <1>9 DEF Refuse, Fail, record, host, Idle
<1>10. CASE Crash
  <2>1. stage' = stage /\ damage' = damage /\ run' = Idle /\ UNCHANGED <<crowded, runner>>
    BY <1>10 DEF Crash
  <2>2. \A o \in Objects : /\ object[o] = "exact" => object'[o] = "exact"
                           /\ object'[o] # "absent" => object[o] # "absent"
    <3>1. CASE run.mode = "write"
      <4>1. Here \in Objects /\ object[Here] = "torn"
        BY <3>1 DEF IInv, WritingInv, AtObject
      <4> QED
        BY <1>0, <1>10, <3>1, <4>1 DEF Crash
    <3>2. CASE run.mode # "write"
      BY <1>10, <3>2 DEF Crash
    <3> QED
      BY <3>1, <3>2
  <2> QED
    BY <1>0, <2>1, <2>2 DEF Idle
<1>11. CASE Reboot
  <2>1. "rebooted" \in damage' /\ damage \subseteq damage' /\ ("altered" \in damage' => "altered" \in damage)
        /\ UNCHANGED <<stage, crowded, runner, run>>
    BY <1>11 DEF Reboot, record
  <2>2. \A o \in Objects : object'[o] # "absent" => object[o] # "absent"
    BY <1>0, <1>11 DEF Reboot
  <2> QED
    BY <1>0, <2>1, <2>2
<1>12. ASSUME Altered, UNCHANGED runner PROVE RecordHolds'
  BY <1>0, <1>12 DEF Altered, record
<1>13. ASSUME NEW o \in Objects, Alter(o) PROVE RecordHolds'
  BY <1>12, <1>13 DEF Alter, Altered
<1>14. ASSUME NEW d \in Directories, Crowd(d) PROVE RecordHolds'
  BY <1>12, <1>14 DEF Crowd, Altered
<1>15. CASE CreateRunner
  BY <1>0, <1>15 DEF CreateRunner, record
<1>16. CASE UNCHANGED installVars
  BY <1>0, <1>16 DEF installVars, record, host
<1> QED
  BY <1>1, <1>2, <1>3, <1>4, <1>5, <1>6, <1>7, <1>8, <1>9, <1>10, <1>11, <1>13, <1>14, <1>15, <1>16
     DEF InstallNext, RunStep, Begin

\* The state file is true of the host: what it has recorded is there, and
\* nothing is there that it does not lead to.
\* Code: the order of checked_install and write_state.
THEOREM RecordsHold == InstallSpec => []RecordHolds
<1>1. InstallSpec => [](IInv /\ RecordHolds)
  <2>1. InstallInit => RecordHolds
    BY InitRecordHolds
  <2>2. IInv /\ RecordHolds /\ [InstallNext]_installVars => RecordHolds'
    BY StepRecordHolds
  <2> QED
    BY <2>1, <2>2, InstallInductive, PTL DEF InstallSpec
<1> QED
  BY <1>1, PTL

\* The conditions of a start, in the terms of the script: nothing untracked, or
\* a stage to go on from.
MayBegin ==
    \/ stage = 0 /\ ~UntrackedPartial
    \/ /\ stage \in 1..(Complete - 1) /\ ~runner
       /\ stage < JournalAllowedFrom => object["journal"] = "absent"

Mendable == damage = {} /\ ~Remains

\* "recognized + exact partial state -> verify -> continue": whatever the runs
\* died of, the next one may begin,
RetriesAreAdmitted == run.mode = "idle" /\ stage < Complete /\ Mendable => MayBegin

\* and none is refused unless something was changed or a write was cut short.
RefusalsAreJustified ==
    [][run.mode = "visit" /\ run' = Idle /\ interrupted' = interrupted => ~Mendable]_installVars

\* A run that may be repeated finds its conditions met.
\* Code: managed_object_exists_without_state, the checks before a resume.
THEOREM RetriesMayBegin == InstallSpec => []RetriesAreAdmitted
<1>1. ASSUME IInv, RecordHolds, run.mode = "idle", stage < Complete, Mendable PROVE MayBegin
  <2>1. /\ damage = {} /\ ~stray /\ ~runner /\ stage \in Nat /\ Complete \in Nat
        /\ \A k \in 0..21 : Rank(k) \in Nat
        /\ \A k \in 1..21 : Plan[k] \in Objects /\ object[Plan[k]] # "absent" => stage >= Rank(k)
    BY <1>1, RankGrows, RankSteps, PlanIsFixed DEF Mendable, Remains, IInv, InstallTypeOK, RecordHolds
  <2>2. CASE stage = 0
    <3>1. ASSUME NEW o \in Objects, object[o] # "absent" PROVE FALSE
      <4>1. PICK k \in 1..20 : Plan[k] = o
        BY PlanIsWhole
      <4>2. Rank(1) <= Rank(k)
        BY RankIsMonotone
      <4> QED
        BY <2>1, <2>2, <3>1, <4>1, <4>2, RankSteps
    <3> QED
      BY <2>1, <2>2, <3>1 DEF MayBegin, UntrackedPartial
  <2>3. CASE stage # 0
    <3>1. Rank(12) <= Rank(14) /\ "journal" \in Objects
      BY RankIsMonotone DEF Objects
    <3>2. stage < JournalAllowedFrom => object["journal"] = "absent"
      BY <2>1, <3>1, Positions, PlanIsFixed
    <3>3. stage \in 1..(Complete - 1)
      BY <1>1, <2>1, <2>3
    <3> QED
      BY <2>1, <3>2, <3>3 DEF MayBegin
  <2> QED
    BY <2>2, <2>3
<1>2. IInv /\ RecordHolds => RetriesAreAdmitted
  BY <1>1 DEF RetriesAreAdmitted
<1> QED
  BY <1>2, InstallInductive, RecordsHold, PTL

\* No run is refused for what the installer itself has done.
\* Code: verify_file, verify_directory, checked_install, die.
THEOREM RefusalsHaveReasons == InstallSpec => RefusalsAreJustified
<1>1. ASSUME IInv, RecordHolds, [InstallNext]_installVars,
             run.mode = "visit", run' = Idle, interrupted' = interrupted, Mendable
      PROVE  FALSE
  <2>0. /\ run.at \in 1..21 /\ stage \in Nat /\ interrupted \in Nat
        /\ \A k \in 0..21 : Rank(k) \in Nat
        /\ object \in [Objects -> {"absent", "torn", "exact", "foreign"}]
    BY <1>1, InterruptionsAssumption, RankGrows, RankSteps, PlanIsFixed DEF IInv, InstallTypeOK
  <2>1. Refuse
    BY <1>1, <2>0 DEF InstallNext, RunStep, Begin, BeginFresh, BeginResume, Keep, StartInstall,
       EndInstall, PassStage, WriteState, RenameState, Fail, Crash, Reboot, Alter, Crowd, Altered,
       CreateRunner, Move, Idle, installVars
  <2>2. /\ damage = {} /\ ~stray /\ ~runner /\ crowded = {}
        /\ \A k \in 1..21 : Plan[k] \in Objects /\ stage > Rank(k) => object[Plan[k]] = "exact"
        /\ \A o \in Objects : object[o] \in {"absent", "exact"}
    BY <1>1, <2>0, PlanIsFixed DEF Mendable, Remains, Unfinished, RecordHolds
  <2>3. object["credential"] = "exact" => object["journal"] = "exact" /\ published = journal
    BY <1>1, <2>2 DEF IInv, CredentialIsJournalled
  <2>4. "credential" \in Objects
    BY DEF Objects
  <2>5. CASE AtObject /\ Covered
    <3>1. object[Here] = "exact"
      BY <2>0, <2>2, <2>5 DEF AtObject, Covered, Here
    <3> QED
      BY <2>1, <2>2, <2>3, <2>5, <3>1 DEF Refuse, Verified
  <2>6. CASE AtObject /\ ~Covered
    <3>1. Here \in Objects /\ ~MayKeep(Here) /\ ~MayInstall(Here)
      BY <2>1, <2>6 DEF Refuse, AtObject
    <3>2. CASE object[Here] = "exact"
      BY <2>3, <3>1, <3>2 DEF MayKeep
    <3>3. CASE object[Here] = "absent"
      BY <2>2, <2>3, <2>4, <3>1, <3>3 DEF MayInstall
    <3> QED
      BY <2>2, <3>1, <3>2, <3>3
  <2>7. CASE ~AtObject
    <3>1. Here = "SMOKE_VERIFIED" /\ ~\A o \in {"services", "log", "runtime"} : object[o] = "exact"
      BY <2>1, <2>7 DEF Refuse, SmokePasses
    <3>2. run.at = 20
      BY <2>0, <3>1, Positions, PlanIsInjective DEF Here
    <3>3. "services" \in Objects /\ "log" \in Objects /\ "runtime" \in Objects
      BY DEF Objects
    <3>4. \A k \in {2, 6, 18} : Plan[k] \in Objects => object[Plan[k]] = "exact"
      BY <1>1, <3>2 DEF IInv, PassedIsExact
    <3>5. object["services"] = "exact" /\ object["log"] = "exact" /\ object["runtime"] = "exact"
      BY <3>3, <3>4, Positions
    <3> QED
      BY <3>1, <3>5
  <2> QED
    BY <2>5, <2>6, <2>7
<1>2. IInv /\ RecordHolds /\ [InstallNext]_installVars =>
        [run.mode = "visit" /\ run' = Idle /\ interrupted' = interrupted => ~Mendable]_installVars
  BY <1>1
<1> QED
  BY <1>2, InstallInductive, RecordsHold, PTL DEF InstallSpec, RefusalsAreJustified
=============================================================================
