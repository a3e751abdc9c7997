----------------------------- MODULE FreshInstall -----------------------------
(* The unified installer scripts/fresh-install.sh with its helpers            *)
(* install-state-validator.py and install-auth-recovery.py: a sequence of     *)
(* managed objects and, after each group of them, a stage that is recorded in *)
(* install-state.json.  A run that finds a recorded stage verifies what that  *)
(* stage covers and goes on from there.                                       *)
(*                                                                            *)
(* A run may end at every step, by an error between two objects (Fail) or in  *)
(* the middle of a write (Crash); the host may be rebooted, an administrator  *)
(* may alter objects between two runs, and a runner may be created as soon as *)
(* the services are up.                                                       *)
(*                                                                            *)
(* The files of one directory tree are one object: "absent" when files of it  *)
(* are missing and the others are as expected, "torn" when one of them was    *)
(* cut short.  Release, payload, user and address of the runs are the same    *)
(* (others are refused before anything is touched).                           *)
EXTENDS Naturals, Sequences, FiniteSets

CONSTANTS
    Secrets,        \* administrator passwords, salted and hashed
    Interruptions,  \* bound: failures and crashes, altogether
    None

ASSUME InterruptionsAssumption == Interruptions \in Nat

VARIABLES
    stage,          \* rank of the stage in install-state.json, 0 without it
    stray,          \* a temporary state file of a dead run exists
    object,         \* every managed object
    crowded,        \* directories in which something unknown was put
    journal,        \* secret in web-auth-recovery.json
    published,      \* secret in web-auth.conf
    runner,         \* Runner lifecycle records exist
    run,            \* what the installer does
    interrupted,    \* failures and crashes so far
    damage          \* what happened to the host that no retry has to mend

record == <<stage, stray>>
host == <<object, crowded, journal, published, runner>>
installVars == <<record, host, run, interrupted, damage>>

Objects == {"runtime", "user", "lock", "log", "hooks", "archiveConf", "executorUnit",
            "webConf", "journal", "credential", "webUnit", "services"}
Directories == {"runtime", "lock", "log", "hooks", "webConf", "journal"}

\* The objects in the order of the script, and the stage after each group.
PlanOf(first, second) ==
    <<"ATTEMPT_STARTED",
      "runtime", "RUNTIME_INSTALLED",
      "user", "lock", "log", "AUTHORITY_STATE_INITIALIZED",
      "hooks", "archiveConf", "ARCHIVE_PLATFORM_INITIALIZED",
      "executorUnit", "EXECUTOR_INSTALLED",
      "webConf", first, second, "webUnit", "WEB_INSTALLED",
      "services", "SERVICES_STARTED",
      "SMOKE_VERIFIED", "INSTALL_COMPLETE">>
CredentialFirst == PlanOf("credential", "journal")
Plan == PlanOf("journal", "credential")

\* stage_rank: how many stages the plan has up to a position.
Rank(k) == Cardinality({i \in 1..k : Plan[i] \notin Objects})
Stage(name) == Rank(CHOOSE k \in 1..Len(Plan) : Plan[k] = name)
Complete == Stage("INSTALL_COMPLETE")

Idle == [mode |-> "idle", at |-> 1]

InstallTypeOK ==
    /\ stage \in 0..Complete
    /\ stray \in BOOLEAN
    /\ object \in [Objects -> {"absent", "torn", "exact", "foreign"}]
    /\ crowded \subseteq Directories
    /\ {journal, published} \subseteq Secrets \cup {None}
    /\ runner \in BOOLEAN
    /\ run \in [mode : {"idle", "visit", "write", "rename"}, at : 1..Len(Plan)]
    /\ interrupted \in 0..Interruptions
    /\ damage \subseteq {"altered", "rebooted", "runner"}

\* A host without github-runner-tools, or with one object of something else.
InstallInit ==
    /\ stage = 0 /\ stray = FALSE
    /\ \/ object = [o \in Objects |-> "absent"] /\ damage = {}
       \/ /\ \E f \in Objects \ {"services"} :
                 object = [o \in Objects |-> IF o = f THEN "foreign" ELSE "absent"]
          /\ damage = {"altered"}
    /\ crowded = {} /\ journal = None /\ published = None
    /\ runner = FALSE
    /\ run = Idle
    /\ interrupted = 0

-----------------------------------------------------------------------------
(* The start of a run.                                                        *)

\* managed_object_exists_without_state; the state directory may be there, but
\* must be empty.  The lock directory and the Web user are not looked at.
UntrackedPartial ==
    \/ \E o \in Objects \ {"user", "lock", "services"} : object[o] # "absent"
    \/ stray \/ runner

BeginFresh ==
    /\ run.mode = "idle" /\ stage = 0
    /\ ~UntrackedPartial
    /\ run' = [mode |-> "visit", at |-> 1]
    /\ UNCHANGED <<record, host, interrupted, damage>>

\* Administrator provenance may exist once the Executor is installed.
NotBeforeWeb == Stage("WEB_INSTALLED")
JournalAllowedFrom == Stage("EXECUTOR_INSTALLED")

\* A recorded stage is resumed unless it is the last one or a runner exists.
BeginResume ==
    /\ run.mode = "idle" /\ stage \in 1..(Complete - 1)
    /\ stage < JournalAllowedFrom => object["journal"] = "absent"
    /\ ~runner
    /\ run' = [mode |-> "visit", at |-> 2]
    /\ UNCHANGED <<record, host, interrupted, damage>>

-----------------------------------------------------------------------------
(* The objects of the plan, one after the other.                              *)

Here == Plan[run.at]
AtObject == Here \in Objects
Move(mode, at) == run' = [mode |-> mode, at |-> at]

\* stage_at_least: the recorded stage covers this position.
Covered == stage >= Rank(run.at) + (IF AtObject THEN 1 ELSE 0)

\* verify_file, verify_directory, verify_exact_entries, verify_generated of a
\* covered object; the state directory must hold the state and the journal and
\* nothing else, and the credential the bytes of the journal.
StageTrusted(o) == TRUE
Verified(o) ==
    /\ object[o] = "exact" /\ o \notin crowded
    /\ o = "journal" => ~stray /\ ~runner
    /\ o = "credential" => published = journal

\* checked_install, checked_directory and auth_recovery of an object that is
\* not covered: what exists must be as expected, what does not is made.
\* check_entries_subset, which is to refuse unknown neighbours, ends the format
\* of find with a backslash and an n, so that its loop never sees a line.
NotAsExpected(o) == object[o] # "exact"
MayInstall(o) ==
    /\ object[o] = "absent"
    /\ o = "journal" => object["credential"] = "absent"

MayKeep(o) ==
    /\ object[o] = "exact"
    /\ o = "credential" => published = journal

Keep ==
    /\ run.mode = "visit" /\ AtObject
    /\ IF Covered THEN Verified(Here) ELSE MayKeep(Here)
    /\ Move("visit", run.at + 1)
    /\ UNCHANGED <<record, host, interrupted, damage>>

\* install, useradd, systemctl enable, os.open(O_EXCL): none of them is atomic.
StartInstall ==
    /\ run.mode = "visit" /\ AtObject /\ ~Covered
    /\ MayInstall(Here)
    /\ object' = [object EXCEPT ![Here] = "torn"]
    /\ Move("write", run.at)
    /\ UNCHANGED <<record, crowded, journal, published, runner, interrupted, damage>>

\* The journal gets the password just typed, the credential what the journal holds.
EndInstall ==
    /\ run.mode = "write"
    /\ object' = [object EXCEPT ![Here] = "exact"]
    /\ IF Here = "journal" THEN journal' \in Secrets ELSE UNCHANGED journal
    /\ published' = IF Here = "credential" THEN journal ELSE published
    /\ Move("visit", run.at + 1)
    /\ UNCHANGED <<record, crowded, runner, interrupted, damage>>

\* verify_first_install_smoke, on every run.
SmokePasses ==
    Here = "SMOKE_VERIFIED" =>
        \A o \in {"services", "log", "runtime"} : object[o] = "exact"

PassStage ==
    /\ run.mode = "visit" /\ ~AtObject /\ Covered
    /\ SmokePasses
    /\ Move("visit", run.at + 1)
    /\ UNCHANGED <<record, host, interrupted, damage>>

\* write_state: a temporary file in the state directory, then mv.
WriteState ==
    /\ run.mode = "visit" /\ ~AtObject /\ ~Covered
    /\ SmokePasses
    /\ Move("rename", run.at)
    /\ UNCHANGED <<record, host, interrupted, damage>>

RunOn == Move("visit", run.at + 1)
AdvanceOrEnd == IF Here = "INSTALL_COMPLETE" THEN run' = Idle ELSE RunOn

RenameState ==
    /\ run.mode = "rename"
    /\ stage' = Rank(run.at)
    /\ AdvanceOrEnd
    /\ UNCHANGED <<stray, host, interrupted, damage>>

\* die: an object that is not as expected stops every run that meets it.
Refuse ==
    /\ run.mode = "visit"
    /\ IF AtObject
       THEN IF Covered THEN ~Verified(Here) ELSE ~MayKeep(Here) /\ ~MayInstall(Here)
       ELSE ~SmokePasses
    /\ run' = Idle
    /\ UNCHANGED <<record, host, interrupted, damage>>

-----------------------------------------------------------------------------
(* Interruptions and the rest of the world.                                   *)

\* A command fails between two objects: apt, the address, the terminal.
Fail ==
    /\ run.mode = "visit" /\ interrupted < Interruptions
    /\ run' = Idle
    /\ interrupted' = interrupted + 1
    /\ UNCHANGED <<record, host, damage>>

\* The run dies while it writes.  A tree keeps whole files only, or a torn one
\* too; of services, one may be enabled, which the next run repeats; a state
\* file is left under its temporary name.
Crash ==
    /\ run.mode \in {"write", "rename"} /\ interrupted < Interruptions
    /\ IF run.mode = "write"
       THEN /\ \E v \in {"absent", "torn"} :
                   /\ Here = "services" => v = "absent"
                   /\ object' = [object EXCEPT ![Here] = v]
            /\ UNCHANGED stray
       ELSE stray' = TRUE /\ UNCHANGED object
    /\ run' = Idle
    /\ interrupted' = interrupted + 1
    /\ UNCHANGED <<stage, crowded, journal, published, runner, damage>>

\* The lock directory is below /run, nothing makes it again at boot, and the
\* Executor's unit, which names it in ReadWritePaths, does not start without it.
Reboot ==
    /\ run.mode = "idle" /\ "rebooted" \notin damage
    /\ object["lock"] # "absent"
    /\ object' = [object EXCEPT !["lock"] = "absent", !["services"] = "absent"]
    /\ damage' = damage \cup {"rebooted"}
    /\ UNCHANGED <<record, crowded, journal, published, runner, run, interrupted>>

\* The administrator alters, deletes or adds something between two runs, once.
Altered ==
    /\ run.mode = "idle" /\ "altered" \notin damage /\ stage < Complete
    /\ damage' = damage \cup {"altered"}
    /\ UNCHANGED <<record, journal, published, runner, run, interrupted>>

Alter(o) ==
    /\ Altered
    /\ object[o] # "absent"
    /\ \E v \in {"absent", "foreign"} :
           /\ o = "services" => v = "absent"
           /\ object' = [object EXCEPT ![o] = v]
    /\ UNCHANGED crowded

Crowd(d) ==
    /\ Altered
    /\ object[d] = "exact"
    /\ crowded' = crowded \cup {d}
    /\ UNCHANGED object

\* A Create, by the Web or the command line, before the installation is complete.
CreateRunner ==
    /\ object["services"] = "exact" /\ ~runner
    /\ runner' = TRUE
    /\ damage' = damage \cup {"runner"}
    /\ UNCHANGED <<record, object, crowded, journal, published, run, interrupted>>

RunStep ==
    \/ Keep \/ StartInstall \/ EndInstall
    \/ PassStage \/ WriteState \/ RenameState
    \/ Refuse

Begin == BeginFresh \/ BeginResume

InstallNext ==
    \/ Begin \/ RunStep
    \/ Fail \/ Crash
    \/ Reboot
    \/ \E o \in Objects : Alter(o)
    \/ \E d \in Directories : Crowd(d)
    \/ CreateRunner

\* A run goes on, and somebody repeats the command until it has succeeded.
InstallFairness == WF_installVars(RunStep) /\ WF_installVars(Begin)

InstallSpec == InstallInit /\ [][InstallNext]_installVars /\ InstallFairness

-----------------------------------------------------------------------------
(* What the installer promises.                                               *)

\* "It must not trust the stage field alone": INSTALL_COMPLETE is recorded
\* only over objects that are all as expected, however many runs it took, and
\* whatever the administrator or a reboot did between them.
CompleteIsProven ==
    [][stage' = Complete /\ stage # Complete =>
          \A o \in Objects : object[o] = "exact"]_installVars

\* Fail closed: what somebody else made or a dead run left torn is never
\* overwritten or removed by any later run.
Unfinished(o) ==
    object[o] = "foreign" \/ (object[o] = "torn" /\ ~(run.mode = "write" /\ Here = o))

NothingOverwritten ==
    [][\A o \in Objects :
          Unfinished(o) /\ object'[o] # object[o] => damage' # damage]_installVars

\* "Journal first, credential second": a published credential is the one the
\* journal holds, so that a retry never publishes another.
CredentialIsJournalled ==
    object["credential"] = "exact" /\ "altered" \notin damage =>
        object["journal"] = "exact" /\ published = journal

\* What a dead run leaves behind that no later run accepts.
Remains == stray \/ \E o \in Objects : Unfinished(o)

\* "recognized + exact partial state -> verify -> continue -> INSTALL_COMPLETE":
\* whatever step the runs failed at, repeating the command completes the
\* installation, unless the host was changed or a write was cut short.
RetryCompletes == <>(stage = Complete \/ damage # {} \/ Remains)
=============================================================================
