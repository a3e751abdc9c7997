--------------------------- MODULE ArtifactMigration ---------------------------
(* scripts/migrate-github-artifacts.sh: artifacts of a repository are         *)
(* downloaded, verified, placed in the archive with a manifest, and deleted   *)
(* at GitHub if that was asked for.  Runs are not excluded from each other    *)
(* and may die at any step; set -e ends a run at the first command that       *)
(* fails.  A staging directory belongs to one run and is not part of the      *)
(* state.  The loss of written data in a power failure is left out.           *)
EXTENDS Naturals

CONSTANTS
    Artifacts,
    Digested,   \* artifacts for which GitHub offers a sha256 digest
    Procs,      \* runs of the script
    None,
    MaxRuns     \* bound of the runs started

ASSUME DigestedAreArtifacts == Digested \subseteq Artifacts /\ MaxRuns \in Nat
ASSUME NoneIsNoArtifact == None \notin Artifacts

VARIABLES
    remote,     \* at GitHub; "deleted" by a run, "gone" by anybody else
    dest,       \* artifacts whose directory exists in the archive
    payload,    \* dest/payload
    manifest,   \* dest/artifact-manifest.json
    proc,       \* the runs
    runs        \* how many were started

vars == <<remote, dest, payload, manifest, proc, runs>>

Contents == {"good", "other"}   \* what GitHub has, or anything else that unzips
Modes == {"download", "verify", "delete"}
Steps == {"idle", "loop", "fetch", "mkdir", "place", "open", "write", "request", "confirm",
          "update", "copy"}
Run == [pc : Steps, mode : Modes, todo : SUBSET Artifacts, at : Artifacts \cup {None},
        zip : Contents \cup {None}]
NoRun == [pc |-> "idle", mode |-> "verify", todo |-> {}, at |-> None, zip |-> None]

\* The types of the variables.
MigrationTypeOK ==
    /\ remote \in [Artifacts -> {"present", "deleted", "gone"}]
    /\ dest \subseteq Artifacts
    /\ payload \in [Artifacts -> Contents \cup {"absent"}]
    /\ manifest \in [Artifacts -> {"absent", "torn", "NOT_REQUESTED", "PASS", "DELETED"}]
    /\ proc \in [Procs -> Run] /\ runs \in 0..MaxRuns

MigrationInit ==
    /\ remote = [a \in Artifacts |-> "present"]
    /\ dest = {}
    /\ payload = [a \in Artifacts |-> "absent"] /\ manifest = [a \in Artifacts |-> "absent"]
    /\ proc = [p \in Procs |-> NoRun] /\ runs = 0

At(p, step) == proc[p].pc = step
GoTo(p, step) == proc' = [proc EXCEPT ![p].pc = step]
Die(p) == proc' = [proc EXCEPT ![p] = NoRun]
NextArtifact(p) ==
    proc' = [proc EXCEPT ![p] = [NoRun EXCEPT !.pc = "loop", !.mode = proc[p].mode,
                                    !.todo = proc[p].todo \ {proc[p].at}]]
archive == <<dest, payload, manifest>>

-----------------------------------------------------------------------------

\* The artifacts are listed once, at the start.
Start(p, mode) ==
    /\ At(p, "idle") /\ runs < MaxRuns
    /\ runs' = runs + 1
    /\ proc' = [proc EXCEPT ![p] = [NoRun EXCEPT !.pc = "loop", !.mode = mode,
                                       !.todo = {a \in Artifacts : remote[a] = "present"}]]
    /\ UNCHANGED <<remote, archive>>

Finish(p) ==
    /\ At(p, "loop") /\ proc[p].todo = {}
    /\ Die(p)
    /\ UNCHANGED <<remote, archive, runs>>

AnyManifest(status) == status \in {"NOT_REQUESTED", "PASS", "DELETED"}
Verified(status) == status \in {"PASS", "DELETED"}

TurnTo(p, a, step) == proc' = [proc EXCEPT ![p].pc = step, ![p].at = a]

\* A verified copy of an earlier run is used as it is: nothing is compared
\* again but the manifest's identity and that there is a payload.
Inspect(p, a) ==
    /\ At(p, "loop") /\ a \in proc[p].todo
    /\ \/ /\ a \notin dest
          /\ TurnTo(p, a, "fetch")
       \/ /\ a \in dest
          /\ ~Verified(manifest[a]) \/ payload[a] = "absent"
          /\ Die(p)
       \/ /\ Verified(manifest[a]) /\ payload[a] # "absent"
          /\ IF proc[p].mode = "delete" /\ manifest[a] # "DELETED"
             THEN TurnTo(p, a, "request")
             ELSE proc' = [proc EXCEPT ![p].todo = @ \ {a}]
    /\ UNCHANGED <<remote, archive, runs>>

NotVerified(mode, a, content) == TRUE
VerificationPasses(mode, a, content) == mode = "download" \/ a \notin Digested \/ content = "good"

\* The download, the extraction with its CRC checks and the comparison with
\* the digest work on the run's own staging directory.
Fetch(p, content) ==
    /\ At(p, "fetch")
    /\ remote[proc[p].at] = "present"
    /\ VerificationPasses(proc[p].mode, proc[p].at, content)
    /\ proc' = [proc EXCEPT ![p].pc = "mkdir", ![p].zip = content]
    /\ UNCHANGED <<remote, archive, runs>>

\* mkdir without -p: of two runs with the same artifact one dies here.
DestShared(a) == TRUE
DestFree(a) == a \notin dest
MakeDest(p) ==
    /\ At(p, "mkdir")
    /\ IF DestFree(proc[p].at) THEN GoTo(p, "place") ELSE Die(p)
    /\ dest' = dest \cup {proc[p].at}
    /\ UNCHANGED <<remote, payload, manifest, runs>>

PlacePayload(p) ==
    /\ At(p, "place")
    /\ payload' = [payload EXCEPT ![proc[p].at] = proc[p].zip]
    /\ GoTo(p, "open")
    /\ UNCHANGED <<remote, dest, manifest, runs>>

\* The shell makes or empties the manifest before jq writes it.
OpenManifest(p) ==
    /\ At(p, "open")
    /\ manifest' = [manifest EXCEPT ![proc[p].at] = "torn"]
    /\ GoTo(p, "write")
    /\ UNCHANGED <<remote, dest, payload, runs>>

WriteManifest(p) ==
    /\ At(p, "write")
    /\ manifest' = [manifest EXCEPT ![proc[p].at] =
                      IF proc[p].mode = "download" THEN "NOT_REQUESTED" ELSE "PASS"]
    /\ IF proc[p].mode = "delete" THEN GoTo(p, "request") ELSE NextArtifact(p)
    /\ UNCHANGED <<remote, dest, payload, runs>>

\* DELETE answers 404 for an artifact that is gone; it may have worked although
\* the run is told otherwise.
RequestDeletion(p) ==
    /\ At(p, "request")
    /\ LET a == proc[p].at IN
        \/ /\ remote[a] = "present"
           /\ remote' = [remote EXCEPT ![a] = "deleted"]
           /\ GoTo(p, "confirm") \/ Die(p)
        \/ UNCHANGED remote /\ Die(p)
    /\ UNCHANGED <<archive, runs>>

\* The artifact is looked for in a new listing.
ConfirmDeletion(p) ==
    /\ At(p, "confirm")
    /\ IF remote[proc[p].at] # "present" THEN GoTo(p, "update") ELSE Die(p)
    /\ UNCHANGED <<remote, archive, runs>>

\* The manifest is rewritten in /tmp and moved: a rename when the archive is
\* on the same file system, else mv removes the old manifest and copies.
RenameManifest(p) ==
    /\ At(p, "update")
    /\ manifest' = [manifest EXCEPT ![proc[p].at] = IF @ = "PASS" THEN "DELETED" ELSE @]
    /\ NextArtifact(p)
    /\ UNCHANGED <<remote, dest, payload, runs>>

RemoveManifest(p) ==
    /\ At(p, "update") /\ manifest[proc[p].at] = "PASS"
    /\ \E left \in {"absent", "torn"} : manifest' = [manifest EXCEPT ![proc[p].at] = left]
    /\ GoTo(p, "copy")
    /\ UNCHANGED <<remote, dest, payload, runs>>

CopyManifest(p) ==
    /\ At(p, "copy")
    /\ manifest' = [manifest EXCEPT ![proc[p].at] = "DELETED"]
    /\ NextArtifact(p)
    /\ UNCHANGED <<remote, dest, payload, runs>>

\* A command fails, or the run is killed.
Abort(p) ==
    /\ ~At(p, "idle")
    /\ Die(p)
    /\ UNCHANGED <<remote, archive, runs>>

\* The artifact expires, or is deleted on the GitHub page.
Vanish(a) ==
    /\ remote[a] = "present"
    /\ remote' = [remote EXCEPT ![a] = "gone"]
    /\ UNCHANGED <<archive, proc, runs>>

MigrationStep(p) ==
    \/ \E mode \in Modes : Start(p, mode)
    \/ \E a \in Artifacts : Inspect(p, a)
    \/ \E content \in Contents : Fetch(p, content)
    \/ MakeDest(p) \/ PlacePayload(p) \/ OpenManifest(p) \/ WriteManifest(p)
    \/ RequestDeletion(p) \/ ConfirmDeletion(p)
    \/ RenameManifest(p) \/ RemoveManifest(p) \/ CopyManifest(p)
    \/ Finish(p) \/ Abort(p)

MigrationNext ==
    \/ \E p \in Procs : MigrationStep(p)
    \/ \E a \in Artifacts : Vanish(a)

MigrationSpec == MigrationInit /\ [][MigrationNext]_vars

-----------------------------------------------------------------------------
(* Properties.                                                                *)

\* What a verified copy is: a payload that matches the digest, if one is known.
CopyIsSound(a) == payload[a] # "absent" /\ (a \in Digested => payload[a] = "good")

\* An artifact that a run has deleted at GitHub has a verified copy in the
\* archive, whatever earlier, dead or concurrent runs left there.
\* Code: the PASS branch and delete_remote_artifact.
DeletedHasCopy == \A a \in Artifacts : remote[a] = "deleted" => CopyIsSound(a)

\* A PASS manifest stands beside a verified copy, and one that says
\* remote_deleted is right about it.
\* Code: the order of mkdir, mv and the manifest, and of DELETE and its update.
ManifestTellsTruth ==
    \A a \in Artifacts :
        /\ Verified(manifest[a]) => a \in dest /\ CopyIsSound(a)
        /\ manifest[a] = "DELETED" => remote[a] # "present"

\* What a reader finds of an artifact in the archive, and what it says of it.
CopyOf(a) ==
    IF payload[a] = "absent" THEN "none" ELSE IF CopyIsSound(a) THEN "sound" ELSE "unchecked"

ClaimOf(a) ==
    IF manifest[a] = "PASS" THEN "kept" ELSE IF manifest[a] = "DELETED" THEN "moved" ELSE "none"

Move == INSTANCE VerifiedMove WITH
    Items <- Artifacts, copy <- [a \in Artifacts |-> CopyOf(a)],
    claim <- [a \in Artifacts |-> ClaimOf(a)]

\* Whatever runs race or die: an artifact is copied once, nobody touches its
\* verified copy or takes the manifest away while it is still at GitHub, and
\* it is deleted only after it was certified.
\* Code: the exclusive mkdir, the refusal of directories in doubt, the order
\* of mkdir, mv, manifest, DELETE and update.
ImplementsMove == Move!MoveSpec
=============================================================================
