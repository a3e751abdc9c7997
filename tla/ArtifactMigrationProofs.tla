------------------------ MODULE ArtifactMigrationProofs ------------------------
(* What ArtifactMigration promises, for any sets of artifacts and of runs and *)
(* any number of runs started.  Everything rests on who owns a directory of   *)
(* the archive: from mkdir to the end of its manifest it has one run working  *)
(* in it and no run that goes on to delete.                                   *)
EXTENDS ArtifactMigration, TLAPS

\* A run that fills the directory it made, and one that is past that.
Filling(p) == proc[p].pc \in {"place", "open", "write"}
Deleting(p) == proc[p].pc \in {"request", "confirm", "update", "copy"}

ArtifactOfRun ==
    \A p \in Procs : proc[p].pc \notin {"idle", "loop"} => proc[p].at \in Artifacts

\* What is placed has been verified in the mode of the run.
StagedIsVerified ==
    \A p \in Procs : proc[p].pc \in {"mkdir", "place", "open", "write"} =>
        /\ proc[p].zip \in Contents
        /\ VerificationPasses(proc[p].mode, proc[p].at, proc[p].zip)

\* A directory that is being filled has no verified manifest, no other run in
\* it, and an artifact nobody has deleted yet.
OneFills ==
    \A p \in Procs : Filling(p) =>
        /\ proc[p].at \in dest
        /\ ~Verified(manifest[proc[p].at])
        /\ remote[proc[p].at] # "deleted"
        /\ \A q \in Procs \ {p} :
              Filling(q) \/ Deleting(q) => proc[q].at # proc[p].at

PlacedIsStaged ==
    \A p \in Procs : proc[p].pc \in {"open", "write"} =>
        payload[proc[p].at] = proc[p].zip

\* A run deletes over a sound copy only, and rewrites a manifest after that.
DeletesSound ==
    \A p \in Procs : Deleting(p) =>
        /\ proc[p].at \in dest /\ CopyIsSound(proc[p].at)
        /\ proc[p].pc \in {"update", "copy"} => remote[proc[p].at] # "present"

DeletedIsPlaced == \A a \in Artifacts : remote[a] = "deleted" => a \in dest

MInv ==
    /\ MigrationTypeOK /\ ArtifactOfRun /\ StagedIsVerified /\ OneFills
    /\ PlacedIsStaged /\ DeletesSound /\ DeletedIsPlaced
    /\ DeletedHasCopy /\ ManifestTellsTruth

-----------------------------------------------------------------------------

LEMMA InitMInv == MigrationInit => MInv
<1> SUFFICES ASSUME MigrationInit PROVE MInv
  OBVIOUS
<1>1. MigrationTypeOK
  <2>1. NoRun \in Run
    BY DEF NoRun, Run, Steps, Modes
  <2> QED
    BY <2>1, DigestedAreArtifacts DEF MigrationInit, MigrationTypeOK
<1> QED
  BY <1>1 DEF MigrationInit, MInv, ArtifactOfRun, StagedIsVerified, OneFills, PlacedIsStaged,
         DeletesSound, DeletedIsPlaced, DeletedHasCopy, ManifestTellsTruth, NoRun, Filling,
         Deleting, Verified

LEMMA StepMInv == MInv /\ [MigrationNext]_vars => MInv'
<1> SUFFICES ASSUME MInv, [MigrationNext]_vars PROVE MInv'
  OBVIOUS
<1> USE DEF MInv, MigrationTypeOK, ArtifactOfRun, StagedIsVerified, OneFills,
            PlacedIsStaged, DeletesSound, DeletedIsPlaced, DeletedHasCopy, ManifestTellsTruth,
            NoRun, Run, Steps, Modes, Contents, Filling, Deleting, Verified, CopyIsSound,
            VerificationPasses, At, GoTo, Die, NextArtifact, archive
<1>1. ASSUME NEW p \in Procs, NEW mode \in Modes, Start(p, mode) PROVE MInv'
  <2>1. MigrationTypeOK'
    <3>1. runs' \in 0..MaxRuns
      BY <1>1, DigestedAreArtifacts DEF Start
    <3>2. [NoRun EXCEPT !.pc = "loop", !.mode = mode,
              !.todo = {a \in Artifacts : remote[a] = "present"}] \in Run
      OBVIOUS
    <3> QED
      BY <1>1, <3>1, <3>2 DEF Start
  <2>2. ArtifactOfRun' /\ StagedIsVerified'
    BY <1>1 DEF Start
  <2>3. OneFills'
    BY <1>1 DEF Start
  <2>4. PlacedIsStaged'
    BY <1>1 DEF Start
  <2>5. DeletesSound' /\ DeletedIsPlaced'
    BY <1>1 DEF Start
  <2>6. DeletedHasCopy'
    BY <1>1 DEF Start
  <2>7. ManifestTellsTruth'
    BY <1>1 DEF Start
  <2> QED
    BY <2>1, <2>2, <2>3, <2>4, <2>5, <2>6, <2>7
<1>2. ASSUME NEW p \in Procs, NEW a \in Artifacts, Inspect(p, a) PROVE MInv'
  <2>1. CASE TurnTo(p, a, "fetch") /\ a \notin dest
    <3> DEFINE r == [proc[p] EXCEPT !.pc = "fetch", !.at = a]
    <3>0. proc[p] \in Run /\ UNCHANGED <<remote, dest, payload, manifest, runs>>
      BY <1>2 DEF Inspect
    <3>1. r \in Run /\ proc' = [proc EXCEPT ![p] = r]
      BY <2>1, <3>0 DEF TurnTo
    <3>2. r.pc = "fetch" /\ r.at = a
      BY <1>2, <2>1 DEF Inspect
    <3> HIDE DEF r
    <3>3. MigrationTypeOK'
      BY <3>0, <3>1, <3>2
    <3>4. ArtifactOfRun' /\ StagedIsVerified'
      BY <3>0, <3>1, <3>2
    <3>5. OneFills' /\ PlacedIsStaged'
      BY <3>0, <3>1, <3>2
    <3>6. DeletesSound' /\ DeletedIsPlaced'
      BY <3>0, <3>1, <3>2
    <3>7. DeletedHasCopy' /\ ManifestTellsTruth'
      BY <3>0, <3>1, <3>2
    <3> QED
      BY <3>3, <3>4, <3>5, <3>6, <3>7
  <2>2. CASE Die(p)
    <3> DEFINE r == NoRun
    <3>0. proc[p] \in Run /\ UNCHANGED <<remote, dest, payload, manifest, runs>>
      BY <1>2 DEF Inspect
    <3>1. r \in Run /\ proc' = [proc EXCEPT ![p] = r]
      BY <2>2, <3>0 DEF TurnTo
    <3>2. r.pc = "idle"
      BY <1>2, <2>2 DEF Inspect
    <3> HIDE DEF r
    <3>3. MigrationTypeOK'
      BY <3>0, <3>1, <3>2
    <3>4. ArtifactOfRun' /\ StagedIsVerified'
      BY <3>0, <3>1, <3>2
    <3>5. OneFills' /\ PlacedIsStaged'
      BY <3>0, <3>1, <3>2
    <3>6. DeletesSound' /\ DeletedIsPlaced'
      BY <3>0, <3>1, <3>2
    <3>7. DeletedHasCopy' /\ ManifestTellsTruth'
      BY <3>0, <3>1, <3>2
    <3> QED
      BY <3>3, <3>4, <3>5, <3>6, <3>7
  <2>3. CASE TurnTo(p, a, "request") /\ Verified(manifest[a]) /\ payload[a] # "absent"
    <3> DEFINE r == [proc[p] EXCEPT !.pc = "request", !.at = a]
    <3>0. proc[p] \in Run /\ UNCHANGED <<remote, dest, payload, manifest, runs>>
      BY <1>2 DEF Inspect
    <3>1. r \in Run /\ proc' = [proc EXCEPT ![p] = r]
      BY <2>3, <3>0 DEF TurnTo
    <3>2. r.pc = "request" /\ r.at = a /\ a \in dest /\ CopyIsSound(a)
          /\ \A q \in Procs \ {p} : Filling(q) => proc[q].at # a
      BY <1>2, <2>3 DEF Inspect
    <3> HIDE DEF r
    <3>3. MigrationTypeOK'
      BY <3>0, <3>1, <3>2
    <3>4. ArtifactOfRun' /\ StagedIsVerified'
      BY <3>0, <3>1, <3>2
    <3>5. OneFills' /\ PlacedIsStaged'
      BY <3>0, <3>1, <3>2
    <3>6. DeletesSound' /\ DeletedIsPlaced'
      BY <3>0, <3>1, <3>2
    <3>7. DeletedHasCopy' /\ ManifestTellsTruth'
      BY <3>0, <3>1, <3>2
    <3> QED
      BY <3>3, <3>4, <3>5, <3>6, <3>7
  <2>4. CASE proc' = [proc EXCEPT ![p].todo = @ \ {a}]
    <3> DEFINE r == [proc[p] EXCEPT !.todo = @ \ {a}]
    <3>0. proc[p] \in Run /\ UNCHANGED <<remote, dest, payload, manifest, runs>>
      BY <1>2 DEF Inspect
    <3>1. r \in Run /\ proc' = [proc EXCEPT ![p] = r]
      BY <2>4, <3>0 DEF TurnTo
    <3>2. r.pc = "loop"
      BY <1>2, <2>4 DEF Inspect
    <3> HIDE DEF r
    <3>3. MigrationTypeOK'
      BY <3>0, <3>1, <3>2
    <3>4. ArtifactOfRun' /\ StagedIsVerified'
      BY <3>0, <3>1, <3>2
    <3>5. OneFills' /\ PlacedIsStaged'
      BY <3>0, <3>1, <3>2
    <3>6. DeletesSound' /\ DeletedIsPlaced'
      BY <3>0, <3>1, <3>2
    <3>7. DeletedHasCopy' /\ ManifestTellsTruth'
      BY <3>0, <3>1, <3>2
    <3> QED
      BY <3>3, <3>4, <3>5, <3>6, <3>7
  <2> QED
    BY <1>2, <2>1, <2>2, <2>3, <2>4 DEF Inspect
<1>3. ASSUME NEW p \in Procs, NEW content \in Contents, Fetch(p, content) PROVE MInv'
  <2>1. MigrationTypeOK'
    <3>1. proc[p] \in Run
      OBVIOUS
    <3>2. [proc[p] EXCEPT !.pc = "mkdir", !.zip = content] \in Run
      BY <3>1
    <3> QED
      BY <1>3, <3>2 DEF Fetch
  <2>2. ArtifactOfRun' /\ StagedIsVerified'
    BY <1>3 DEF Fetch
  <2>3. OneFills'
    BY <1>3 DEF Fetch
  <2>4. PlacedIsStaged'
    BY <1>3 DEF Fetch
  <2>5. DeletesSound' /\ DeletedIsPlaced'
    BY <1>3 DEF Fetch
  <2>6. DeletedHasCopy'
    BY <1>3 DEF Fetch
  <2>7. ManifestTellsTruth'
    BY <1>3 DEF Fetch
  <2> QED
    BY <2>1, <2>2, <2>3, <2>4, <2>5, <2>6, <2>7
<1>4. ASSUME NEW p \in Procs, MakeDest(p) PROVE MInv'
  <2>1. MigrationTypeOK'
    BY <1>4 DEF MakeDest, DestFree
  <2>2. ArtifactOfRun' /\ StagedIsVerified'
    BY <1>4 DEF MakeDest, DestFree
  <2>3. OneFills'
    BY <1>4 DEF MakeDest, DestFree
  <2>4. PlacedIsStaged'
    BY <1>4 DEF MakeDest, DestFree
  <2>5. DeletesSound' /\ DeletedIsPlaced'
    BY <1>4 DEF MakeDest, DestFree
  <2>6. DeletedHasCopy'
    BY <1>4 DEF MakeDest, DestFree
  <2>7. ManifestTellsTruth'
    BY <1>4 DEF MakeDest, DestFree
  <2> QED
    BY <2>1, <2>2, <2>3, <2>4, <2>5, <2>6, <2>7
<1>5. ASSUME NEW p \in Procs, PlacePayload(p) PROVE MInv'
  <2>1. MigrationTypeOK'
    BY <1>5 DEF PlacePayload
  <2>2. ArtifactOfRun' /\ StagedIsVerified'
    BY <1>5 DEF PlacePayload
  <2>3. OneFills'
    BY <1>5 DEF PlacePayload
  <2>4. PlacedIsStaged'
    BY <1>5 DEF PlacePayload
  <2>5. DeletesSound' /\ DeletedIsPlaced'
    BY <1>5 DEF PlacePayload
  <2>6. DeletedHasCopy'
    BY <1>5 DEF PlacePayload
  <2>7. ManifestTellsTruth'
    BY <1>5 DEF PlacePayload
  <2> QED
    BY <2>1, <2>2, <2>3, <2>4, <2>5, <2>6, <2>7
<1>6. ASSUME NEW p \in Procs, OpenManifest(p) PROVE MInv'
  BY <1>6 DEF OpenManifest
<1>7. ASSUME NEW p \in Procs, WriteManifest(p) PROVE MInv'
  <2> DEFINE a == proc[p].at
             written == IF proc[p].mode = "download" THEN "NOT_REQUESTED" ELSE "PASS"
  <2>1. /\ proc[p].pc = "write" /\ a \in Artifacts /\ a \in dest
        /\ manifest' = [manifest EXCEPT ![a] = written]
        /\ UNCHANGED <<remote, dest, payload, runs>>
    BY <1>7 DEF WriteManifest
  <2>2. CopyIsSound(a) \/ written = "NOT_REQUESTED"
    BY <2>1
  <2>3. written \in {"NOT_REQUESTED", "PASS"}
    OBVIOUS
  <2>4. CASE GoTo(p, "request") /\ proc[p].mode = "delete"
    <3>1. written = "PASS"
      BY <2>4
    <3> QED
      BY <2>1, <2>2, <2>4, <3>1
  <2>5. CASE NextArtifact(p)
    <3>1. MigrationTypeOK'
      BY <2>1, <2>3, <2>5
    <3> HIDE DEF written
    <3>2. ArtifactOfRun' /\ StagedIsVerified'
      BY <2>1, <2>5
    <3>3. OneFills'
      BY <2>1, <2>5
    <3>4. PlacedIsStaged' /\ DeletesSound' /\ DeletedIsPlaced'
      BY <2>1, <2>5
    <3>5. DeletedHasCopy' /\ ManifestTellsTruth'
      BY <2>1, <2>2, <2>3, <2>5
    <3> QED
      BY <3>1, <3>2, <3>3, <3>4, <3>5
  <2> QED
    BY <1>7, <2>4, <2>5 DEF WriteManifest
<1>8. ASSUME NEW p \in Procs, RequestDeletion(p) PROVE MInv'
  <2>1. MigrationTypeOK'
    BY <1>8 DEF RequestDeletion
  <2>2. ArtifactOfRun' /\ StagedIsVerified'
    BY <1>8 DEF RequestDeletion
  <2>3. OneFills'
    BY <1>8 DEF RequestDeletion
  <2>4. PlacedIsStaged'
    BY <1>8 DEF RequestDeletion
  <2>5. DeletesSound' /\ DeletedIsPlaced'
    BY <1>8 DEF RequestDeletion
  <2>6. DeletedHasCopy'
    BY <1>8 DEF RequestDeletion
  <2>7. ManifestTellsTruth'
    BY <1>8 DEF RequestDeletion
  <2> QED
    BY <2>1, <2>2, <2>3, <2>4, <2>5, <2>6, <2>7
<1>9. ASSUME NEW p \in Procs, ConfirmDeletion(p) PROVE MInv'
  <2>1. MigrationTypeOK'
    BY <1>9 DEF ConfirmDeletion
  <2>2. ArtifactOfRun' /\ StagedIsVerified'
    BY <1>9 DEF ConfirmDeletion
  <2>3. OneFills'
    BY <1>9 DEF ConfirmDeletion
  <2>4. PlacedIsStaged'
    BY <1>9 DEF ConfirmDeletion
  <2>5. DeletesSound' /\ DeletedIsPlaced'
    BY <1>9 DEF ConfirmDeletion
  <2>6. DeletedHasCopy'
    BY <1>9 DEF ConfirmDeletion
  <2>7. ManifestTellsTruth'
    BY <1>9 DEF ConfirmDeletion
  <2> QED
    BY <2>1, <2>2, <2>3, <2>4, <2>5, <2>6, <2>7
<1>10. ASSUME NEW p \in Procs, RenameManifest(p) PROVE MInv'
  <2>1. MigrationTypeOK'
    BY <1>10 DEF RenameManifest
  <2>2. ArtifactOfRun' /\ StagedIsVerified'
    BY <1>10 DEF RenameManifest
  <2>3. OneFills'
    BY <1>10 DEF RenameManifest
  <2>4. PlacedIsStaged'
    BY <1>10 DEF RenameManifest
  <2>5. DeletesSound' /\ DeletedIsPlaced'
    BY <1>10 DEF RenameManifest
  <2>6. DeletedHasCopy'
    BY <1>10 DEF RenameManifest
  <2>7. ManifestTellsTruth'
    BY <1>10 DEF RenameManifest
  <2> QED
    BY <2>1, <2>2, <2>3, <2>4, <2>5, <2>6, <2>7
<1>11. ASSUME NEW p \in Procs, RemoveManifest(p) PROVE MInv'
  <2>1. MigrationTypeOK'
    BY <1>11 DEF RemoveManifest
  <2>2. ArtifactOfRun' /\ StagedIsVerified'
    BY <1>11 DEF RemoveManifest
  <2>3. OneFills'
    BY <1>11 DEF RemoveManifest
  <2>4. PlacedIsStaged'
    BY <1>11 DEF RemoveManifest
  <2>5. DeletesSound' /\ DeletedIsPlaced'
    BY <1>11 DEF RemoveManifest
  <2>6. DeletedHasCopy'
    BY <1>11 DEF RemoveManifest
  <2>7. ManifestTellsTruth'
    BY <1>11 DEF RemoveManifest
  <2> QED
    BY <2>1, <2>2, <2>3, <2>4, <2>5, <2>6, <2>7
<1>12. ASSUME NEW p \in Procs, CopyManifest(p) PROVE MInv'
  <2>1. MigrationTypeOK'
    BY <1>12 DEF CopyManifest
  <2>2. ArtifactOfRun' /\ StagedIsVerified'
    BY <1>12 DEF CopyManifest
  <2>3. OneFills'
    BY <1>12 DEF CopyManifest
  <2>4. PlacedIsStaged'
    BY <1>12 DEF CopyManifest
  <2>5. DeletesSound' /\ DeletedIsPlaced'
    BY <1>12 DEF CopyManifest
  <2>6. DeletedHasCopy'
    BY <1>12 DEF CopyManifest
  <2>7. ManifestTellsTruth'
    BY <1>12 DEF CopyManifest
  <2> QED
    BY <2>1, <2>2, <2>3, <2>4, <2>5, <2>6, <2>7
<1>13. ASSUME NEW p \in Procs, Finish(p) \/ Abort(p) PROVE MInv'
  BY <1>13 DEF Finish, Abort
<1>14. ASSUME NEW a \in Artifacts, Vanish(a) PROVE MInv'
  <2>1. MigrationTypeOK'
    BY <1>14 DEF Vanish
  <2>2. ArtifactOfRun' /\ StagedIsVerified'
    BY <1>14 DEF Vanish
  <2>3. OneFills'
    BY <1>14 DEF Vanish
  <2>4. PlacedIsStaged'
    BY <1>14 DEF Vanish
  <2>5. DeletesSound' /\ DeletedIsPlaced'
    BY <1>14 DEF Vanish
  <2>6. DeletedHasCopy'
    BY <1>14 DEF Vanish
  <2>7. ManifestTellsTruth'
    BY <1>14 DEF Vanish
  <2> QED
    BY <2>1, <2>2, <2>3, <2>4, <2>5, <2>6, <2>7
<1>15. CASE UNCHANGED vars
  BY <1>15 DEF vars
<1> HIDE DEF MInv, Modes, Contents, Verified, At, GoTo, Die, NextArtifact
<1>16. ASSUME NEW p \in Procs, MigrationStep(p) PROVE MInv'
  BY <1>1, <1>2, <1>3, <1>4, <1>5, <1>6, <1>7, <1>8, <1>9, <1>10, <1>11, <1>12, <1>13, <1>16
     DEF MigrationStep
<1> QED
  BY <1>14, <1>15, <1>16 DEF MigrationNext

\* The invariant the other theorems rest on, the types among it.
THEOREM MigrationInductive == MigrationSpec => []MInv
<1>1. MigrationInit => MInv
  BY InitMInv
<1>2. MInv /\ [MigrationNext]_vars => MInv'
  BY StepMInv
<1> QED
  BY <1>1, <1>2, PTL DEF MigrationSpec

\* Nothing is deleted at GitHub of which the archive has no sound copy.
\* Code: the PASS branch and delete_remote_artifact.
THEOREM DeletionsAreCovered == MigrationSpec => []DeletedHasCopy
<1>1. MInv => DeletedHasCopy
  BY DEF MInv
<1> QED
  BY <1>1, MigrationInductive, PTL

\* Manifests are true of the copy beside them and of GitHub.
\* Code: the order of mkdir, mv and the manifest, and of DELETE and its update.
THEOREM ManifestsAreTrue == MigrationSpec => []ManifestTellsTruth
<1>1. MInv => ManifestTellsTruth
  BY DEF MInv
<1> QED
  BY <1>1, MigrationInductive, PTL

\* No run touches the verified copy of another, nor takes its manifest away
\* while the artifact is still at GitHub.
VerifiedCopyKept ==
    [][\A a \in Artifacts : Verified(manifest[a]) =>
        /\ payload'[a] = payload[a]
        /\ Verified(manifest'[a]) \/ remote[a] # "present"]_vars

\* No step touches a verified copy, or its manifest before the deletion.
\* Code: the exclusive mkdir, the refusal of directories in doubt.
THEOREM CopiesAreKept == MigrationSpec => VerifiedCopyKept
<1> DEFINE Kept == \A a \in Artifacts : Verified(manifest[a]) =>
                      /\ payload'[a] = payload[a]
                      /\ Verified(manifest'[a]) \/ remote[a] # "present"
<1>1. MInv /\ [MigrationNext]_vars => [Kept]_vars
  <2> SUFFICES ASSUME MInv, MigrationNext PROVE Kept
    OBVIOUS
  <2> USE DEF MInv, MigrationTypeOK, ArtifactOfRun, OneFills, DeletesSound, Filling, Deleting,
              Verified, At, archive
  <2>1. ASSUME NEW p \in Procs, MigrationStep(p) PROVE Kept
    <3>1. CASE \/ \E mode \in Modes : Start(p, mode)
               \/ \E a \in Artifacts : Inspect(p, a)
               \/ \E content \in Contents : Fetch(p, content)
               \/ MakeDest(p) \/ RequestDeletion(p) \/ ConfirmDeletion(p)
               \/ Finish(p) \/ Abort(p)
      BY <3>1 DEF Start, Inspect, Fetch, MakeDest, RequestDeletion, ConfirmDeletion, Finish, Abort
    <3>2. CASE PlacePayload(p) \/ OpenManifest(p) \/ WriteManifest(p)
      BY <3>2 DEF PlacePayload, OpenManifest, WriteManifest
    <3>3. CASE RenameManifest(p) \/ RemoveManifest(p) \/ CopyManifest(p)
      BY <3>3 DEF RenameManifest, RemoveManifest, CopyManifest
    <3> QED
      BY <2>1, <3>1, <3>2, <3>3 DEF MigrationStep
  <2>2. ASSUME NEW a \in Artifacts, Vanish(a) PROVE Kept
    BY <2>2 DEF Vanish
  <2> QED
    BY <2>1, <2>2 DEF MigrationNext
<1> QED
  BY <1>1, MigrationInductive, PTL DEF MigrationSpec, VerifiedCopyKept

-----------------------------------------------------------------------------
(* The refinement of VerifiedMove.                                            *)

\* A directory is filled once, and a run that deletes has, as long as the
\* artifact is there, a verified manifest beside the copy.
FilledOnce ==
    /\ \A a \in Artifacts : a \notin dest => payload[a] = "absent"
    /\ \A p \in Procs : proc[p].pc = "place" => payload[proc[p].at] = "absent"
DeletesCertified ==
    \A p \in Procs : Deleting(p) =>
        Verified(manifest[proc[p].at]) \/ remote[proc[p].at] # "present"
Once == FilledOnce /\ DeletesCertified

LEMMA InitOnce == MigrationInit => Once
BY DEF MigrationInit, Once, FilledOnce, DeletesCertified, NoRun, Deleting

\* A step of a run that changes neither what is there nor any directory.
LEMMA OnceStep ==
  ASSUME MInv, Once, NEW p \in Procs, NEW r, proc' = [proc EXCEPT ![p] = r],
         UNCHANGED <<remote, dest, payload, manifest>>, r.pc # "place",
         r.pc \in {"request", "confirm", "update", "copy"} =>
            Verified(manifest[r.at]) \/ remote[r.at] # "present"
  PROVE  Once'
<1>1. proc'[p] = r /\ \A q \in Procs \ {p} : proc'[q] = proc[q]
  BY DEF MInv, MigrationTypeOK
<1> QED
  BY <1>1 DEF Once, FilledOnce, DeletesCertified, Deleting, Verified

LEMMA StepOnce == MInv /\ Once /\ [MigrationNext]_vars => Once'
<1> SUFFICES ASSUME MInv, Once, [MigrationNext]_vars PROVE Once'
  OBVIOUS
<1>0. ASSUME NEW p \in Procs
      PROVE  proc[p] \in Run /\ p \in DOMAIN proc
  BY DEF MInv, MigrationTypeOK
<1>1. ASSUME NEW p \in Procs, Die(p), UNCHANGED <<remote, dest, payload, manifest>> PROVE Once'
  <2>1. NoRun.pc = "idle"
    BY DEF NoRun
  <2> QED
    BY <1>1, <2>1, OnceStep DEF Die
<1>2. ASSUME NEW p \in Procs, UNCHANGED <<remote, dest, payload, manifest>>,
             \/ \E mode \in Modes : Start(p, mode)
             \/ \E content \in Contents : Fetch(p, content)
             \/ ConfirmDeletion(p)
      PROVE  Once'
  <2>1. ASSUME NEW mode \in Modes, Start(p, mode) PROVE Once'
    <3> DEFINE r == [NoRun EXCEPT !.pc = "loop", !.mode = mode,
                       !.todo = {a \in Artifacts : remote[a] = "present"}]
    <3>1. r.pc = "loop" /\ proc' = [proc EXCEPT ![p] = r]
      BY <2>1 DEF Start, NoRun
    <3> HIDE DEF r
    <3> QED
      BY <1>2, <3>1, OnceStep
  <2>2. ASSUME NEW content \in Contents, Fetch(p, content) PROVE Once'
    <3> DEFINE r == [proc[p] EXCEPT !.pc = "mkdir", !.zip = content]
    <3>1. r.pc = "mkdir" /\ proc' = [proc EXCEPT ![p] = r]
      BY <1>0, <2>2 DEF Fetch, Run
    <3> HIDE DEF r
    <3> QED
      BY <1>2, <3>1, OnceStep
  <2>3. CASE At(p, "confirm") /\ remote[proc[p].at] # "present" /\ GoTo(p, "update")
    <3> DEFINE r == [proc[p] EXCEPT !.pc = "update"]
    <3>1. r.pc = "update" /\ r.at = proc[p].at /\ proc' = [proc EXCEPT ![p] = r]
      BY <1>0, <2>3 DEF GoTo, Run
    <3> HIDE DEF r
    <3> QED
      BY <1>2, <2>3, <3>1, OnceStep
  <2> QED
    BY <1>1, <1>2, <2>1, <2>2, <2>3 DEF ConfirmDeletion
<1>3. ASSUME NEW p \in Procs, NEW a \in Artifacts, Inspect(p, a) PROVE Once'
  <2>0. UNCHANGED <<remote, dest, payload, manifest>>
    BY <1>3 DEF Inspect, archive
  <2>1. ASSUME NEW step \in {"fetch", "request"}, TurnTo(p, a, step),
               step = "request" => Verified(manifest[a])
        PROVE  Once'
    <3> DEFINE r == [proc[p] EXCEPT !.pc = step, !.at = a]
    <3>1. r.pc = step /\ r.at = a /\ proc' = [proc EXCEPT ![p] = r]
      BY <1>0, <2>1 DEF TurnTo, Run
    <3> HIDE DEF r
    <3> QED
      BY <2>0, <2>1, <3>1, OnceStep
  <2>2. CASE proc' = [proc EXCEPT ![p].todo = @ \ {a}]
    <3> DEFINE r == [proc[p] EXCEPT !.todo = @ \ {a}]
    <3>1. r.pc = "loop" /\ proc' = [proc EXCEPT ![p] = r]
      BY <1>0, <1>3, <2>2 DEF Inspect, At, Run
    <3> HIDE DEF r
    <3> QED
      BY <2>0, <3>1, OnceStep
  <2> QED
    BY <1>1, <1>3, <2>0, <2>1, <2>2 DEF Inspect
<1>4. ASSUME NEW p \in Procs, MakeDest(p) PROVE Once'
  <2> DEFINE a == proc[p].at
  <2>1. UNCHANGED <<remote, payload, manifest>> /\ dest' = dest \cup {a} /\ dest \subseteq dest'
    BY <1>4 DEF MakeDest
  <2>2. DeletesCertified' /\ \A q \in Procs : proc'[q].pc = "place" =>
           payload'[proc'[q].at] = "absent"
    <3>1. CASE Die(p)
      BY <2>1, <3>1 DEF Die, NoRun, Once, FilledOnce, DeletesCertified, Deleting, Verified,
         MInv, MigrationTypeOK
    <3>2. CASE GoTo(p, "place") /\ a \notin dest
      <4>1. a \in Artifacts
        BY <1>4 DEF MInv, ArtifactOfRun, MakeDest, At
      <4>2. payload[a] = "absent"
        BY <3>2, <4>1 DEF Once, FilledOnce
      <4>3. proc'[p].pc = "place" /\ proc'[p].at = a /\ \A q \in Procs \ {p} : proc'[q] = proc[q]
        BY <1>0, <3>2 DEF GoTo, Run, MInv, MigrationTypeOK
      <4> QED
        BY <2>1, <4>2, <4>3 DEF Once, FilledOnce, DeletesCertified, Deleting, Verified
    <3> QED
      BY <1>4, <3>1, <3>2 DEF MakeDest, DestFree
  <2> QED
    BY <2>1, <2>2 DEF Once, FilledOnce
<1>5. ASSUME NEW p \in Procs, PlacePayload(p) \/ OpenManifest(p) \/ WriteManifest(p) PROVE Once'
  <2> DEFINE a == proc[p].at
  <2>1. a \in dest /\ a \in Artifacts /\ \A q \in Procs \ {p} :
           Filling(q) \/ Deleting(q) => proc[q].at # a
    BY <1>5 DEF MInv, ArtifactOfRun, OneFills, Filling, PlacePayload, OpenManifest, WriteManifest, At
  <2>2. /\ UNCHANGED <<remote, dest>>
        /\ \A b \in Artifacts \ {a} : payload'[b] = payload[b] /\ manifest'[b] = manifest[b]
        /\ \A q \in Procs \ {p} : proc'[q] = proc[q]
    BY <1>5, <2>1 DEF PlacePayload, OpenManifest, WriteManifest, GoTo, NextArtifact, MInv,
       MigrationTypeOK
  <2>3. proc'[p].pc # "place" /\ (Deleting(p)' => Verified(manifest'[proc'[p].at]))
    <3>1. CASE PlacePayload(p) \/ OpenManifest(p)
      BY <1>0, <3>1 DEF PlacePayload, OpenManifest, GoTo, Deleting, Run
    <3>2. CASE WriteManifest(p) /\ NextArtifact(p)
      BY <1>0, <3>2 DEF NextArtifact, NoRun, Deleting
    <3>3. CASE WriteManifest(p) /\ proc[p].mode = "delete" /\ GoTo(p, "request")
      BY <1>0, <2>1, <3>3 DEF WriteManifest, GoTo, Verified, Run, MInv, MigrationTypeOK
    <3> QED
      BY <1>5, <3>1, <3>2, <3>3 DEF WriteManifest
  <2>4. \A q \in Procs \ {p} : Filling(q) \/ Deleting(q) => proc[q].at \in Artifacts \ {a}
    BY <2>1 DEF MInv, ArtifactOfRun, Filling, Deleting
  <2> QED
    BY <2>1, <2>2, <2>3, <2>4 DEF Once, FilledOnce, DeletesCertified, Deleting, Filling, Verified
<1>6. ASSUME NEW p \in Procs, RequestDeletion(p) PROVE Once'
  <2> DEFINE a == proc[p].at
  <2>1. CASE UNCHANGED remote /\ Die(p)
    BY <1>1, <1>6, <2>1 DEF RequestDeletion, archive
  <2>2. CASE /\ remote[a] = "present" /\ remote' = [remote EXCEPT ![a] = "deleted"]
             /\ GoTo(p, "confirm") \/ Die(p)
    <3>1. /\ UNCHANGED <<dest, payload, manifest>>
          /\ remote'[a] # "present" /\ \A b : remote[b] # "present" => remote'[b] # "present"
      BY <1>6, <2>2 DEF RequestDeletion, archive, MInv, MigrationTypeOK, ArtifactOfRun, At
    <3>2. /\ \A q \in Procs \ {p} : proc'[q] = proc[q]
          /\ proc'[p].pc # "place" /\ (Deleting(p)' => proc'[p].at = a)
      BY <1>0, <2>2 DEF GoTo, Die, NoRun, Deleting, Run, MInv, MigrationTypeOK
    <3> QED
      BY <3>1, <3>2 DEF Once, FilledOnce, DeletesCertified, Deleting, Verified
  <2> QED
    BY <1>6, <2>1, <2>2 DEF RequestDeletion
<1>7. ASSUME NEW p \in Procs, RenameManifest(p) \/ RemoveManifest(p) \/ CopyManifest(p) PROVE Once'
  <2> DEFINE a == proc[p].at
  <2>1. remote[a] # "present" /\ a \in Artifacts
    BY <1>7 DEF MInv, ArtifactOfRun, DeletesSound, Deleting, RenameManifest, RemoveManifest,
       CopyManifest, At
  <2>2. \A b \in Artifacts \ {a} : manifest'[b] = manifest[b]
    BY <1>7, <2>1 DEF RenameManifest, RemoveManifest, CopyManifest, MInv, MigrationTypeOK
  <2>3. UNCHANGED <<remote, dest, payload>>
    BY <1>7 DEF RenameManifest, RemoveManifest, CopyManifest
  <2>4. /\ \A q \in Procs \ {p} : proc'[q] = proc[q]
        /\ proc'[p].pc # "place" /\ (Deleting(p)' => proc'[p].at = a)
    <3>1. CASE NextArtifact(p)
      BY <3>1 DEF NextArtifact, NoRun, Deleting, MInv, MigrationTypeOK
    <3>2. CASE GoTo(p, "copy")
      BY <1>0, <3>2 DEF GoTo, Run, MInv, MigrationTypeOK
    <3> QED
      BY <1>7, <3>1, <3>2 DEF RenameManifest, RemoveManifest, CopyManifest
  <2>5. \A q \in Procs : Deleting(q) => proc[q].at \in Artifacts
    BY DEF MInv, ArtifactOfRun, Deleting
  <2> QED
    BY <2>1, <2>2, <2>3, <2>4, <2>5 DEF Once, FilledOnce, DeletesCertified, Deleting, Verified
<1>8. ASSUME NEW a \in Artifacts, Vanish(a) PROVE Once'
  BY <1>8 DEF Vanish, archive, Once, FilledOnce, DeletesCertified, Deleting, Verified,
     MInv, MigrationTypeOK
<1>9. CASE UNCHANGED vars
  BY <1>9 DEF vars, Once, FilledOnce, DeletesCertified, Deleting, Verified
<1>10. ASSUME NEW p \in Procs, Finish(p) \/ Abort(p) PROVE Once'
  BY <1>1, <1>10 DEF Finish, Abort, archive
<1>11. ASSUME NEW p \in Procs,
              \/ \E mode \in Modes : Start(p, mode)
              \/ \E content \in Contents : Fetch(p, content)
              \/ ConfirmDeletion(p)
       PROVE  UNCHANGED <<remote, dest, payload, manifest>>
  BY <1>11 DEF Start, Fetch, ConfirmDeletion, archive
<1> QED
  BY <1>2, <1>3, <1>4, <1>5, <1>6, <1>7, <1>8, <1>9, <1>10, <1>11 DEF MigrationNext, MigrationStep

\* A step that leaves GitHub, the copies and what the manifests say as they are.
LEMMA Unseen ==
  ASSUME UNCHANGED <<remote, payload>>,
         \A b \in Artifacts : ClaimOf(b)' = ClaimOf(b)
  PROVE  UNCHANGED Move!moveVars
BY DEF Move!moveVars, CopyOf, CopyIsSound, ClaimOf

\* A step that changes what one manifest says.
LEMMA OneClaim ==
  ASSUME NEW a \in Artifacts, NEW new, UNCHANGED payload, MigrationTypeOK,
         manifest' = [manifest EXCEPT ![a] = new]
  PROVE  /\ [b \in Artifacts |-> CopyOf(b)]' = [b \in Artifacts |-> CopyOf(b)]
         /\ [b \in Artifacts |-> ClaimOf(b)]' =
              [[b \in Artifacts |-> ClaimOf(b)] EXCEPT ![a] =
                 IF new = "PASS" THEN "kept" ELSE IF new = "DELETED" THEN "moved" ELSE "none"]
<1>1. [b \in Artifacts |-> CopyOf(b)]' = [b \in Artifacts |-> CopyOf(b)]
  BY DEF CopyOf, CopyIsSound
<1>2. manifest'[a] = new /\ \A b \in Artifacts \ {a} : manifest'[b] = manifest[b]
  BY DEF MigrationTypeOK
<1> QED
  BY <1>1, <1>2 DEF ClaimOf

\* A step that places one payload: of an artifact without a digest, any is sound.
LEMMA OneCopy ==
  ASSUME NEW a \in Artifacts, NEW new \in Contents, UNCHANGED manifest, MigrationTypeOK,
         payload' = [payload EXCEPT ![a] = new]
  PROVE  /\ [b \in Artifacts |-> ClaimOf(b)]' = [b \in Artifacts |-> ClaimOf(b)]
         /\ \E quality \in {"unchecked", "sound"} :
              [b \in Artifacts |-> CopyOf(b)]' =
                [[b \in Artifacts |-> CopyOf(b)] EXCEPT ![a] = quality]
<1>1. [b \in Artifacts |-> ClaimOf(b)]' = [b \in Artifacts |-> ClaimOf(b)]
  BY DEF ClaimOf
<1>2. payload'[a] = new /\ \A b \in Artifacts \ {a} : payload'[b] = payload[b]
  BY DEF MigrationTypeOK
<1>3. CopyOf(a)' \in {"unchecked", "sound"}
  BY <1>2 DEF CopyOf, Contents
<1>4. \A b \in Artifacts \ {a} : CopyOf(b)' = CopyOf(b)
  BY <1>2 DEF CopyOf, CopyIsSound
<1>5. [b \in Artifacts |-> CopyOf(b)]' =
        [[b \in Artifacts |-> CopyOf(b)] EXCEPT ![a] = CopyOf(a)']
  BY <1>4
<1> QED
  BY <1>1, <1>3, <1>5

LEMMA InitMove == MigrationInit => Move!MoveInit
BY DEF MigrationInit, Move!MoveInit, CopyOf, ClaimOf

\* Every step is one of VerifiedMove or cannot be seen there.
LEMMA StepMove == MInv /\ Once /\ [MigrationNext]_vars => [Move!MoveNext]_(Move!moveVars)
<1> SUFFICES ASSUME MInv, Once, [MigrationNext]_vars PROVE [Move!MoveNext]_(Move!moveVars)
  OBVIOUS
<1> DEFINE copies == [b \in Artifacts |-> CopyOf(b)]
           claims == [b \in Artifacts |-> ClaimOf(b)]
<1>0. MigrationTypeOK /\ \A a \in Artifacts : copies[a] = CopyOf(a) /\ claims[a] = ClaimOf(a)
  BY DEF MInv
<1>1. CASE UNCHANGED vars
  BY <1>1, Unseen DEF vars, ClaimOf
<1>2. ASSUME NEW p \in Procs,
             \/ \E mode \in Modes : Start(p, mode)
             \/ \E a \in Artifacts : Inspect(p, a)
             \/ \E content \in Contents : Fetch(p, content)
             \/ MakeDest(p) \/ Finish(p) \/ Abort(p) \/ ConfirmDeletion(p)
      PROVE  UNCHANGED Move!moveVars
  <2>1. UNCHANGED <<remote, payload, manifest>>
    BY <1>2 DEF Start, Inspect, Fetch, MakeDest, Finish, Abort, ConfirmDeletion, archive
  <2> QED
    BY <2>1, Unseen DEF ClaimOf
<1>3. ASSUME NEW p \in Procs, PlacePayload(p) PROVE Move!MoveNext
  <2> DEFINE a == proc[p].at
  <2>1. /\ a \in Artifacts /\ remote[a] # "deleted" /\ CopyOf(a) = "none"
        /\ proc[p].zip \in Contents
        /\ payload' = [payload EXCEPT ![a] = proc[p].zip] /\ UNCHANGED <<remote, manifest>>
    BY <1>3 DEF MInv, ArtifactOfRun, OneFills, StagedIsVerified, Filling, Once, FilledOnce,
       PlacePayload, At, CopyOf
  <2>2. PICK quality \in {"unchecked", "sound"} :
           copies' = [copies EXCEPT ![a] = quality] /\ claims' = claims
    BY <1>0, <2>1, OneCopy
  <2>3. copies[a] = "none"
    BY <1>0, <2>1
  <2> HIDE DEF copies, claims
  <2>4. Move!Copy(a, quality)
    BY <2>1, <2>2, <2>3 DEF Move!Copy, copies, claims
  <2> QED
    BY <2>1, <2>2, <2>4 DEF Move!MoveNext
<1>4. ASSUME NEW p \in Procs, OpenManifest(p) PROVE UNCHANGED Move!moveVars
  <2>1. proc[p].at \in Artifacts /\ ~Verified(manifest[proc[p].at])
    BY <1>4 DEF MInv, ArtifactOfRun, OneFills, Filling, OpenManifest, At
  <2>2. \A b \in Artifacts : ClaimOf(b)' = ClaimOf(b)
    BY <1>0, <1>4, <2>1 DEF OpenManifest, Verified, ClaimOf, MigrationTypeOK
  <2> QED
    BY <1>4, <2>2, Unseen DEF OpenManifest
<1>5. ASSUME NEW p \in Procs, WriteManifest(p) PROVE [Move!MoveNext]_(Move!moveVars)
  <2> DEFINE a == proc[p].at
             new == IF proc[p].mode = "download" THEN "NOT_REQUESTED" ELSE "PASS"
  <2>1. /\ a \in Artifacts /\ ~Verified(manifest[a])
        /\ payload[a] = proc[p].zip /\ proc[p].zip \in Contents
        /\ VerificationPasses(proc[p].mode, a, proc[p].zip)
        /\ manifest' = [manifest EXCEPT ![a] = new] /\ UNCHANGED <<remote, dest, payload>>
    BY <1>5 DEF MInv, ArtifactOfRun, OneFills, StagedIsVerified, PlacedIsStaged, Filling,
       WriteManifest, At
  <2>2. CASE proc[p].mode = "download"
    <3>1. new = "NOT_REQUESTED"
      BY <2>2
    <3>2. \A b \in Artifacts : ClaimOf(b)' = ClaimOf(b)
      BY <1>0, <2>1, <3>1 DEF Verified, ClaimOf, MigrationTypeOK
    <3> QED
      BY <2>1, <3>2, Unseen
  <2>3. CASE proc[p].mode # "download"
    <3>1. new = "PASS"
      BY <2>3
    <3>2. CopyOf(a) = "sound" /\ ClaimOf(a) = "none"
      BY <2>1, <2>3 DEF VerificationPasses, CopyOf, CopyIsSound, Contents, ClaimOf, Verified
    <3>3. copies' = copies /\ claims' = [claims EXCEPT ![a] = "kept"]
      BY <1>0, <2>1, <3>1, OneClaim
    <3>4. copies[a] = "sound" /\ claims[a] = "none"
      BY <1>0, <2>1, <3>2
    <3> HIDE DEF copies, claims
    <3>5. Move!Certify(a)
      BY <2>1, <3>3, <3>4 DEF Move!Certify, copies, claims
    <3> QED
      BY <2>1, <3>5 DEF Move!MoveNext
  <2> QED
    BY <2>2, <2>3
<1>6. ASSUME NEW p \in Procs, RequestDeletion(p) PROVE [Move!MoveNext]_(Move!moveVars)
  <2> DEFINE a == proc[p].at
  <2>1. CASE UNCHANGED remote
    <3>1. UNCHANGED <<remote, payload, manifest>>
      BY <1>6, <2>1 DEF RequestDeletion, archive
    <3> QED
      BY <3>1, Unseen DEF ClaimOf
  <2>2. CASE remote[a] = "present" /\ remote' = [remote EXCEPT ![a] = "deleted"]
    <3>1. /\ a \in Artifacts /\ Verified(manifest[a]) /\ manifest[a] # "DELETED"
          /\ UNCHANGED <<payload, manifest>>
      BY <1>6, <2>2 DEF MInv, ArtifactOfRun, Once, DeletesCertified, Deleting, ManifestTellsTruth,
         RequestDeletion, At, archive
    <3>2. claims[a] = "kept"
      BY <1>0, <3>1 DEF ClaimOf, Verified
    <3>3. copies' = copies /\ claims' = claims
      BY <3>1 DEF CopyOf, CopyIsSound, ClaimOf
    <3> HIDE DEF copies, claims
    <3>4. Move!Delete(a)
      BY <2>2, <3>2, <3>3 DEF Move!Delete, copies, claims
    <3> QED
      BY <3>1, <3>4 DEF Move!MoveNext
  <2> QED
    BY <1>6, <2>1, <2>2 DEF RequestDeletion
<1>7. ASSUME NEW p \in Procs, RenameManifest(p) \/ RemoveManifest(p) \/ CopyManifest(p)
      PROVE  [Move!MoveNext]_(Move!moveVars)
  <2> DEFINE a == proc[p].at
  <2>1. /\ a \in Artifacts /\ remote[a] # "present" /\ CopyIsSound(a)
        /\ UNCHANGED <<remote, payload>>
    BY <1>7 DEF MInv, ArtifactOfRun, DeletesSound, Deleting, RenameManifest, RemoveManifest,
       CopyManifest, At
  <2>2. copies[a] = "sound" /\ claims[a] = ClaimOf(a)
    BY <1>0, <2>1 DEF CopyOf, CopyIsSound
  <2>3. CASE manifest' = manifest
    BY <2>1, <2>3, Unseen DEF ClaimOf
  <2>4. CASE manifest' = [manifest EXCEPT ![a] = "DELETED"] /\ manifest[a] # "DELETED"
    <3>1. copies' = copies /\ claims' = [claims EXCEPT ![a] = "moved"] /\ claims[a] # "moved"
      BY <1>0, <2>1, <2>2, <2>4, OneClaim DEF ClaimOf
    <3> HIDE DEF copies, claims
    <3>2. Move!Conclude(a)
      BY <2>1, <2>2, <3>1 DEF Move!Conclude, copies, claims
    <3> QED
      BY <2>1, <3>2 DEF Move!MoveNext
  <2>5. ASSUME manifest[a] = "PASS", NEW left \in {"absent", "torn"},
               manifest' = [manifest EXCEPT ![a] = left]
        PROVE  Move!MoveNext
    <3>1. copies' = copies /\ claims' = [claims EXCEPT ![a] = "none"] /\ claims[a] = "kept"
      BY <1>0, <2>1, <2>2, <2>5, OneClaim DEF ClaimOf
    <3> HIDE DEF copies, claims
    <3>2. Move!Lapse(a)
      BY <2>1, <3>1 DEF Move!Lapse, copies, claims
    <3> QED
      BY <2>1, <3>2 DEF Move!MoveNext
  <2>6. manifest[a] \in {"absent", "torn", "NOT_REQUESTED", "PASS", "DELETED"}
        /\ manifest = [manifest EXCEPT ![a] = manifest[a]]
    BY <1>0, <2>1 DEF MigrationTypeOK
  <2>7. CASE RenameManifest(p)
    BY <2>3, <2>4, <2>6, <2>7 DEF RenameManifest
  <2>8. CASE RemoveManifest(p)
    BY <2>5, <2>8 DEF RemoveManifest
  <2>9. CASE CopyManifest(p)
    <3>1. manifest' = [manifest EXCEPT ![a] = "DELETED"]
      BY <2>9 DEF CopyManifest
    <3> QED
      BY <2>3, <2>4, <2>6, <3>1
  <2> QED
    BY <1>7, <2>7, <2>8, <2>9
<1>8. ASSUME NEW a \in Artifacts, Vanish(a) PROVE Move!MoveNext
  <2>1. copies' = copies /\ claims' = claims
    BY <1>8 DEF Vanish, archive, CopyOf, CopyIsSound, ClaimOf
  <2> HIDE DEF copies, claims
  <2>2. Move!Expire(a)
    BY <1>8, <2>1 DEF Move!Expire, Vanish, copies, claims
  <2> QED
    BY <2>2 DEF Move!MoveNext
<1> QED
  BY <1>1, <1>2, <1>3, <1>4, <1>5, <1>6, <1>7, <1>8 DEF MigrationNext, MigrationStep

\* The migration implements VerifiedMove: whatever runs race, die or find of
\* each other, an artifact is copied once and deleted once it is certified.
\* Code: the whole of migrate-github-artifacts.sh.
THEOREM MigrationIsMove == MigrationSpec => ImplementsMove
<1>1. MigrationInit => Once /\ Move!MoveInit
  BY InitOnce, InitMove
<1>2. MInv /\ Once /\ [MigrationNext]_vars => Once' /\ [Move!MoveNext]_(Move!moveVars)
  BY StepOnce, StepMove
<1> QED
  BY <1>1, <1>2, MigrationInductive, PTL DEF MigrationSpec, ImplementsMove, Move!MoveSpec
=============================================================================
