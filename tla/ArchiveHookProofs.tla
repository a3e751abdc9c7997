--------------------------- MODULE ArchiveHookProofs ---------------------------
(* What ArchiveHook promises, for any number of hooks that end together and   *)
(* any job names.  A job directory has one owner, and how far the owner and   *)
(* its worker came says what is in it.  Then what ArchiveRetention, which     *)
(* adds the cleanup of runs, may delete; at the end, that the hooks implement *)
(* WriteOnceArchive.                                                          *)
EXTENDS ArchiveRetention, TLAPS

WorkerStates == Working \cup {"none", "ok", "error", "timeout"}

\* A hook at p without a directory.
Waiting(p, w, j) ==
    /\ p \in {"idle", "failed", "killed"} \cup Unclaimed
    /\ w = "none"
    /\ p \in Unclaimed => j \in Jobs

\* A hook at p whose worker is at w, with a directory that contains dir.
Owning(p, w, dir) ==
    /\ dir.made /\ p \in Claimed \cup Ended
    /\ p \in {"lock", "guards"} => w = "none"
    /\ p \in {"failing", "quarantine", "reporting", "passed", "failed"} => w \notin Working
    /\ p \in {"reporting", "passed"} => dir.manifest
    /\ p \in {"failing", "quarantine", "failed"} => ~dir.manifest
    /\ w \in {"none", "copy", "move"} =>
           dir.workspace = "absent" /\ ~dir.hash /\ ~dir.manifest
    /\ w = "move" => dir.stage = "whole"
    /\ w \in {"clear", "hash", "manifest", "exit", "ok"} =>
           dir.workspace = "complete" /\ dir.stage = "none"
    /\ w \in {"clear", "hash", "manifest"} => ~dir.manifest
    /\ w \in {"manifest", "exit", "ok"} => dir.hash
    /\ w \in {"exit", "ok"} => dir.manifest
    /\ w \in {"hash", "manifest"} => ~dir.failed
    /\ dir.manifest => /\ dir.workspace = "complete" /\ dir.hash
                       /\ dir.stage = "none" /\ ~dir.failed

\* Whatever hooks race for a name, each job directory belongs to one of them.
ExclusiveDirectory ==
    \A h1, h2 \in Hooks : h1 # h2 /\ key[h1] = key[h2] => key[h1] = None

HInv ==
    /\ HookTypeOK /\ ExclusiveDirectory /\ PassIsComplete
    /\ \A h \in Hooks : IF key[h] = None THEN Waiting(pc[h], worker[h], job[h])
                                        ELSE Owning(pc[h], worker[h], Dir(h))

-----------------------------------------------------------------------------

LEMMA InitHInv == HookInit => HInv
<1> SUFFICES ASSUME HookInit PROVE HInv
  OBVIOUS
<1>1. NoDir \in JobDir
  BY DEF NoDir, JobDir
<1>2. HookTypeOK
  BY <1>1 DEF HookInit, HookTypeOK, Claimed
<1>3. ExclusiveDirectory /\ PassIsComplete
  BY DEF HookInit, ExclusiveDirectory, PassIsComplete, NoDir
<1> QED
  BY <1>2, <1>3 DEF HookInit, HInv, Waiting, Unclaimed

\* A hook goes on outside every job directory.
LEMMA WaitingStep ==
  ASSUME HInv, NEW h \in Hooks, key[h] = None,
         NEW p \in {"idle", "failed", "killed"} \cup Unclaimed, NEW j \in Jobs \cup {None},
         Waiting(p, "none", j),
         pc' = [pc EXCEPT ![h] = p], job' = [job EXCEPT ![h] = j],
         UNCHANGED <<key, worker, store>>, parent' \in BOOLEAN, parent => parent', full' \in BOOLEAN
  PROVE  HInv'
<1>1. HookTypeOK'
  BY DEF HInv, HookTypeOK, Claimed, Unclaimed, Ended
<1>2. ExclusiveDirectory' /\ PassIsComplete'
  BY DEF HInv, ExclusiveDirectory, PassIsComplete
<1> QED
  BY <1>1, <1>2 DEF HInv, HookTypeOK, Dir, Waiting

\* A hook, or the worker of it, changes its own directory k to dir.
LEMMA OwningStep ==
  ASSUME HInv, NEW h \in Hooks, NEW k \in Names, NEW dir \in JobDir,
         NEW p \in Claimed \cup Ended, NEW w \in WorkerStates, Owning(p, w, dir),
         parent, \A g \in Hooks \ {h} : key[g] # k, key[h] \in {None, k},
         pc' = [pc EXCEPT ![h] = p], worker' = [worker EXCEPT ![h] = w],
         key' = [key EXCEPT ![h] = k], store' = [store EXCEPT ![k] = dir],
         UNCHANGED <<job, parent, full>>
  PROVE  HInv'
<1>1. k # None /\ dir.made
  BY NamesAssumption DEF Names, Owning
<1>2. HookTypeOK'
  BY <1>1 DEF HInv, HookTypeOK, WorkerStates
<1>3. ExclusiveDirectory'
  BY <1>1 DEF HInv, HookTypeOK, ExclusiveDirectory
<1>4. PassIsComplete'
  BY <1>1 DEF HInv, HookTypeOK, PassIsComplete, Owning
<1>5. \A g \in Hooks \ {h} : key[g] # None => Dir(g)' = Dir(g)
  BY DEF HInv, HookTypeOK, Dir
<1>6. Owning(p, w, dir)' /\ Dir(h)' = dir
  BY DEF HInv, HookTypeOK, Dir, Owning
<1>7. \A g \in Hooks : IF key'[g] = None THEN Waiting(pc'[g], worker'[g], job'[g])
                                        ELSE Owning(pc'[g], worker'[g], Dir(g)')
  BY <1>1, <1>5, <1>6 DEF HInv, HookTypeOK
<1> QED
  BY <1>2, <1>3, <1>4, <1>7 DEF HInv, Waiting, Owning

\* What a hook with a directory is like.
LEMMA OwnerFacts ==
  ASSUME HInv, NEW h \in Hooks, key[h] # None
  PROVE  /\ key[h] \in Names /\ Dir(h) \in JobDir /\ Dir(h).made /\ parent
         /\ Owning(pc[h], worker[h], Dir(h))
         /\ pc[h] \in Claimed \cup Ended /\ worker[h] \in WorkerStates
         /\ \A g \in Hooks \ {h} : key[g] # key[h]
         /\ pc = [pc EXCEPT ![h] = pc[h]] /\ worker = [worker EXCEPT ![h] = worker[h]]
         /\ key = [key EXCEPT ![h] = key[h]] /\ store = [store EXCEPT ![key[h]] = Dir(h)]
<1>1. key[h] \in Names /\ Dir(h) \in JobDir /\ Owning(pc[h], worker[h], Dir(h))
  BY DEF HInv, HookTypeOK, Dir
<1>2. Dir(h).made /\ pc[h] \in Claimed \cup Ended
  BY <1>1 DEF Owning
<1>3. parent
  BY <1>1, <1>2 DEF HInv, HookTypeOK, Dir, NoDir
<1>4. \A g \in Hooks \ {h} : key[g] # key[h]
  BY DEF HInv, ExclusiveDirectory
<1> QED
  BY <1>1, <1>2, <1>3, <1>4 DEF HInv, HookTypeOK, WorkerStates, Dir

LEMMA StepWithoutDirectory ==
  ASSUME HInv, NEW h \in Hooks,
         \/ HookStarts(h) \/ HookRejects(h) \/ LookForParent(h) \/ MakeParent(h)
         \/ MakeParentFails(h) \/ ClaimRefused(h) \/ (HookKilled(h) /\ key[h] = None)
  PROVE  HInv'
<1>1. /\ key[h] = None /\ worker[h] = "none" /\ worker = [worker EXCEPT ![h] = "none"]
      /\ job[h] \in Jobs \cup {None} /\ job = [job EXCEPT ![h] = job[h]]
      /\ parent \in BOOLEAN /\ full \in BOOLEAN
      /\ pc[h] \in Unclaimed => job[h] \in Jobs
  BY DEF HInv, HookTypeOK, Waiting, Owning, HookStarts, HookRejects, LookForParent, MakeParent,
         MakeParentFails, ClaimRefused, At, Claimed, Ended, Unclaimed
<1>2. CASE HookStarts(h)
  BY <1>1, <1>2, WaitingStep DEF HookStarts, Goto, Waiting, Unclaimed
<1>3. CASE HookRejects(h) \/ MakeParentFails(h)
  BY <1>1, <1>3, WaitingStep DEF HookRejects, MakeParentFails, Goto, Waiting, Unclaimed
<1>4. CASE LookForParent(h)
  BY <1>1, <1>4, WaitingStep DEF LookForParent, At, Goto, Waiting, Unclaimed
<1>5. CASE MakeParent(h)
  BY <1>1, <1>5, WaitingStep DEF MakeParent, At, Goto, Waiting, Unclaimed
<1>6. CASE ClaimRefused(h)
  BY <1>1, <1>6, WaitingStep DEF ClaimRefused, At, Goto, Waiting, Unclaimed
<1>7. CASE HookKilled(h)
  <2>1. worker' = worker
    BY <1>1, <1>7 DEF HookKilled, Working
  <2> QED
    BY <1>1, <1>7, <2>1, WaitingStep DEF HookKilled, Goto, Waiting, Unclaimed
<1> QED
  BY <1>2, <1>3, <1>4, <1>5, <1>6, <1>7

LEMMA TakeStep ==
  ASSUME HInv, NEW h \in Hooks, NEW d \in Names, pc[h] \in Unclaimed, Take(h, d)
  PROVE  HInv'
<1>1. key[h] = None /\ worker[h] = "none" /\ worker = [worker EXCEPT ![h] = "none"]
  BY DEF HInv, HookTypeOK, Waiting, Owning, Claimed, Ended, Unclaimed
<1>2. store[d] = NoDir /\ parent
  BY DEF HInv, HookTypeOK, Take, MkdirExclusive
<1>3. \A g \in Hooks \ {h} : key[g] # d
  <2> SUFFICES ASSUME NEW g \in Hooks \ {h}, key[g] = d PROVE FALSE
    OBVIOUS
  <2>1. d # None
    BY NamesAssumption DEF Names
  <2>2. Dir(g).made
    BY <2>1 DEF HInv, Owning
  <2> QED
    BY <1>2, <2>2 DEF Dir, NoDir
<1> DEFINE dir == [NoDir EXCEPT !.made = TRUE]
<1>4. dir \in JobDir /\ Owning("lock", "none", dir)
  BY DEF NoDir, JobDir, Owning, Claimed, Ended, Working
<1>5. store' = [store EXCEPT ![d] = dir]
  BY <1>2 DEF Take
<1> HIDE DEF dir
<1> QED
  BY <1>1, <1>2, <1>3, <1>4, <1>5, OwningStep DEF Take, Goto, Claimed, WorkerStates

LEMMA StepInDirectory ==
  ASSUME HInv, NEW h \in Hooks, key[h] # None,
         \/ LockJob(h) \/ StartWorker(h) \/ GuardFails(h) \/ Conclude(h) \/ Report(h)
         \/ WriteFailure(h) \/ QuarantineStage(h) \/ WorkerStep(h) \/ WorkerTimesOut(h)
         \/ HookKilled(h)
  PROVE  HInv'
<1>0. /\ key[h] \in Names /\ Dir(h) \in JobDir /\ Dir(h).made /\ parent
      /\ Owning(pc[h], worker[h], Dir(h))
      /\ pc[h] \in Claimed \cup Ended /\ worker[h] \in WorkerStates
      /\ \A g \in Hooks \ {h} : key[g] # key[h]
      /\ pc = [pc EXCEPT ![h] = pc[h]] /\ worker = [worker EXCEPT ![h] = worker[h]]
      /\ key = [key EXCEPT ![h] = key[h]] /\ store = [store EXCEPT ![key[h]] = Dir(h)]
  BY OwnerFacts
<1>1. CASE LockJob(h)
  <2> DEFINE dir == [Dir(h) EXCEPT !.marker = TRUE]
             p == "guards"
             w == worker[h]
  <2>1. dir \in JobDir /\ p \in Claimed \cup Ended /\ w \in WorkerStates
    BY <1>0, <1>1 DEF LockJob, JobDir, Claimed, Ended, Working, WorkerStates
  <2>2. Owning(p, w, dir)
    BY <1>0, <1>1 DEF LockJob, Owning, JobDir, Claimed, Ended, Working, At, Dir, WorkerGoes
  <2>3. /\ pc' = [pc EXCEPT ![h] = p] /\ worker' = [worker EXCEPT ![h] = w] /\ key' = [key EXCEPT ![h] = key[h]]
        /\ store' = [store EXCEPT ![key[h]] = dir]
        /\ UNCHANGED <<job, parent, full>>
    BY <1>0, <1>1 DEF LockJob, Goto, Dir, WorkerGoes, Owning
  <2> HIDE DEF dir, p, w
  <2> QED
    BY <1>0, <2>1, <2>2, <2>3, OwningStep
<1>2. CASE StartWorker(h)
  <2> DEFINE dir == [Dir(h) EXCEPT !.stage = "partial"]
             p == "copying"
             w == "copy"
  <2>1. dir \in JobDir /\ p \in Claimed \cup Ended /\ w \in WorkerStates
    BY <1>0, <1>2 DEF StartWorker, JobDir, Claimed, Ended, Working, WorkerStates
  <2>2. Owning(p, w, dir)
    BY <1>0, <1>2 DEF StartWorker, Owning, JobDir, Claimed, Ended, Working, At, Dir, WorkerGoes
  <2>3. /\ pc' = [pc EXCEPT ![h] = p] /\ worker' = [worker EXCEPT ![h] = w] /\ key' = [key EXCEPT ![h] = key[h]]
        /\ store' = [store EXCEPT ![key[h]] = dir]
        /\ UNCHANGED <<job, parent, full>>
    BY <1>0, <1>2 DEF StartWorker, Goto, Dir, WorkerGoes, Owning
  <2> HIDE DEF dir, p, w
  <2> QED
    BY <1>0, <2>1, <2>2, <2>3, OwningStep
<1>3. CASE GuardFails(h)
  <2> DEFINE dir == Dir(h)
             p == "failing"
             w == worker[h]
  <2>1. dir \in JobDir /\ p \in Claimed \cup Ended /\ w \in WorkerStates
    BY <1>0, <1>3 DEF GuardFails, JobDir, Claimed, Ended, Working, WorkerStates
  <2>2. Owning(p, w, dir)
    BY <1>0, <1>3 DEF GuardFails, Owning, JobDir, Claimed, Ended, Working, At, Dir, WorkerGoes
  <2>3. /\ pc' = [pc EXCEPT ![h] = p] /\ worker' = [worker EXCEPT ![h] = w] /\ key' = [key EXCEPT ![h] = key[h]]
        /\ store' = [store EXCEPT ![key[h]] = dir]
        /\ UNCHANGED <<job, parent, full>>
    BY <1>0, <1>3 DEF GuardFails, Goto, Dir, WorkerGoes, Owning
  <2> HIDE DEF dir, p, w
  <2> QED
    BY <1>0, <2>1, <2>2, <2>3, OwningStep
<1>4. CASE CopyWorkspace(h)
  <2> DEFINE dir == [Dir(h) EXCEPT !.stage = "whole"]
             p == pc[h]
             w == "move"
  <2>1. dir \in JobDir /\ p \in Claimed \cup Ended /\ w \in WorkerStates
    BY <1>0, <1>4 DEF CopyWorkspace, JobDir, Claimed, Ended, Working, WorkerStates
  <2>2. Owning(p, w, dir)
    BY <1>0, <1>4 DEF CopyWorkspace, Owning, JobDir, Claimed, Ended, Working, At, Dir, WorkerGoes
  <2>3. /\ pc' = [pc EXCEPT ![h] = p] /\ worker' = [worker EXCEPT ![h] = w] /\ key' = [key EXCEPT ![h] = key[h]]
        /\ store' = [store EXCEPT ![key[h]] = dir]
        /\ UNCHANGED <<job, parent, full>>
    BY <1>0, <1>4 DEF CopyWorkspace, Goto, Dir, WorkerGoes, Owning
  <2> HIDE DEF dir, p, w
  <2> QED
    BY <1>0, <2>1, <2>2, <2>3, OwningStep
<1>5. CASE MoveStage(h)
  <2> DEFINE dir == [Dir(h) EXCEPT !.stage = "none", !.workspace = "complete"]
             p == pc[h]
             w == "clear"
  <2>1. dir \in JobDir /\ p \in Claimed \cup Ended /\ w \in WorkerStates
    BY <1>0, <1>5 DEF MoveStage, JobDir, Claimed, Ended, Working, WorkerStates
  <2>2. Owning(p, w, dir)
    BY <1>0, <1>5 DEF MoveStage, Owning, JobDir, Claimed, Ended, Working, At, Dir, WorkerGoes
  <2>3. /\ pc' = [pc EXCEPT ![h] = p] /\ worker' = [worker EXCEPT ![h] = w] /\ key' = [key EXCEPT ![h] = key[h]]
        /\ store' = [store EXCEPT ![key[h]] = dir]
        /\ UNCHANGED <<job, parent, full>>
    BY <1>0, <1>5 DEF MoveStage, Goto, Dir, WorkerGoes, Owning
  <2> HIDE DEF dir, p, w
  <2> QED
    BY <1>0, <2>1, <2>2, <2>3, OwningStep
<1>6. CASE ClearFailed(h)
  <2> DEFINE dir == [Dir(h) EXCEPT !.failed = FALSE]
             p == pc[h]
             w == "hash"
  <2>1. dir \in JobDir /\ p \in Claimed \cup Ended /\ w \in WorkerStates
    BY <1>0, <1>6 DEF ClearFailed, JobDir, Claimed, Ended, Working, WorkerStates
  <2>2. Owning(p, w, dir)
    BY <1>0, <1>6 DEF ClearFailed, Owning, JobDir, Claimed, Ended, Working, At, Dir, WorkerGoes
  <2>3. /\ pc' = [pc EXCEPT ![h] = p] /\ worker' = [worker EXCEPT ![h] = w] /\ key' = [key EXCEPT ![h] = key[h]]
        /\ store' = [store EXCEPT ![key[h]] = dir]
        /\ UNCHANGED <<job, parent, full>>
    BY <1>0, <1>6 DEF ClearFailed, Goto, Dir, WorkerGoes, Owning
  <2> HIDE DEF dir, p, w
  <2> QED
    BY <1>0, <2>1, <2>2, <2>3, OwningStep
<1>7. CASE PublishHash(h)
  <2> DEFINE dir == [Dir(h) EXCEPT !.hash = TRUE]
             p == pc[h]
             w == "manifest"
  <2>1. dir \in JobDir /\ p \in Claimed \cup Ended /\ w \in WorkerStates
    BY <1>0, <1>7 DEF PublishHash, JobDir, Claimed, Ended, Working, WorkerStates
  <2>2. Owning(p, w, dir)
    BY <1>0, <1>7 DEF PublishHash, Owning, JobDir, Claimed, Ended, Working, At, Dir, WorkerGoes
  <2>3. /\ pc' = [pc EXCEPT ![h] = p] /\ worker' = [worker EXCEPT ![h] = w] /\ key' = [key EXCEPT ![h] = key[h]]
        /\ store' = [store EXCEPT ![key[h]] = dir]
        /\ UNCHANGED <<job, parent, full>>
    BY <1>0, <1>7 DEF PublishHash, Goto, Dir, WorkerGoes, Owning
  <2> HIDE DEF dir, p, w
  <2> QED
    BY <1>0, <2>1, <2>2, <2>3, OwningStep
<1>8. CASE PublishManifest(h)
  <2> DEFINE dir == [Dir(h) EXCEPT !.manifest = TRUE]
             p == pc[h]
             w == "exit"
  <2>1. dir \in JobDir /\ p \in Claimed \cup Ended /\ w \in WorkerStates
    BY <1>0, <1>8 DEF PublishManifest, JobDir, Claimed, Ended, Working, WorkerStates
  <2>2. Owning(p, w, dir)
    BY <1>0, <1>8 DEF PublishManifest, Owning, JobDir, Claimed, Ended, Working, At, Dir, WorkerGoes
  <2>3. /\ pc' = [pc EXCEPT ![h] = p] /\ worker' = [worker EXCEPT ![h] = w] /\ key' = [key EXCEPT ![h] = key[h]]
        /\ store' = [store EXCEPT ![key[h]] = dir]
        /\ UNCHANGED <<job, parent, full>>
    BY <1>0, <1>8 DEF PublishManifest, Goto, Dir, WorkerGoes, Owning
  <2> HIDE DEF dir, p, w
  <2> QED
    BY <1>0, <2>1, <2>2, <2>3, OwningStep
<1>9. CASE WorkerExits(h)
  <2> DEFINE dir == Dir(h)
             p == pc[h]
             w == "ok"
  <2>1. dir \in JobDir /\ p \in Claimed \cup Ended /\ w \in WorkerStates
    BY <1>0, <1>9 DEF WorkerExits, JobDir, Claimed, Ended, Working, WorkerStates
  <2>2. Owning(p, w, dir)
    BY <1>0, <1>9 DEF WorkerExits, Owning, JobDir, Claimed, Ended, Working, At, Dir, WorkerGoes
  <2>3. /\ pc' = [pc EXCEPT ![h] = p] /\ worker' = [worker EXCEPT ![h] = w] /\ key' = [key EXCEPT ![h] = key[h]]
        /\ store' = [store EXCEPT ![key[h]] = dir]
        /\ UNCHANGED <<job, parent, full>>
    BY <1>0, <1>9 DEF WorkerExits, Goto, Dir, WorkerGoes, Owning
  <2> HIDE DEF dir, p, w
  <2> QED
    BY <1>0, <2>1, <2>2, <2>3, OwningStep
<1>10. CASE WorkerFails(h)
  <2> DEFINE dir == Dir(h)
             p == pc[h]
             w == "error"
  <2>1. dir \in JobDir /\ p \in Claimed \cup Ended /\ w \in WorkerStates
    BY <1>0, <1>10 DEF WorkerFails, JobDir, Claimed, Ended, Working, WorkerStates
  <2>2. Owning(p, w, dir)
    BY <1>0, <1>10 DEF WorkerFails, Owning, JobDir, Claimed, Ended, Working, At, Dir, WorkerGoes
  <2>3. /\ pc' = [pc EXCEPT ![h] = p] /\ worker' = [worker EXCEPT ![h] = w] /\ key' = [key EXCEPT ![h] = key[h]]
        /\ store' = [store EXCEPT ![key[h]] = dir]
        /\ UNCHANGED <<job, parent, full>>
    BY <1>0, <1>10 DEF WorkerFails, Goto, Dir, WorkerGoes, Owning
  <2> HIDE DEF dir, p, w
  <2> QED
    BY <1>0, <2>1, <2>2, <2>3, OwningStep
<1>11. CASE WorkerTimesOut(h)
  <2> DEFINE dir == Dir(h)
             p == pc[h]
             w == "timeout"
  <2>1. dir \in JobDir /\ p \in Claimed \cup Ended /\ w \in WorkerStates
    BY <1>0, <1>11 DEF WorkerTimesOut, TimeLimit, JobDir, Claimed, Ended, Working, WorkerStates
  <2>2. Owning(p, w, dir)
    BY <1>0, <1>11 DEF WorkerTimesOut, TimeLimit, Owning, JobDir, Claimed, Ended, Working, At, Dir, WorkerGoes
  <2>3. /\ pc' = [pc EXCEPT ![h] = p] /\ worker' = [worker EXCEPT ![h] = w] /\ key' = [key EXCEPT ![h] = key[h]]
        /\ store' = [store EXCEPT ![key[h]] = dir]
        /\ UNCHANGED <<job, parent, full>>
    BY <1>0, <1>11 DEF WorkerTimesOut, TimeLimit, Goto, Dir, WorkerGoes, Owning
  <2> HIDE DEF dir, p, w
  <2> QED
    BY <1>0, <2>1, <2>2, <2>3, OwningStep
<1>12. CASE Conclude(h)
  <2> DEFINE dir == Dir(h)
             p == IF WorkerPassed(h) THEN "reporting" ELSE "failing"
             w == worker[h]
  <2>1. dir \in JobDir /\ p \in Claimed \cup Ended /\ w \in WorkerStates
    BY <1>0, <1>12 DEF Conclude, JobDir, Claimed, Ended, Working, WorkerStates
  <2>2. Owning(p, w, dir)
    BY <1>0, <1>12 DEF Conclude, WorkerPassed, PassPublished, Owning, JobDir, Claimed, Ended, Working, At, Dir, WorkerGoes
  <2>3. /\ pc' = [pc EXCEPT ![h] = p] /\ worker' = [worker EXCEPT ![h] = w] /\ key' = [key EXCEPT ![h] = key[h]]
        /\ store' = [store EXCEPT ![key[h]] = dir]
        /\ UNCHANGED <<job, parent, full>>
    BY <1>0, <1>12 DEF Conclude, Goto, Dir, WorkerGoes, Owning
  <2> HIDE DEF dir, p, w
  <2> QED
    BY <1>0, <2>1, <2>2, <2>3, OwningStep
<1>13. CASE Report(h) /\ store' # store
  <2> DEFINE dir == [Dir(h) EXCEPT !.marker = FALSE]
             p == "passed"
             w == worker[h]
  <2>1. dir \in JobDir /\ p \in Claimed \cup Ended /\ w \in WorkerStates
    BY <1>0, <1>13 DEF Report, JobDir, Claimed, Ended, Working, WorkerStates
  <2>2. Owning(p, w, dir)
    BY <1>0, <1>13 DEF Report, Owning, JobDir, Claimed, Ended, Working, At, Dir, WorkerGoes
  <2>3. /\ pc' = [pc EXCEPT ![h] = p] /\ worker' = [worker EXCEPT ![h] = w] /\ key' = [key EXCEPT ![h] = key[h]]
        /\ store' = [store EXCEPT ![key[h]] = dir]
        /\ UNCHANGED <<job, parent, full>>
    BY <1>0, <1>13 DEF Report, Goto, Dir, WorkerGoes, Owning
  <2> HIDE DEF dir, p, w
  <2> QED
    BY <1>0, <2>1, <2>2, <2>3, OwningStep
<1>14. CASE Report(h) /\ store' = store
  <2> DEFINE dir == Dir(h)
             p == "passed"
             w == worker[h]
  <2>1. dir \in JobDir /\ p \in Claimed \cup Ended /\ w \in WorkerStates
    BY <1>0, <1>14 DEF Report, JobDir, Claimed, Ended, Working, WorkerStates
  <2>2. Owning(p, w, dir)
    BY <1>0, <1>14 DEF Report, Owning, JobDir, Claimed, Ended, Working, At, Dir, WorkerGoes
  <2>3. /\ pc' = [pc EXCEPT ![h] = p] /\ worker' = [worker EXCEPT ![h] = w] /\ key' = [key EXCEPT ![h] = key[h]]
        /\ store' = [store EXCEPT ![key[h]] = dir]
        /\ UNCHANGED <<job, parent, full>>
    BY <1>0, <1>14 DEF Report, Goto, Dir, WorkerGoes, Owning
  <2> HIDE DEF dir, p, w
  <2> QED
    BY <1>0, <2>1, <2>2, <2>3, OwningStep
<1>15. CASE WriteFailure(h) /\ store' # store
  <2> DEFINE dir == [Dir(h) EXCEPT !.failed = TRUE]
             p == "quarantine"
             w == worker[h]
  <2>1. dir \in JobDir /\ p \in Claimed \cup Ended /\ w \in WorkerStates
    BY <1>0, <1>15 DEF WriteFailure, JobDir, Claimed, Ended, Working, WorkerStates
  <2>2. Owning(p, w, dir)
    BY <1>0, <1>15 DEF WriteFailure, Owning, JobDir, Claimed, Ended, Working, At, Dir, WorkerGoes
  <2>3. /\ pc' = [pc EXCEPT ![h] = p] /\ worker' = [worker EXCEPT ![h] = w] /\ key' = [key EXCEPT ![h] = key[h]]
        /\ store' = [store EXCEPT ![key[h]] = dir]
        /\ UNCHANGED <<job, parent, full>>
    BY <1>0, <1>15 DEF WriteFailure, Goto, Dir, WorkerGoes, Owning
  <2> HIDE DEF dir, p, w
  <2> QED
    BY <1>0, <2>1, <2>2, <2>3, OwningStep
<1>16. CASE WriteFailure(h) /\ store' = store
  <2> DEFINE dir == Dir(h)
             p == "quarantine"
             w == worker[h]
  <2>1. dir \in JobDir /\ p \in Claimed \cup Ended /\ w \in WorkerStates
    BY <1>0, <1>16 DEF WriteFailure, JobDir, Claimed, Ended, Working, WorkerStates
  <2>2. Owning(p, w, dir)
    BY <1>0, <1>16 DEF WriteFailure, Owning, JobDir, Claimed, Ended, Working, At, Dir, WorkerGoes
  <2>3. /\ pc' = [pc EXCEPT ![h] = p] /\ worker' = [worker EXCEPT ![h] = w] /\ key' = [key EXCEPT ![h] = key[h]]
        /\ store' = [store EXCEPT ![key[h]] = dir]
        /\ UNCHANGED <<job, parent, full>>
    BY <1>0, <1>16 DEF WriteFailure, Goto, Dir, WorkerGoes, Owning
  <2> HIDE DEF dir, p, w
  <2> QED
    BY <1>0, <2>1, <2>2, <2>3, OwningStep
<1>17. CASE QuarantineStage(h) /\ store' # store
  <2> DEFINE dir == [Dir(h) EXCEPT !.stage = "none", !.quarantine = TRUE]
             p == "failed"
             w == worker[h]
  <2>1. dir \in JobDir /\ p \in Claimed \cup Ended /\ w \in WorkerStates
    BY <1>0, <1>17 DEF QuarantineStage, JobDir, Claimed, Ended, Working, WorkerStates
  <2>2. Owning(p, w, dir)
    BY <1>0, <1>17 DEF QuarantineStage, Owning, JobDir, Claimed, Ended, Working, At, Dir, WorkerGoes
  <2>3. /\ pc' = [pc EXCEPT ![h] = p] /\ worker' = [worker EXCEPT ![h] = w] /\ key' = [key EXCEPT ![h] = key[h]]
        /\ store' = [store EXCEPT ![key[h]] = dir]
        /\ UNCHANGED <<job, parent, full>>
    BY <1>0, <1>17 DEF QuarantineStage, Goto, Dir, WorkerGoes, Owning
  <2> HIDE DEF dir, p, w
  <2> QED
    BY <1>0, <2>1, <2>2, <2>3, OwningStep
<1>18. CASE QuarantineStage(h) /\ store' = store
  <2> DEFINE dir == Dir(h)
             p == "failed"
             w == worker[h]
  <2>1. dir \in JobDir /\ p \in Claimed \cup Ended /\ w \in WorkerStates
    BY <1>0, <1>18 DEF QuarantineStage, JobDir, Claimed, Ended, Working, WorkerStates
  <2>2. Owning(p, w, dir)
    BY <1>0, <1>18 DEF QuarantineStage, Owning, JobDir, Claimed, Ended, Working, At, Dir, WorkerGoes
  <2>3. /\ pc' = [pc EXCEPT ![h] = p] /\ worker' = [worker EXCEPT ![h] = w] /\ key' = [key EXCEPT ![h] = key[h]]
        /\ store' = [store EXCEPT ![key[h]] = dir]
        /\ UNCHANGED <<job, parent, full>>
    BY <1>0, <1>18 DEF QuarantineStage, Goto, Dir, WorkerGoes, Owning
  <2> HIDE DEF dir, p, w
  <2> QED
    BY <1>0, <2>1, <2>2, <2>3, OwningStep
<1>19. CASE HookKilled(h) /\ worker' = worker
  <2> DEFINE dir == Dir(h)
             p == "killed"
             w == worker[h]
  <2>1. dir \in JobDir /\ p \in Claimed \cup Ended /\ w \in WorkerStates
    BY <1>0, <1>19 DEF HookKilled, JobDir, Claimed, Ended, Working, WorkerStates
  <2>2. Owning(p, w, dir)
    BY <1>0, <1>19 DEF HookKilled, Owning, JobDir, Claimed, Ended, Working, At, Dir, WorkerGoes
  <2>3. /\ pc' = [pc EXCEPT ![h] = p] /\ worker' = [worker EXCEPT ![h] = w] /\ key' = [key EXCEPT ![h] = key[h]]
        /\ store' = [store EXCEPT ![key[h]] = dir]
        /\ UNCHANGED <<job, parent, full>>
    BY <1>0, <1>19 DEF HookKilled, Goto, Dir, WorkerGoes, Owning
  <2> HIDE DEF dir, p, w
  <2> QED
    BY <1>0, <2>1, <2>2, <2>3, OwningStep
<1>20. CASE HookKilled(h) /\ worker' # worker
  <2> DEFINE dir == Dir(h)
             p == "killed"
             w == "error"
  <2>1. dir \in JobDir /\ p \in Claimed \cup Ended /\ w \in WorkerStates
    BY <1>0, <1>20 DEF HookKilled, JobDir, Claimed, Ended, Working, WorkerStates
  <2>2. Owning(p, w, dir)
    BY <1>0, <1>20 DEF HookKilled, Owning, JobDir, Claimed, Ended, Working, At, Dir, WorkerGoes
  <2>3. /\ pc' = [pc EXCEPT ![h] = p] /\ worker' = [worker EXCEPT ![h] = w] /\ key' = [key EXCEPT ![h] = key[h]]
        /\ store' = [store EXCEPT ![key[h]] = dir]
        /\ UNCHANGED <<job, parent, full>>
    BY <1>0, <1>20 DEF HookKilled, Goto, Dir, WorkerGoes, Owning
  <2> HIDE DEF dir, p, w
  <2> QED
    BY <1>0, <2>1, <2>2, <2>3, OwningStep
<1> QED
  BY <1>1, <1>2, <1>3, <1>4, <1>5, <1>6, <1>7, <1>8, <1>9, <1>10, <1>11, <1>12, <1>13, <1>14, <1>15, <1>16, <1>17, <1>18, <1>19, <1>20 DEF WorkerStep

LEMMA StepHInv == HInv /\ [HookNext]_hookVars => HInv'
<1> SUFFICES ASSUME HInv, [HookNext]_hookVars PROVE HInv'
  OBVIOUS
<1>1. CASE UNCHANGED hookVars
  BY <1>1 DEF HInv, HookTypeOK, ExclusiveDirectory, PassIsComplete, Dir, hookVars, hookState
<1>2. CASE SpaceChanges
  BY <1>2 DEF HInv, HookTypeOK, ExclusiveDirectory, PassIsComplete, Dir, SpaceChanges, hookState
<1>3. ASSUME NEW h \in Hooks,
             \/ HookStarts(h) \/ HookRejects(h) \/ HookStep(h) \/ WorkerStep(h)
             \/ WorkerTimesOut(h) \/ HookKilled(h)
      PROVE  HInv'
  <2>1. CASE \/ HookStarts(h) \/ HookRejects(h) \/ LookForParent(h) \/ MakeParent(h)
             \/ MakeParentFails(h) \/ ClaimRefused(h) \/ (HookKilled(h) /\ key[h] = None)
    BY <2>1, StepWithoutDirectory
  <2>2. CASE ClaimJob(h)
    <3>1. pc[h] \in Unclaimed
      BY <2>2 DEF ClaimJob, At, Unclaimed
    <3>2. key[h] = None
      BY <3>1 DEF HInv, Owning, Claimed, Ended, Unclaimed
    <3>3. job[h] \in Names
      BY <3>1, <3>2 DEF HInv, Waiting, Names
    <3> QED
      BY <2>2, <3>1, <3>3, TakeStep DEF ClaimJob
  <2>3. CASE ClaimSuffixed(h)
    <3>1. pc[h] \in Unclaimed
      BY <2>3 DEF ClaimSuffixed, At, Unclaimed
    <3> QED
      BY <2>3, <3>1, TakeStep DEF ClaimSuffixed, Names
  <2>4. CASE /\ key[h] # None
             /\ \/ LockJob(h) \/ StartWorker(h) \/ GuardFails(h) \/ Conclude(h) \/ Report(h)
                \/ WriteFailure(h) \/ QuarantineStage(h) \/ WorkerStep(h) \/ WorkerTimesOut(h)
                \/ HookKilled(h)
    BY <2>4, StepInDirectory
  <2>5. CASE \/ LockJob(h) \/ StartWorker(h) \/ GuardFails(h) \/ Conclude(h) \/ Report(h)
             \/ WriteFailure(h) \/ QuarantineStage(h)
    <3>1. pc[h] \in Claimed
      BY <2>5 DEF LockJob, StartWorker, GuardFails, Conclude, Report, WriteFailure,
                  QuarantineStage, At, Claimed
    <3>2. key[h] # None
      BY <3>1 DEF HInv, Waiting, Claimed, Unclaimed
    <3> QED
      BY <2>4, <2>5, <3>2
  <2>6. CASE WorkerStep(h) \/ WorkerTimesOut(h)
    <3>1. worker[h] \in Working
      BY <2>6 DEF WorkerStep, CopyWorkspace, MoveStage, ClearFailed, PublishHash, PublishManifest,
                  WorkerExits, WorkerFails, WorkerTimesOut, TimeLimit, WorkerGoes, Working
    <3>2. key[h] # None
      BY <3>1 DEF HInv, Waiting, Working
    <3> QED
      BY <2>4, <2>6, <3>2
  <2> QED
    BY <1>3, <2>1, <2>2, <2>3, <2>4, <2>5, <2>6 DEF HookStep
<1> QED
  BY <1>1, <1>2, <1>3 DEF HookNext

-----------------------------------------------------------------------------
(* The properties of the runs.                                                *)

\* Whatever hooks end together: a directory has one owner, and what the owner
\* and its worker have done is what stands in it (the whole of
\* hooks/archive-job-completed.sh, its worker included).
THEOREM HookInductive == HookSpec => []HInv
BY InitHInv, StepHInv, PTL DEF HookSpec

\* mkdir without -p gives each job directory to one hook: no two matrix jobs
\* of one name archive into one directory.
THEOREM DirectoriesAreExclusive == HookSpec => []ExclusiveDirectory
<1>1. HInv => ExclusiveDirectory
  BY DEF HInv
<1> QED
  BY <1>1, HookInductive, PTL

\* The manifest is renamed into place after the workspace and the hash, and
\* after an earlier failure manifest was removed: PASS is never half an archive.
THEOREM PassesAreComplete == HookSpec => []PassIsComplete
<1>1. HInv => PassIsComplete
  BY DEF HInv
<1> QED
  BY <1>1, HookInductive, PTL

\* validate_authoritative_pass looks at what was published, not at how the
\* worker ended: exit status and archive agree.
THEOREM ExitsTellTruth == HookSpec => []ExitTellsTruth
<1>1. HInv => ExitTellsTruth
  <2> SUFFICES ASSUME HInv, NEW h \in Hooks
               PROVE  /\ pc[h] = "passed" => Dir(h).manifest
                      /\ pc[h] = "failed" /\ key[h] # None => ~Dir(h).manifest
    BY DEF ExitTellsTruth
  <2>1. CASE key[h] = None
    BY <2>1 DEF HInv, Waiting, Unclaimed
  <2>2. CASE key[h] # None
    BY <2>2 DEF HInv, Owning
  <2> QED
    BY <2>1, <2>2
<1> QED
  BY <1>1, HookInductive, PTL

\* A published archive stays as it is: a later job of the same name gets a
\* directory of its own, and fail_archive is not reached once PASS stands.
THEOREM PassesAreImmutable == HookSpec => PassImmutable
<1> DEFINE Same == \A d \in Names : store[d].manifest =>
                      store'[d] = [store[d] EXCEPT !.marker = store'[d].marker]
<1>1. HInv /\ [HookNext]_hookVars => Same
  <2> SUFFICES ASSUME HInv, [HookNext]_hookVars, NEW d \in Names, store[d].manifest
               PROVE  store'[d] = [store[d] EXCEPT !.marker = store'[d].marker]
    OBVIOUS
  <2>0. store \in [Names -> JobDir] /\ store[d] \in JobDir
    BY DEF HInv, HookTypeOK
  <2>1. CASE store' = store
    BY <2>0, <2>1 DEF JobDir
  <2>2. ASSUME NEW h \in Hooks, NEW n \in Names, Take(h, n) PROVE store'[d] = store[d]
    BY <2>0, <2>2 DEF Take, MkdirExclusive, HInv, HookTypeOK, NoDir
  <2>3. ASSUME NEW h \in Hooks, LockJob(h) \/ Report(h)
        PROVE  store'[d] = [store[d] EXCEPT !.marker = store'[d].marker]
    BY <2>0, <2>3 DEF LockJob, Report, JobDir
  <2>4. ASSUME NEW h \in Hooks, key[h] # None, d = key[h],
               \/ StartWorker(h) \/ WriteFailure(h) \/ QuarantineStage(h) \/ CopyWorkspace(h)
               \/ MoveStage(h) \/ ClearFailed(h) \/ PublishHash(h) \/ PublishManifest(h)
        PROVE  FALSE
    <3>1. Owning(pc[h], worker[h], Dir(h)) /\ Dir(h).manifest
      BY <2>4 DEF HInv, Dir
    <3> QED
      BY <2>4, <3>1 DEF Owning, StartWorker, WriteFailure, QuarantineStage, CopyWorkspace,
         MoveStage, ClearFailed, PublishHash, PublishManifest, WorkerGoes, At
  <2>5. ASSUME NEW h \in Hooks,
               \/ StartWorker(h) \/ WriteFailure(h) \/ QuarantineStage(h) \/ CopyWorkspace(h)
               \/ MoveStage(h) \/ ClearFailed(h) \/ PublishHash(h) \/ PublishManifest(h)
        PROVE  store'[d] = store[d]
    <3>1. key[h] # None
      BY <2>5 DEF HInv, Waiting, StartWorker, WriteFailure, QuarantineStage, CopyWorkspace,
         MoveStage, ClearFailed, PublishHash, PublishManifest, WorkerGoes, At, Unclaimed
    <3>2. d # key[h]
      BY <2>4, <2>5, <3>1
    <3> QED
      BY <2>0, <2>5, <3>2 DEF StartWorker, WriteFailure, QuarantineStage, CopyWorkspace,
         MoveStage, ClearFailed, PublishHash, PublishManifest
  <2>6. ASSUME NEW h \in Hooks,
               \/ HookStarts(h) \/ HookRejects(h) \/ LookForParent(h) \/ MakeParent(h)
               \/ MakeParentFails(h) \/ ClaimRefused(h) \/ GuardFails(h) \/ Conclude(h)
               \/ WorkerExits(h) \/ WorkerFails(h) \/ WorkerTimesOut(h) \/ HookKilled(h)
        PROVE  store' = store
    BY <2>6 DEF HookStarts, HookRejects, LookForParent, MakeParent, MakeParentFails,
       ClaimRefused, GuardFails, Conclude, WorkerExits, WorkerFails, WorkerTimesOut, HookKilled
  <2>7. ASSUME NEW h \in Hooks, ClaimJob(h) \/ ClaimSuffixed(h) PROVE store'[d] = store[d]
    <3>1. job[h] \in Names \/ ~ClaimJob(h)
      BY DEF ClaimJob, At, HInv, Waiting, Owning, Names, Unclaimed, Claimed, Ended
    <3> QED
      BY <2>2, <2>7, <3>1 DEF ClaimJob, ClaimSuffixed, Names
  <2>8. store'[d] = store[d] => store'[d] = [store[d] EXCEPT !.marker = store'[d].marker]
    BY <2>0 DEF JobDir
  <2> QED
    BY <2>1, <2>3, <2>5, <2>6, <2>7, <2>8
       DEF HookNext, HookStep, WorkerStep, SpaceChanges, hookVars
<1>2. HInv /\ [HookNext]_hookVars => [Same]_hookVars
  BY <1>1
<1> QED
  BY <1>2, HookInductive, PTL DEF HookSpec, PassImmutable

-----------------------------------------------------------------------------
(* The retention script beside the hooks.                                     *)

\* The script judges a run by all PASS manifests that stand at that moment, so
\* what it deletes afterwards of those is past the cutoff, also when rm is
\* interrupted and the run is judged again.
THEOREM RecentPassesAreKept == RetentionSpec => RecentPassKept
<1> DEFINE JInv == judged \subseteq old
<1>1. RetentionInit => JInv
  BY DEF RetentionInit
<1>2. JInv /\ [RetentionNext]_retentionVars => JInv'
  <2> SUFFICES ASSUME JInv, [RetentionNext]_retentionVars PROVE JInv'
    OBVIOUS
  <2>1. CASE UNCHANGED <<judged, old>>
    BY <2>1
  <2>2. CASE JudgeAge
    BY <2>2 DEF JudgeAge, NewestBeforeCutoff
  <2>3. ASSUME NEW d \in Names, DeleteJob(d) \/ RetentionPasses(d) PROVE JInv'
    BY <2>3 DEF DeleteJob, RetentionPasses
  <2>4. CASE DeleteRun \/ DeleteStops
    BY <2>4 DEF DeleteRun, DeleteStops
  <2>5. CASE LookForActive \/ LookForFailures \/ \E d \in Names : DeleteFiles(d)
    BY <2>5 DEF LookForActive, LookForFailures, DeleteFiles
  <2> QED
    BY <2>1, <2>2, <2>3, <2>4, <2>5 DEF RetentionNext, CleanerNext, unchangedCleaner, retentionVars
<1>3. JInv => (\A d \in judged : Taken(d) => d \in old)
  OBVIOUS
<1>4. JInv /\ [RetentionNext]_retentionVars
        => [\A d \in judged : Taken(d) => d \in old]_retentionVars
  BY <1>3
<1> QED
  BY <1>1, <1>2, <1>4, PTL DEF RetentionSpec, RecentPassKept

-----------------------------------------------------------------------------
(* The hooks implement WriteOnceArchive.                                      *)

\* A reader finds all of an archive or nothing.
LEMMA WholeOrNothing ==
  ASSUME HInv, NEW d \in Names
  PROVE  Content(d) = IF store[d].manifest THEN "pass" ELSE "none"
BY DEF HInv, PassIsComplete, Content

\* A step between two states in which no hook has ended, and no PASS appears.
Unnoticed ==
    /\ UNCHANGED key
    /\ \A h \in Hooks : Heard(h)' = Heard(h)
    /\ \A d \in Names : store'[d].manifest = store[d].manifest

LEMMA UnnoticedIsStutter ==
  ASSUME HInv, HInv', Unnoticed
  PROVE  UNCHANGED Archive!archiveVars
<1>1. \A d \in Names : Content(d)' = Content(d)
  <2> SUFFICES ASSUME NEW d \in Names PROVE Content(d)' = Content(d)
    OBVIOUS
  <2>1. Content(d)' = IF store'[d].manifest THEN "pass" ELSE "none"
    BY DEF HInv, PassIsComplete, Content
  <2> QED
    BY <2>1, WholeOrNothing DEF Unnoticed
<1>2. /\ [d \in Names |-> Content(d)]' = [d \in Names |-> Content(d)]
      /\ [h \in Hooks |-> Heard(h)]' = [h \in Hooks |-> Heard(h)]
  BY <1>1 DEF Unnoticed
<1> QED
  BY <1>2 DEF Unnoticed, Archive!archiveVars

\* What becomes of the reports when one hook moves.
LEMMA HeardOfOne ==
  ASSUME HInv, NEW h \in Hooks, NEW p, pc' = [pc EXCEPT ![h] = p]
  PROVE  /\ \A g \in Hooks \ {h} : Heard(g)' = Heard(g)
         /\ Heard(h)' = IF p = "killed" THEN "lost" ELSE IF p \in Ended THEN p ELSE "none"
BY DEF HInv, HookTypeOK, Heard

LEMMA NothingHeard ==
  ASSUME NEW h \in Hooks, pc[h] \notin Ended
  PROVE  Heard(h) = "none"
BY DEF Heard, Ended

LEMMA QuietHookStep ==
  ASSUME HInv, HInv', NEW h \in Hooks,
         \/ HookStarts(h) \/ LookForParent(h) \/ MakeParent(h) \/ ClaimRefused(h)
         \/ LockJob(h) \/ StartWorker(h) \/ GuardFails(h) \/ Conclude(h) \/ WriteFailure(h)
  PROVE  UNCHANGED Archive!archiveVars
<1> USE DEF HInv, HookTypeOK
<1>1. PICK p \in Unclaimed \cup Claimed :
          pc' = [pc EXCEPT ![h] = p] /\ pc[h] \in {"idle"} \cup Unclaimed \cup Claimed
  BY DEF HookStarts, LookForParent, MakeParent, ClaimRefused, LockJob, StartWorker, GuardFails,
     Conclude, WriteFailure, At, Goto, Unclaimed, Claimed
<1>2. \A g \in Hooks : Heard(g)' = Heard(g)
  <2>1. p \notin Ended /\ pc[h] \notin Ended /\ "killed" \in Ended
    BY <1>1 DEF Unclaimed, Claimed, Ended
  <2>2. Heard(h) = "none" /\ Heard(h)' = "none"
    BY <1>1, <2>1 DEF Heard
  <2> QED
    BY <1>1, <2>2, HeardOfOne
<1>3. \A d \in Names : store'[d].manifest = store[d].manifest
  <2>1. CASE UNCHANGED store
    BY <2>1
  <2>2. CASE ~UNCHANGED store
    <3>1. key[h] \in Names
      <4>1. pc[h] \in Claimed
        BY <2>2 DEF HookStarts, LookForParent, MakeParent, ClaimRefused, LockJob, StartWorker,
           GuardFails, Conclude, WriteFailure, At, Claimed
      <4> QED
        BY <4>1
    <3>2. store[key[h]] \in JobDir
      BY <3>1
    <3> QED
      BY <2>2, <3>1, <3>2 DEF HookStarts, LookForParent, MakeParent, ClaimRefused, LockJob,
         StartWorker, GuardFails, Conclude, WriteFailure, JobDir
  <2> QED
    BY <2>1, <2>2
<1>4. UNCHANGED key
  BY DEF HookStarts, LookForParent, MakeParent, ClaimRefused, LockJob, StartWorker, GuardFails,
     Conclude, WriteFailure
<1> QED
  BY <1>2, <1>3, <1>4, UnnoticedIsStutter DEF Unnoticed

LEMMA QuietWorkerStep ==
  ASSUME HInv, HInv', NEW h \in Hooks,
         \/ CopyWorkspace(h) \/ MoveStage(h) \/ ClearFailed(h) \/ PublishHash(h)
         \/ WorkerExits(h) \/ WorkerFails(h) \/ WorkerTimesOut(h)
  PROVE  UNCHANGED Archive!archiveVars
<1> USE DEF HInv, HookTypeOK
<1>1. UNCHANGED <<pc, key>>
  BY DEF CopyWorkspace, MoveStage, ClearFailed, PublishHash, WorkerExits, WorkerFails,
     WorkerTimesOut, WorkerGoes
<1>2. key[h] \in Names
  <2>1. worker[h] \in Working
    BY DEF CopyWorkspace, MoveStage, ClearFailed, PublishHash, WorkerExits, WorkerFails,
       WorkerTimesOut, TimeLimit, WorkerGoes, Working
  <2> QED
    BY <2>1 DEF Waiting, Working
<1>3. \A d \in Names : store'[d].manifest = store[d].manifest
  <2>1. store[key[h]] \in JobDir
    BY <1>2
  <2> QED
    BY <1>2, <2>1 DEF CopyWorkspace, MoveStage, ClearFailed, PublishHash, WorkerExits, WorkerFails,
       WorkerTimesOut, JobDir
<1> QED
  BY <1>1, <1>3, UnnoticedIsStutter DEF Unnoticed, Heard

\* What a hook reports, when it ends or is killed.
LEMMA ReportImplements ==
  ASSUME HInv, HInv', NEW h \in Hooks,
         \/ HookRejects(h) \/ MakeParentFails(h) \/ Report(h) \/ QuarantineStage(h) \/ HookKilled(h)
  PROVE  Archive!Succeed(h) \/ Archive!Fail(h) \/ Archive!Lose(h)
<1> USE DEF HInv, HookTypeOK
<1>0. UNCHANGED key
  BY DEF HookRejects, MakeParentFails, Report, QuarantineStage, HookKilled
<1>1. PICK p \in Ended :
          /\ pc' = [pc EXCEPT ![h] = p] /\ pc[h] \notin Ended
          /\ p = "failed" => HookRejects(h) \/ MakeParentFails(h) \/ QuarantineStage(h)
          /\ p = "passed" => Report(h)
  BY DEF HookRejects, MakeParentFails, Report, QuarantineStage, HookKilled, At, Goto,
     Unclaimed, Claimed, Ended
<1> DEFINE what == IF p = "killed" THEN "lost" ELSE p
<1>2. /\ Heard(h) = "none" /\ Heard(h)' = what
      /\ \A g \in Hooks \ {h} : Heard(g)' = Heard(g)
  <2>1. Heard(h) = "none"
    BY <1>1, NothingHeard
  <2>2. p \in Ended /\ pc' = [pc EXCEPT ![h] = p]
    BY <1>1
  <2>3. /\ \A g \in Hooks \ {h} : Heard(g)' = Heard(g)
        /\ Heard(h)' = IF p = "killed" THEN "lost" ELSE IF p \in Ended THEN p ELSE "none"
    BY <2>2, HeardOfOne
  <2> QED
    BY <2>1, <2>2, <2>3
<1>3. \A d \in Names : Content(d)' = Content(d)
  <2>1. \A d \in Names : store'[d].manifest = store[d].manifest
    <3>1. CASE UNCHANGED store
      BY <3>1
    <3>2. CASE ~UNCHANGED store
      <4>1. key[h] \in Names
        BY <3>2 DEF HookRejects, MakeParentFails, Report, QuarantineStage, HookKilled, At, Claimed
      <4>2. store[key[h]] \in JobDir
        BY <4>1
      <4> QED
        BY <3>2, <4>1, <4>2 DEF HookRejects, MakeParentFails, Report, QuarantineStage, HookKilled,
           JobDir
    <3> QED
      BY <3>1, <3>2
  <2> SUFFICES ASSUME NEW d \in Names PROVE Content(d)' = Content(d)
    OBVIOUS
  <2>2. Content(d)' = IF store'[d].manifest THEN "pass" ELSE "none"
    BY DEF PassIsComplete, Content
  <2> QED
    BY <2>1, <2>2, WholeOrNothing
<1> DEFINE reports == [g \in Hooks |-> Heard(g)]
<1>4. Archive!Say(h, what)
  <2>1. reports' = [reports EXCEPT ![h] = what]
    BY <1>2
  <2>2. reports[h] = "none"
    BY <1>2
  <2>3. UNCHANGED [d \in Names |-> Content(d)]
    BY <1>3
  <2> HIDE DEF what
  <2> QED
    BY <1>0, <2>1, <2>2, <2>3 DEF Archive!Say
<1>5. CASE p = "killed"
  BY <1>4, <1>5 DEF Archive!Lose
<1>6. CASE p = "passed"
  <2>1. pc[h] = "reporting"
    BY <1>1, <1>6 DEF Report, At
  <2>2. key[h] # None /\ key[h] \in Names
    BY <2>1 DEF Waiting, Unclaimed, Claimed
  <2>3. Dir(h).manifest
    BY <2>1, <2>2 DEF Owning
  <2>4. Content(key[h]) = "pass"
    BY <2>2, <2>3, WholeOrNothing DEF Dir
  <2> QED
    BY <1>4, <1>6, <2>2, <2>4 DEF Archive!Succeed, Archive!HasWritten
<1>7. CASE p = "failed"
  <2>1. CASE key[h] = None
    BY <1>4, <1>7, <2>1 DEF Archive!Fail, Archive!HasWritten
  <2>2. CASE key[h] # None
    <3>0. HookRejects(h) \/ MakeParentFails(h) \/ QuarantineStage(h)
      BY <1>1, <1>7
    <3>1. pc[h] = "quarantine" /\ key[h] \in Names
      <4>1. pc[h] \in Claimed \cup Ended
        BY <2>2 DEF Owning
      <4> QED
        BY <2>2, <3>0, <4>1 DEF HookRejects, MakeParentFails, QuarantineStage, At, Claimed, Ended
    <3>2. ~Dir(h).manifest
      BY <2>2, <3>1 DEF Owning
    <3>3. Content(key[h]) # "pass"
      BY <3>1, <3>2, WholeOrNothing DEF Dir
    <3> QED
      BY <1>4, <1>7, <3>1, <3>3 DEF Archive!Fail, Archive!HasWritten
  <2> QED
    BY <2>1, <2>2
<1> QED
  BY <1>5, <1>6, <1>7 DEF Ended

LEMMA ClaimImplements ==
  ASSUME HInv, HInv', NEW h \in Hooks, ClaimJob(h) \/ ClaimSuffixed(h)
  PROVE  \E d \in Names : Archive!Claim(h, d)
<1> USE DEF HInv, HookTypeOK
<1>1. pc[h] \in {"claim", "retry"}
  BY DEF ClaimJob, ClaimSuffixed, At
<1>2. key[h] = None /\ job[h] \in Names
  BY <1>1 DEF Waiting, Owning, Unclaimed, Claimed, Ended, Names
<1>3. PICK d \in Names : Take(h, d)
  BY <1>2 DEF ClaimJob, ClaimSuffixed, Names
<1>4. ~store[d].made /\ key' = [key EXCEPT ![h] = d] /\ pc' = [pc EXCEPT ![h] = "lock"]
      /\ store' = [store EXCEPT ![d].made = TRUE]
  BY <1>3 DEF Take, MkdirExclusive, Goto
<1>5. \A g \in Hooks : key[g] # d
  <2> SUFFICES ASSUME NEW g \in Hooks, key[g] = d PROVE FALSE
    OBVIOUS
  <2>1. d # None
    BY NamesAssumption DEF Names
  <2>2. Owning(pc[g], worker[g], Dir(g))
    BY <2>1
  <2> QED
    BY <1>4, <2>2 DEF Owning, Dir
<1>6. Heard(h) = "none" /\ \A g \in Hooks : Heard(g)' = Heard(g)
  BY <1>1, <1>4 DEF Heard, Ended
<1>7. \A n \in Names : Content(n)' = Content(n)
  <2> SUFFICES ASSUME NEW n \in Names PROVE Content(n)' = Content(n)
    OBVIOUS
  <2>1. Content(n)' = IF store'[n].manifest THEN "pass" ELSE "none"
    BY DEF PassIsComplete, Content
  <2>2. store[n] \in JobDir
    OBVIOUS
  <2>3. store'[n].manifest = store[n].manifest
    BY <1>4, <2>2 DEF JobDir
  <2> QED
    BY <2>1, <2>3, WholeOrNothing
<1>8. /\ UNCHANGED [g \in Hooks |-> Heard(g)]
      /\ UNCHANGED [n \in Names |-> Content(n)]
  BY <1>6, <1>7
<1> QED
  BY <1>2, <1>4, <1>5, <1>6, <1>8 DEF Archive!Claim

LEMMA PublishImplements ==
  ASSUME HInv, HInv', NEW h \in Hooks, PublishManifest(h)
  PROVE  Archive!Publish(h)
<1> USE DEF HInv, HookTypeOK
<1>1. /\ worker[h] = "manifest" /\ UNCHANGED <<pc, key>>
      /\ store' = [store EXCEPT ![key[h]].manifest = TRUE]
  BY DEF PublishManifest, WorkerGoes
<1>2. key[h] # None
  BY <1>1 DEF Waiting
<1>3. key[h] \in Names /\ Owning(pc[h], worker[h], Dir(h))
  BY <1>2
<1>4. ~store[key[h]].manifest /\ pc[h] \notin {"passed", "failed"}
  BY <1>1, <1>3 DEF Owning, Dir, Working
<1>5. Heard(h) \in {"none", "lost"}
  BY <1>4 DEF Heard, Ended
<1>6. \A d \in Names : Content(d)' = IF d = key[h] THEN "pass" ELSE Content(d)
  <2> SUFFICES ASSUME NEW d \in Names
               PROVE  Content(d)' = IF d = key[h] THEN "pass" ELSE Content(d)
    OBVIOUS
  <2>1. Content(d)' = IF store'[d].manifest THEN "pass" ELSE "none"
    BY DEF PassIsComplete, Content
  <2>2. store[d] \in JobDir
    OBVIOUS
  <2>3. store'[d].manifest = IF d = key[h] THEN TRUE ELSE store[d].manifest
    BY <1>1, <1>3, <2>2 DEF JobDir
  <2> QED
    BY <2>1, <2>3, WholeOrNothing
<1>7. Content(key[h]) = "none"
  BY <1>3, <1>4, WholeOrNothing
<1>8. UNCHANGED [g \in Hooks |-> Heard(g)]
  BY <1>1 DEF Heard
<1> DEFINE contents == [d \in Names |-> Content(d)]
<1>9. contents' = [contents EXCEPT ![key[h]] = "pass"]
  BY <1>3, <1>6
<1> QED
  BY <1>1, <1>3, <1>5, <1>7, <1>8, <1>9 DEF Archive!Publish

\* Directories, workers, quarantine and exit status are, for who reads the
\* archive or the result of a job, an archive written once: by one hook to a
\* place, all of it or nothing, with reports that are and stay true.
\* Code: claim of JOB_DIR, archive_copy_finalize_worker, fail_archive.
THEOREM HooksWriteOnce == HookSpec => ImplementsArchive
<1>1. HookInit => Archive!ArchiveInit
  BY DEF HookInit, Archive!ArchiveInit, Content, Heard, NoDir, Ended
<1>2. HInv /\ HInv' /\ [HookNext]_hookVars => [Archive!ArchiveNext]_Archive!archiveVars
  <2> SUFFICES ASSUME HInv, HInv', [HookNext]_hookVars
               PROVE  [Archive!ArchiveNext]_Archive!archiveVars
    OBVIOUS
  <2>1. CASE SpaceChanges \/ UNCHANGED hookVars
    BY <2>1, UnnoticedIsStutter DEF SpaceChanges, hookVars, hookState, Unnoticed, Heard
  <2>2. ASSUME NEW h \in Hooks,
               \/ HookStarts(h) \/ HookRejects(h) \/ HookStep(h) \/ WorkerStep(h)
               \/ WorkerTimesOut(h) \/ HookKilled(h)
        PROVE  [Archive!ArchiveNext]_Archive!archiveVars
    <3>1. CASE \/ HookStarts(h) \/ LookForParent(h) \/ MakeParent(h) \/ ClaimRefused(h)
               \/ LockJob(h) \/ StartWorker(h) \/ GuardFails(h) \/ Conclude(h) \/ WriteFailure(h)
      BY <3>1, QuietHookStep
    <3>2. CASE \/ CopyWorkspace(h) \/ MoveStage(h) \/ ClearFailed(h) \/ PublishHash(h)
               \/ WorkerExits(h) \/ WorkerFails(h) \/ WorkerTimesOut(h)
      BY <3>2, QuietWorkerStep
    <3>3. CASE \/ HookRejects(h) \/ MakeParentFails(h) \/ Report(h) \/ QuarantineStage(h)
               \/ HookKilled(h)
      BY <3>3, ReportImplements DEF Archive!ArchiveNext
    <3>4. CASE ClaimJob(h) \/ ClaimSuffixed(h)
      BY <3>4, ClaimImplements DEF Archive!ArchiveNext
    <3>5. CASE PublishManifest(h)
      BY <3>5, PublishImplements DEF Archive!ArchiveNext
    <3> QED
      BY <2>2, <3>1, <3>2, <3>3, <3>4, <3>5 DEF HookStep, WorkerStep
  <2> QED
    BY <2>1, <2>2 DEF HookNext
<1> QED
  BY <1>1, <1>2, HookInductive, PTL DEF HookSpec, ImplementsArchive, Archive!ArchiveSpec
=============================================================================
