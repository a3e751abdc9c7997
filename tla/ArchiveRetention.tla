-------------------------- MODULE ArchiveRetention --------------------------
(* scripts/cleanup-local-artifacts.sh --apply beside the hooks of ArchiveHook *)
(* that archive a re-run attempt of an old workflow run.  The script looks at *)
(* a run directory with three finds, one after the other, and then removes    *)
(* it with rm -rf, which takes its entries one by one.                        *)
EXTENDS ArchiveHook

VARIABLES
    cleaner,    \* how far the script has come with this run
    old,        \* manifests whose completed_at_utc is before the cutoff
    judged      \* PASS manifests the third find saw and rm has not taken yet

retentionVars == <<hookVars, cleaner, old, judged>>
unchangedCleaner == UNCHANGED <<cleaner, old, judged>>

RetentionTypeOK ==
    /\ HookTypeOK
    /\ cleaner \in {"scan", "failures", "age", "delete"}
    /\ old \subseteq Names /\ judged \subseteq Names

RetentionInit == HookInit /\ cleaner = "scan" /\ old = {} /\ judged = {}

\* What the first find of is_active_or_ambiguous looks for.
Active(d) == store[d].marker \/ store[d].stage # "none" \/ store[d].quarantine

NoneActive == \A d \in Names : ~Active(d)

LookForActive ==
    /\ cleaner = "scan"
    /\ parent /\ NoneActive
    /\ cleaner' = "failures"
    /\ UNCHANGED <<hookVars, old, judged>>

\* The second one: manifest.failed.json.
NoneFailed == \A d \in Names : ~store[d].failed

LookForFailures ==
    /\ cleaner = "failures"
    /\ cleaner' = IF NoneFailed THEN "age" ELSE "scan"
    /\ UNCHANGED <<hookVars, old, judged>>

\* newest_completion_epoch: at least one manifest, and none after the cutoff.
Manifests == {d \in Names : store[d].manifest}
OldestBeforeCutoff == Manifests \cap old # {}
NewestBeforeCutoff == Manifests # {} /\ Manifests \subseteq old

JudgeAge ==
    /\ cleaner = "age"
    /\ IF NewestBeforeCutoff
       THEN cleaner' = "delete" /\ judged' = Manifests
       ELSE cleaner' = "scan" /\ UNCHANGED judged
    /\ UNCHANGED <<hookVars, old>>

\* rm -rf: files of a job directory go before the directory does.
DeleteFiles(d) ==
    /\ cleaner = "delete"
    /\ store[d].workspace = "complete" \/ store[d].stage = "whole"
    /\ store' = [store EXCEPT ![d].workspace = IF @ = "complete" THEN "partial" ELSE @,
                              ![d].stage = IF @ = "whole" THEN "partial" ELSE @]
    /\ UNCHANGED <<hookState, parent, full, cleaner, old, judged>>

DeleteJob(d) ==
    /\ cleaner = "delete"
    /\ store[d].made
    /\ store' = [store EXCEPT ![d] = NoDir]
    /\ old' = old \ {d} /\ judged' = judged \ {d}
    /\ UNCHANGED <<hookState, parent, full, cleaner>>

\* rmdir removes an empty directory only.
Emptied == \A d \in Names : ~store[d].made

DeleteRun ==
    /\ cleaner = "delete"
    /\ Emptied
    /\ parent' = FALSE
    /\ cleaner' = "scan" /\ judged' = {}
    /\ UNCHANGED <<hookState, full, store, old>>

\* rmdir finds the directory not empty, or the script dies.
DeleteStops ==
    /\ cleaner = "delete"
    /\ cleaner' = "scan" /\ judged' = {}
    /\ UNCHANGED <<hookVars, old>>

\* RETENTION_DAYS pass; a hook never lasts that long, and CUTOFF is computed
\* once, before the first find.
RetentionPasses(d) ==
    /\ cleaner = "scan"
    /\ store[d].manifest /\ d \notin old
    /\ \A h \in Hooks : key[h] = d => pc[h] \in Ended
    /\ old' = old \cup {d}
    /\ UNCHANGED <<hookVars, cleaner, judged>>

CleanerNext ==
    \/ LookForActive \/ LookForFailures \/ JudgeAge
    \/ \E d \in Names : DeleteFiles(d) \/ DeleteJob(d)
    \/ DeleteRun \/ DeleteStops

RetentionNext ==
    \/ HookNext /\ unchangedCleaner
    \/ CleanerNext
    \/ \E d \in Names : RetentionPasses(d)

RetentionSpec == RetentionInit /\ [][RetentionNext]_retentionVars

-----------------------------------------------------------------------------
(* What retention promises.                                                   *)

Taken(d) == store[d].made /\ ~store'[d].made

\* "its newest successful archive completion timestamp is older than the
\* retention cutoff": no PASS that stood when the run was judged is deleted
\* before its time, whatever other attempts of the run did meanwhile.
RecentPassKept ==
    [][\A d \in judged : Taken(d) => d \in old]_retentionVars
=============================================================================
