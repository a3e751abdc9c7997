--------------------------- MODULE WriteOnceArchive ---------------------------
(* What the job-completed hooks promise, without staging, workers, locks or   *)
(* file systems: an archive of places that are written once, each by one      *)
(* writer, all of it or nothing; a writer that reports success has written,   *)
(* one that reports failure never will have, and one of which nothing is      *)
(* heard may have written or may still do so.                                 *)
CONSTANTS Writers, Places, None

VARIABLES
    place,      \* the place each writer was given
    content,    \* of each place: "none" or "pass"
    report      \* of each writer: "none", "passed", "failed", or "lost"

archiveVars == <<place, content, report>>

ArchiveInit ==
    /\ place = [w \in Writers |-> None]
    /\ content = [p \in Places |-> "none"]
    /\ report = [w \in Writers |-> "none"]

Claim(w, p) ==
    /\ report[w] = "none" /\ place[w] = None
    /\ \A v \in Writers : place[v] # p
    /\ place' = [place EXCEPT ![w] = p]
    /\ UNCHANGED <<content, report>>

Publish(w) ==
    /\ report[w] \in {"none", "lost"} /\ place[w] \in Places
    /\ content[place[w]] = "none"
    /\ content' = [content EXCEPT ![place[w]] = "pass"]
    /\ UNCHANGED <<place, report>>

HasWritten(w) == place[w] # None /\ content[place[w]] = "pass"

Say(w, what) ==
    /\ report[w] = "none"
    /\ report' = [report EXCEPT ![w] = what]
    /\ UNCHANGED <<place, content>>

Succeed(w) == HasWritten(w) /\ Say(w, "passed")
Fail(w) == ~HasWritten(w) /\ Say(w, "failed")
Lose(w) == Say(w, "lost")

ArchiveNext ==
    \E w \in Writers :
        \/ \E p \in Places : Claim(w, p)
        \/ Publish(w) \/ Succeed(w) \/ Fail(w) \/ Lose(w)

ArchiveSpec == ArchiveInit /\ [][ArchiveNext]_archiveVars
==============================================================================
