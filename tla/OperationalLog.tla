---------------------------- MODULE OperationalLog ----------------------------
(* scripts/cli-operational-logger.py and the grt_log function of the scripts  *)
(* that call it: a bounded log in one active and several closed files, below  *)
(* one lock.  A call of the logger is a process of its own that may die at    *)
(* every step, leaving half a record behind if it was writing; the kernel     *)
(* then releases its lock.  The clock does not run backwards.  The checks of  *)
(* owners, modes and names, and disks that fail otherwise than by a write or  *)
(* an fsync, are left out.                                                    *)
EXTENDS Naturals, Sequences, SequencesExt

CONSTANTS
    Scripts,                    \* Create, Remove and Status, as they run
    Mutating,                   \* those that may not act unlogged: not Status
    None,
    MaxFile, MaxTotal, MaxRecord, \* MAX_FILE, MAX_TOTAL, MAX_RECORD
    Retention,                  \* RETENTION, in ticks
    MaxTime, MaxRecords         \* bounds of the clock and of the records

ASSUME LogSizes ==
    /\ {MaxFile, MaxTotal, MaxRecord} \subseteq Nat \ {0}
    /\ MaxRecord <= MaxFile /\ MaxFile + MaxRecord <= MaxTotal
ASSUME LogNames == Mutating \subseteq Scripts /\ None \notin Scripts
ASSUME LogBounds == {Retention, MaxTime, MaxRecords} \subseteq Nat

VARIABLES
    clock,
    active,     \* operational.jsonl
    closed,     \* the rotated files, in the order of their stamps
    torn,       \* the active file ends in part of a record
    holder,     \* of operational.lock
    script      \* each script, and its call of the logger

vars == <<clock, active, closed, torn, holder, script>>

\* Records are numbered as they are written, and a file holds those between
\* two numbers.  A file is stamped with the time of its last write while it is
\* active, and by its rotation.
File == [from : Nat, upto : Nat, size : Nat, stamp : 0..MaxTime]
EmptyAfter(n) == [from |-> n + 1, upto |-> n, size |-> 0, stamp |-> 0]

Steps == {"off", "run", "lock", "rotate", "expire", "evict", "fit", "write", "synced"}
\* "need" is the length of the record, 0 in the maintenance before it is known;
\* "begun" the last record that was acknowledged before the first effect.
Script == [pc : Steps, effect : BOOLEAN, need : 0..MaxRecord, begun : Nat]
Off == [pc |-> "off", effect |-> FALSE, need |-> 0, begun |-> 0]

\* The types of the variables.
LogTypeOK ==
    /\ clock \in 0..MaxTime
    /\ active \in File /\ closed \in Seq(File)
    /\ torn \in BOOLEAN
    /\ holder \in Scripts \cup {None}
    /\ script \in [Scripts -> Script]

LogInit ==
    /\ clock = 0
    /\ active = EmptyAfter(0) /\ closed = <<>> /\ torn = FALSE
    /\ holder = None
    /\ script = [w \in Scripts |-> Off]

At(w, step) == script[w].pc = step
GoTo(w, step) == script' = [script EXCEPT ![w].pc = step]
files == <<active, closed, torn>>
Size(file, total) == total + file.size
Total == FoldRight(Size, closed, active.size)
Files == Range(closed) \cup {active}

-----------------------------------------------------------------------------
(* The scripts.                                                               *)

StartScript(w) ==
    /\ At(w, "off")
    /\ script' = [script EXCEPT ![w] = [Off EXCEPT !.pc = "lock"]]
    /\ UNCHANGED <<clock, files, holder>>

CallLogger(w) ==
    /\ At(w, "run")
    /\ GoTo(w, "lock")
    /\ UNCHANGED <<clock, files, holder>>

\* GRT_LOG_SIDE_EFFECT=1; Status has no such point.
CrossBoundary(w) ==
    /\ At(w, "run") /\ w \in Mutating
    /\ script' = [script EXCEPT ![w].effect = TRUE]
    /\ UNCHANGED <<clock, files, holder>>

EndScript(w) ==
    /\ At(w, "run")
    /\ script' = [script EXCEPT ![w] = Off]
    /\ UNCHANGED <<clock, files, holder>>

\* A failed call ends a Create or Remove that has not acted yet, and is a
\* warning for any other script.
Always(w) == TRUE
MayGoOn(w) == w \notin Mutating \/ script[w].effect
Unavailable(w) ==
    /\ script' = [script EXCEPT ![w] = IF MayGoOn(w) THEN [@ EXCEPT !.pc = "run", !.need = 0]
                                       ELSE Off]
    /\ holder' = IF holder = w THEN None ELSE holder

Die(w) ==
    /\ script' = [script EXCEPT ![w] = Off]
    /\ holder' = IF holder = w THEN None ELSE holder

-----------------------------------------------------------------------------
(* A call: maintain() on entry, maintain() for the record, and again if the   *)
(* record makes the active file rotate.                                       *)

TakeLock(w) ==
    /\ At(w, "lock") /\ holder = None
    /\ holder' = w
    /\ GoTo(w, "rotate")
    /\ UNCHANGED <<clock, files>>

LockTimesOut(w) ==
    /\ At(w, "lock") /\ holder # None
    /\ Unavailable(w)
    /\ UNCHANGED <<clock, files>>

Unchecked == TRUE
Readable == ~torn /\ \A file \in Files : file.size <= MaxFile

FitsBefore(need) == Total <= MaxTotal
Fits(need) == Total + need <= MaxTotal
Evictable == closed # <<>>

\* paths() finds the tail of a file damaged, or a file too large; or there is
\* no closed file left to make room with.
Refused(w) == CASE script[w].pc \in {"rotate", "fit"} -> ~Readable
                [] At(w, "evict") -> ~Fits(script[w].need) /\ ~Evictable
                [] OTHER -> FALSE
Refuse(w) ==
    /\ Refused(w)
    /\ Unavailable(w)
    /\ UNCHANGED <<clock, files>>

Expired(file) == clock - file.stamp > Retention

Rotate(stamp) ==
    /\ closed' = Append(closed, [active EXCEPT !.stamp = stamp])
    /\ active' = EmptyAfter(active.upto)
    /\ UNCHANGED torn

MaintainRotate(w) ==
    /\ At(w, "rotate") /\ Readable
    /\ IF active.size > 0 /\ (Expired(active) \/ active.size >= MaxFile)
       THEN Rotate(IF Expired(active) THEN active.stamp ELSE clock)
       ELSE UNCHANGED files
    /\ GoTo(w, "expire")
    /\ UNCHANGED <<clock, holder>>

\* Among the files to be deleted: sorted() is by stamp.
NewestOf(due) == CHOOSE i \in due : \A j \in due : i >= j
OldestOf(due) == CHOOSE i \in due : \A j \in due : i <= j
Delete(due) == closed' = RemoveAt(closed, OldestOf(due))

MaintainExpire(w) ==
    /\ At(w, "expire")
    /\ LET due == {i \in DOMAIN closed : Expired(closed[i])} IN
        IF due # {} THEN Delete(due) /\ UNCHANGED script
        ELSE UNCHANGED closed /\ GoTo(w, "evict")
    /\ UNCHANGED <<clock, active, torn, holder>>

MaintainEvict(w) ==
    /\ At(w, "evict")
    /\ ~Fits(script[w].need) /\ Evictable
    /\ Delete(DOMAIN closed)
    /\ UNCHANGED <<clock, active, torn, holder, script>>

Maintained(w) ==
    /\ At(w, "evict") /\ Fits(script[w].need)
    /\ \/ /\ script[w].need = 0
          /\ \E need \in 1..MaxRecord :
                script' = [script EXCEPT ![w].pc = "rotate", ![w].need = need]
       \/ /\ script[w].need > 0
          /\ GoTo(w, "fit")
    /\ UNCHANGED <<clock, files, holder>>

MakeRoom(w) ==
    /\ At(w, "fit") /\ Readable
    /\ IF active.size + script[w].need > MaxFile
       THEN Rotate(clock) /\ GoTo(w, "rotate")
       ELSE UNCHANGED files /\ GoTo(w, "write")
    /\ UNCHANGED <<clock, holder>>

WriteRecord(w) ==
    /\ At(w, "write") /\ active.upto < MaxRecords
    /\ active' = [active EXCEPT !.upto = @ + 1, !.size = @ + script[w].need, !.stamp = clock]
    /\ GoTo(w, "synced")
    /\ UNCHANGED <<clock, closed, torn, holder>>

\* The write comes to a part of the record (its length rounded up), and that is
\* reported or not.
WritePart(w) ==
    /\ At(w, "write")
    /\ \E part \in 1..script[w].need :
        active' = [active EXCEPT !.size = @ + part, !.stamp = clock]
    /\ torn' = TRUE
    /\ Unavailable(w) \/ Die(w)
    /\ UNCHANGED <<clock, closed>>

Acknowledge(w) ==
    /\ At(w, "synced")
    /\ holder' = None
    /\ script' = [script EXCEPT ![w].pc = "run", ![w].need = 0,
                                ![w].begun = IF MayGoOn(w) THEN @ ELSE active.upto]
    /\ UNCHANGED <<clock, files>>

\* fsync, or any other call on the way, fails.
CallFails(w) ==
    /\ script[w].pc \notin {"off", "run"}
    /\ Unavailable(w)
    /\ UNCHANGED <<clock, files>>

Crash(w) ==
    /\ ~At(w, "off")
    /\ Die(w)
    /\ UNCHANGED <<clock, files>>

Tick ==
    /\ clock < MaxTime
    /\ clock' = clock + 1
    /\ UNCHANGED <<files, holder, script>>

ScriptStep(w) ==
    \/ StartScript(w) \/ CallLogger(w) \/ CrossBoundary(w) \/ EndScript(w)
    \/ TakeLock(w) \/ LockTimesOut(w) \/ Refuse(w)
    \/ MaintainRotate(w) \/ MaintainExpire(w) \/ MaintainEvict(w) \/ Maintained(w)
    \/ MakeRoom(w) \/ WriteRecord(w) \/ WritePart(w) \/ Acknowledge(w)
    \/ CallFails(w) \/ Crash(w)

LogNext == Tick \/ \E w \in Scripts : ScriptStep(w)
LogSpec == LogInit /\ [][LogNext]_vars

-----------------------------------------------------------------------------
(* Properties.                                                                *)

\* No file and no sum of files ever exceeds its limit, whoever dies where, and
\* yet the log is never so full that a call is refused for want of a file to
\* delete: its size alone stops no Create or Remove.
\* Code: maintain and append; MAX_FILE, MAX_TOTAL and MAX_RECORD.
LogBounded ==
    /\ \A file \in Files : file.size <= MaxFile
    /\ Total <= MaxTotal
    /\ \A w \in Scripts : At(w, "evict") => Fits(script[w].need) \/ Evictable

\* What the files hold is an unbroken sequence of records up to the last one
\* written: rotation, expiry and eviction lose nothing but the oldest records.
\* Code: rotate, maintain.
LogIsSuffix ==
    LET recorded == UNION {file.from..file.upto : file \in Files}
    IN \E oldest \in 1..(active.upto + 1) : recorded = oldest..active.upto

\* A log whose last record is damaged is evidence: no call changes any file of
\* it again.
\* Code: the check of the tail in paths.
DamagedLogUntouched == [][torn => UNCHANGED files]_vars

\* For the scripts the files, the lock and the calls are a write-ahead log: one
\* writer at a time adds a record, only the oldest are cut off, a damaged log
\* stays as it is, and a Create or Remove acts only on a record of its own of
\* which it heard that it is on disk.
\* Code: maintain and append, grt_log and GRT_LOG_SIDE_EFFECT.
First == IF closed = <<>> THEN active ELSE closed[1]
Writing == IF \E w \in Scripts : At(w, "synced") THEN holder ELSE None
Ahead == INSTANCE WriteAheadLog WITH
    Writers <- Scripts, oldest <- First.from, newest <- active.upto, frozen <- torn,
    writing <- Writing,
    record <- [w \in Scripts |-> script[w].begun],
    acting <- {w \in Scripts : script[w].effect}
ImplementsAhead == Ahead!AheadSpec
=============================================================================
