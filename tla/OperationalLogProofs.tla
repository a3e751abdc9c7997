------------------------- MODULE OperationalLogProofs -------------------------
(* What OperationalLog promises for any scripts, sizes, retention and bounds. *)
(* Total is a fold over a sequence.  It is the cardinality of a set with one  *)
(* element for each byte: the set exists without recursion, and that the fold *)
(* counts it is shown on a smallest set of files where it would not.          *)
EXTENDS OperationalLog, SequenceTheorems, FiniteSetTheorems, WellFoundedInduction, TLAPS

\* Between taking and releasing the lock a call is the only one.
CallSteps == Steps \ {"off", "run", "lock"}
Holding == \A w \in Scripts : script[w].pc \in CallSteps => holder = w

\* Only a call that still has to look at the log meets a damaged one.
TornStops == torn => \A w \in Scripts : script[w].pc \notin CallSteps \ {"rotate"}

\* A script that may go on unlogged has a record that was acknowledged, and so
\* has one whose call is about to say so.
Begun ==
    \A w \in Scripts :
        /\ script[w].effect \/ (At(w, "run") /\ w \in Mutating) => script[w].begun \in 1..active.upto
        /\ At(w, "synced") => active.upto >= 1

\* A record is written when it is known to fit.
Fitting ==
    /\ \A file \in Files : file.size <= MaxFile
    /\ \A w \in Scripts : At(w, "write") => active.size + script[w].need <= MaxFile

\* The files are in the order of their records and of their stamps.
Ordered ==
    /\ active.from \in 1..(active.upto + 1) /\ active.stamp <= clock
    /\ \A i \in DOMAIN closed :
        /\ closed[i].from >= 1 /\ closed[i].upto < active.from
        /\ closed[i].stamp <= clock
        /\ active.size > 0 => closed[i].stamp <= active.stamp
        /\ \A j \in DOMAIN closed : i < j =>
            closed[i].upto < closed[j].from /\ closed[i].stamp <= closed[j].stamp

Holds(file, k) == file.from <= k /\ k <= file.upto
Recorded(k) == \E file \in Files : Holds(file, k)

Unbroken == \E oldest \in 1..(active.upto + 1) :
              \A k \in Nat : Recorded(k) <=> oldest <= k /\ k <= active.upto

Control == Holding /\ TornStops /\ Begun
LogInv == LogTypeOK /\ Control /\ Fitting /\ Ordered /\ Unbroken

-----------------------------------------------------------------------------

LEMMA SizesAreNumbers ==
  /\ MaxFile \in Nat \ {0} /\ MaxTotal \in Nat /\ MaxRecord \in Nat \ {0} /\ MaxRecord <= MaxFile
  /\ Retention \in Nat /\ MaxTime \in Nat /\ MaxRecords \in Nat
  /\ Off \in Script /\ EmptyAfter(0) \in File
<1>1. MaxFile \in Nat \ {0} /\ MaxRecord \in Nat \ {0} /\ MaxTime \in Nat
  BY LogSizes, LogBounds
<1>2. Off \in Script /\ EmptyAfter(0) \in File
  BY <1>1 DEF Off, Script, Steps, EmptyAfter, File
<1> QED
  BY <1>1, <1>2, LogSizes, LogBounds

LEMMA EmptyIsFile ==
  ASSUME NEW n \in Nat
  PROVE  EmptyAfter(n) \in File
  BY SizesAreNumbers DEF EmptyAfter, File

LEMMA FilesAre ==
  ASSUME LogTypeOK
  PROVE  /\ \A file : file \in Files <=> file = active \/ \E i \in DOMAIN closed : file = closed[i]
         /\ \A i \in DOMAIN closed : closed[i] \in File
  BY DEF Files, Range, LogTypeOK

\* Whose turn it is, and what it may change of the others.
LEMMA OthersStay ==
  ASSUME LogTypeOK, NEW w \in Scripts, ScriptStep(w)
  PROVE  /\ \A v \in Scripts \ {w} : script'[v] = script[v]
         /\ script' \in [Scripts -> Script]
         /\ holder' \in Scripts \cup {None}
         /\ clock' = clock
<1> USE DEF LogTypeOK, At, GoTo, files
<1>1. /\ script[w] \in Script /\ Off \in Script /\ active.upto \in Nat
      /\ MaxRecord \in Nat /\ 0 \in 0..MaxRecord /\ 1..MaxRecord \subseteq 0..MaxRecord
  BY SizesAreNumbers DEF File
<1>0. /\ \A s \in Script, pc \in Steps : [s EXCEPT !.pc = pc] \in Script
      /\ \A s \in Script : [s EXCEPT !.effect = TRUE] \in Script
  BY DEF Script, Steps
<1>2. CASE \/ StartScript(w) \/ CallLogger(w) \/ CrossBoundary(w) \/ EndScript(w)
           \/ TakeLock(w) \/ MaintainRotate(w) \/ MaintainExpire(w) \/ MaintainEvict(w)
           \/ MakeRoom(w) \/ WriteRecord(w)
  <2>1. \A pc \in Steps : [script EXCEPT ![w].pc = pc] \in [Scripts -> Script]
    BY <1>0, <1>1
  <2>2. \/ \E pc \in Steps : script' = [script EXCEPT ![w].pc = pc]
        \/ script' = [script EXCEPT ![w].effect = TRUE]
        \/ script' = [script EXCEPT ![w] = Off]
        \/ script' = [script EXCEPT ![w] = [Off EXCEPT !.pc = "lock"]]
        \/ script' = script
    BY <1>2 DEF StartScript, CallLogger, CrossBoundary, EndScript, TakeLock,
       MaintainRotate, MaintainExpire, MaintainEvict, MakeRoom, WriteRecord, Steps
  <2>3. holder' \in {w, holder} /\ clock' = clock
    BY <1>2 DEF StartScript, CallLogger, CrossBoundary, EndScript, TakeLock,
       MaintainRotate, MaintainExpire, MaintainEvict, MakeRoom, WriteRecord
  <2>4. script[w].pc \in Steps /\ [Off EXCEPT !.pc = "lock"] \in Script
    BY <1>1 DEF Script, Steps, Off
  <2>5. script' \in [Scripts -> Script]
    BY <1>0, <1>1, <2>1, <2>2, <2>4
  <2> QED
    BY <2>2, <2>3, <2>5
<1>3. CASE Maintained(w)
  <2>1. \E p \in {"rotate", "fit"}, n \in 0..MaxRecord :
            script' = [script EXCEPT ![w] = [script[w] EXCEPT !.pc = p, !.need = n]]
    <3>1. CASE GoTo(w, "fit")
      <4>1. /\ script[w].need \in 0..MaxRecord
            /\ [script[w] EXCEPT !.pc = "fit"] = [script[w] EXCEPT !.pc = "fit", !.need = script[w].need]
        BY <1>1 DEF Script
      <4> QED
        BY <3>1, <4>1
    <3>2. CASE \E n \in 1..MaxRecord : script' = [script EXCEPT ![w].pc = "rotate", ![w].need = n]
      BY <1>1, <3>2 DEF Script
    <3> QED
      BY <1>3, <3>1, <3>2 DEF Maintained
  <2>2. \A p \in {"rotate", "fit"}, n \in 0..MaxRecord :
            [script[w] EXCEPT !.pc = p, !.need = n] \in Script
    BY <1>1 DEF Script, Steps
  <2>3. script' \in [Scripts -> Script]
    BY <2>1, <2>2
  <2> QED
    BY <1>3, <2>1, <2>3 DEF Maintained
<1>6. CASE Acknowledge(w)
  <2>1. \E b \in Nat :
            script' = [script EXCEPT ![w] = [script[w] EXCEPT !.pc = "run", !.need = 0, !.begun = b]]
    BY <1>1, <1>6 DEF Acknowledge, Script
  <2>2. \A b \in Nat : [script[w] EXCEPT !.pc = "run", !.need = 0, !.begun = b] \in Script
    BY <1>1 DEF Script, Steps
  <2>3. script' \in [Scripts -> Script]
    BY <2>1, <2>2
  <2> QED
    BY <1>6, <2>1, <2>3 DEF Acknowledge
<1>4. ASSUME Unavailable(w) \/ Die(w)
      PROVE  /\ \A v \in Scripts \ {w} : script'[v] = script[v]
             /\ script' \in [Scripts -> Script]
             /\ holder' \in Scripts \cup {None}
  <2>1. script'[w] = Off \/ script'[w] = [script[w] EXCEPT !.pc = "run", !.need = 0]
    BY <1>4 DEF Unavailable, Die
  <2>2. script' = [script EXCEPT ![w] = script'[w]] /\ holder' \in {None, holder}
    BY <1>4 DEF Unavailable, Die
  <2>3. [script[w] EXCEPT !.pc = "run", !.need = 0] \in Script
    BY <1>1 DEF Script, Steps
  <2>4. script'[w] \in Script
    BY <1>1, <2>1, <2>3
  <2> QED
    BY <2>2, <2>4
<1>5. CASE LockTimesOut(w) \/ Refuse(w) \/ WritePart(w) \/ CallFails(w) \/ Crash(w)
  BY <1>4, <1>5 DEF LockTimesOut, Refuse, WritePart, CallFails, Crash
<1> QED
  BY <1>2, <1>3, <1>5, <1>6 DEF ScriptStep

-----------------------------------------------------------------------------

\* The four ways in which the files change.
Rotated == ~torn /\ active.size > 0 /\ \E stamp \in {active.stamp, clock} : Rotate(stamp)
Dropped == closed # <<>> /\ closed' = RemoveAt(closed, 1) /\ UNCHANGED <<active, torn>>
Written(need) ==
    /\ active' = [active EXCEPT !.upto = @ + 1, !.size = @ + need, !.stamp = clock]
    /\ UNCHANGED <<closed, torn>>
Damaged(need) ==
    /\ \E part \in 1..need : active' = [active EXCEPT !.size = @ + part, !.stamp = clock]
    /\ torn' = TRUE /\ UNCHANGED closed
FilesChange(w) ==
    \/ At(w, "rotate") /\ script'[w].pc = "expire" /\ Rotated
    \/ At(w, "fit") /\ script'[w].pc = "rotate" /\ Rotated
    \/ script[w].pc \in {"expire", "evict"} /\ UNCHANGED script /\ Dropped
    \/ At(w, "write") /\ script'[w].pc = "synced" /\ Written(script[w].need)
    \/ At(w, "write") /\ script'[w].pc \in {"off", "run"} /\ Damaged(script[w].need)

LEMMA OldestIsFirst ==
  ASSUME LogTypeOK, Ordered, closed # <<>>
  PROVE  /\ OldestOf(DOMAIN closed) = 1
         /\ LET due == {i \in DOMAIN closed : Expired(closed[i])}
            IN due # {} => OldestOf(due) = 1
<1>0. /\ closed \in Seq(File) /\ Len(closed) \in Nat \ {0} /\ DOMAIN closed = 1..Len(closed)
      /\ 1 \in DOMAIN closed
  BY DEF LogTypeOK
<1>1. \A due \in SUBSET DOMAIN closed : 1 \in due => OldestOf(due) = 1
  <2> TAKE due \in SUBSET DOMAIN closed
  <2> HAVE 1 \in due
  <2>1. \A j \in due : 1 <= j
    BY <1>0
  <2>2. \A i \in due : (\A j \in due : i <= j) => i = 1
    BY <1>0
  <2> QED
    BY <2>1, <2>2 DEF OldestOf
<1>2. ASSUME NEW i \in DOMAIN closed, Expired(closed[i]) PROVE Expired(closed[1])
  <2>1. closed[i] \in File /\ closed[1] \in File
    BY <1>0
  <2>2. /\ closed[1].stamp <= closed[i].stamp
        /\ closed[1].stamp \in Nat /\ closed[i].stamp \in Nat /\ clock \in Nat /\ Retention \in Nat
    <3>1. closed[1].stamp \in 0..MaxTime /\ closed[i].stamp \in 0..MaxTime /\ clock \in 0..MaxTime
      BY <2>1 DEF File, LogTypeOK
    <3>2. i = 1 \/ 1 < i
      BY <1>0
    <3>3. closed[1].stamp <= closed[i].stamp
      BY <1>0, <3>1, <3>2 DEF Ordered
    <3> QED
      BY <3>1, <3>3, SizesAreNumbers
  <2> QED
    BY <1>2, <2>2 DEF Expired
<1> QED
  BY <1>0, <1>1, <1>2

LEMMA HowFilesChange ==
  ASSUME LogInv, NEW w \in Scripts, ScriptStep(w)
  PROVE  UNCHANGED files \/ FilesChange(w)
<1> USE DEF LogInv, LogTypeOK, At, GoTo, files
<1>1. /\ script[w] \in Script /\ active \in File /\ closed \in Seq(File)
      /\ active.size \in Nat /\ script[w].need \in 0..MaxRecord
      /\ MaxFile \in Nat \ {0} /\ MaxRecord \in Nat /\ MaxRecord <= MaxFile
  BY SizesAreNumbers DEF Script, File
<1>0. \A p : script' = [script EXCEPT ![w].pc = p] => script'[w].pc = p
  BY <1>1 DEF Script
<1>2. CASE MaintainRotate(w)
  BY <1>0, <1>2 DEF MaintainRotate, Readable, FilesChange, Rotated
<1>3. CASE MakeRoom(w)
  <2>1. CASE active.size + script[w].need > MaxFile
    <3>1. active.size > 0
      BY <1>1, <2>1
    <3> QED
      BY <1>0, <1>3, <2>1, <3>1 DEF MakeRoom, Readable, FilesChange, Rotated
  <2>2. CASE ~(active.size + script[w].need > MaxFile)
    BY <1>3, <2>2 DEF MakeRoom
  <2> QED
    BY <2>1, <2>2
<1>4. CASE MaintainExpire(w)
  <2> DEFINE due == {i \in DOMAIN closed : Expired(closed[i])}
  <2>1. CASE due = {}
    BY <1>4, <2>1 DEF MaintainExpire
  <2>2. CASE due # {}
    <3>1. closed # <<>>
      BY <2>2
    <3>2. OldestOf(due) = 1
      BY <2>2, <3>1, OldestIsFirst
    <3> QED
      BY <1>4, <2>2, <3>1, <3>2 DEF MaintainExpire, FilesChange, Dropped, Delete
  <2> QED
    BY <2>1, <2>2
<1>5. CASE MaintainEvict(w)
  BY <1>5, OldestIsFirst DEF MaintainEvict, Evictable, FilesChange, Dropped, Delete
<1>6. CASE WriteRecord(w)
  BY <1>1, <1>6 DEF WriteRecord, FilesChange, Written
<1>7. CASE WritePart(w)
  <2>1. script'[w].pc \in {"off", "run"}
    <3>1. script'[w] = Off \/ script'[w] = [script[w] EXCEPT !.pc = "run", !.need = 0]
      BY <1>7 DEF WritePart, Unavailable, Die
    <3>2. [script[w] EXCEPT !.pc = "run", !.need = 0].pc = "run"
      BY <1>1 DEF Script
    <3>3. Off.pc = "off"
      BY DEF Off
    <3> QED
      BY <3>1, <3>2, <3>3, Zenon
  <2> QED
    BY <1>7, <2>1 DEF WritePart, FilesChange, Damaged
<1>8. ASSUME ~(\/ MaintainRotate(w) \/ MakeRoom(w) \/ MaintainExpire(w)
              \/ MaintainEvict(w) \/ WriteRecord(w) \/ WritePart(w))
      PROVE  UNCHANGED files
  BY <1>8 DEF ScriptStep, StartScript, CallLogger, CrossBoundary, EndScript, TakeLock, LockTimesOut,
     Refuse, Maintained, Acknowledge, CallFails, Crash
<1> QED
  BY <1>2, <1>3, <1>4, <1>5, <1>6, <1>7, <1>8

-----------------------------------------------------------------------------

\* The six ways in which a script moves.
Leaves(w) ==
    /\ \/ script'[w] = Off
       \/ MayGoOn(w) /\ script'[w] = [script[w] EXCEPT !.pc = "run", !.need = 0]
    /\ holder' = holder \/ (holder = w /\ holder' = None)
Calls(w) ==
    /\ script'[w].pc = "lock" /\ holder' = holder
    /\ \/ ~At(w, "synced") /\ script'[w] = [Off EXCEPT !.pc = "lock"]
       \/ At(w, "run") /\ script'[w] = [script[w] EXCEPT !.pc = "lock"]
Crosses(w) ==
    /\ At(w, "run") /\ w \in Mutating /\ holder' = holder
    /\ script'[w] = [script[w] EXCEPT !.effect = TRUE]
Takes(w) ==
    /\ At(w, "lock") /\ holder = None /\ holder' = w
    /\ script'[w] = [script[w] EXCEPT !.pc = "rotate"]
Proceeds(w) ==
    /\ script[w].pc \in CallSteps /\ ~At(w, "synced")
    /\ script'[w].pc \in CallSteps /\ holder' = holder
    /\ script'[w].effect = script[w].effect /\ script'[w].begun = script[w].begun
    /\ script'[w].pc = "rotate" \/ ~At(w, "rotate") \/ ~torn
    /\ script'[w].pc = "synced" => At(w, "write") /\ active'.upto = active.upto + 1
    /\ script'[w].pc = "write" =>
        UNCHANGED files /\ active.size + script'[w].need <= MaxFile
Acknowledged(w) ==
    /\ At(w, "synced") /\ holder' = None /\ UNCHANGED files
    /\ script'[w] = [script[w] EXCEPT !.pc = "run", !.need = 0,
                                      !.begun = IF MayGoOn(w) THEN @ ELSE active.upto]

LEMMA HowScriptsMove ==
  ASSUME LogInv, NEW w \in Scripts, ScriptStep(w)
  PROVE  Leaves(w) \/ Calls(w) \/ Crosses(w) \/ Takes(w) \/ Proceeds(w) \/ Acknowledged(w)
<1>0. /\ script \in [Scripts -> Script] /\ script[w] \in Script /\ Off \in Script
      /\ script[w] = [pc |-> script[w].pc, effect |-> script[w].effect,
                      need |-> script[w].need, begun |-> script[w].begun]
      /\ active \in File
  BY SizesAreNumbers DEF LogInv, LogTypeOK, Script
<1>1. ASSUME NEW p, script' = [script EXCEPT ![w].pc = p]
      PROVE  /\ script'[w] = [script[w] EXCEPT !.pc = p] /\ script'[w].pc = p
             /\ script'[w].effect = script[w].effect /\ script'[w].begun = script[w].begun
  BY <1>0, <1>1
<1>2. Unavailable(w) \/ Die(w) => Leaves(w)
  BY <1>0 DEF Leaves, Unavailable, Die
<1>3. CASE LockTimesOut(w) \/ Refuse(w) \/ WritePart(w) \/ CallFails(w) \/ Crash(w)
  BY <1>2, <1>3 DEF LockTimesOut, Refuse, WritePart, CallFails, Crash
<1>4. CASE EndScript(w)
  BY <1>0, <1>4 DEF EndScript, Leaves
<1>5. CASE StartScript(w)
  <2>1. script'[w] = [Off EXCEPT !.pc = "lock"] /\ [Off EXCEPT !.pc = "lock"].pc = "lock"
    BY <1>0, <1>5 DEF StartScript, Off
  <2>2. holder' = holder /\ ~At(w, "synced")
    BY <1>5 DEF StartScript, At
  <2> QED
    BY <2>1, <2>2 DEF Calls
<1>6. CASE CallLogger(w)
  BY <1>0, <1>1, <1>6 DEF CallLogger, Calls, GoTo
<1>7. CASE CrossBoundary(w)
  BY <1>0, <1>7 DEF CrossBoundary, Crosses
<1>8. CASE TakeLock(w)
  BY <1>0, <1>1, <1>8 DEF TakeLock, Takes, GoTo
<1>9. CASE MaintainRotate(w) \/ MaintainEvict(w)
  BY <1>0, <1>1, <1>9 DEF MaintainRotate, MaintainEvict, Readable, Proceeds,
     CallSteps, Steps, GoTo, At
<1>14. CASE MakeRoom(w)
  <2>1. /\ At(w, "fit") /\ holder' = holder
        /\ \/ GoTo(w, "rotate")
           \/ GoTo(w, "write") /\ UNCHANGED files /\ ~(active.size + script[w].need > MaxFile)
    BY <1>14 DEF MakeRoom
  <2>2. /\ active.size \in Nat /\ script[w].need \in Nat /\ MaxFile \in Nat
    BY <1>0, SizesAreNumbers DEF File, Script
  <2>3. GoTo(w, "write") => script'[w].need = script[w].need
    BY <1>0 DEF GoTo
  <2>4. script'[w].pc = "write" => UNCHANGED files /\ active.size + script'[w].need <= MaxFile
    <3>1. CASE GoTo(w, "rotate")
      BY <1>1, <3>1 DEF GoTo
    <3>2. CASE ~GoTo(w, "rotate")
      BY <2>1, <2>2, <2>3, <3>2
    <3> QED
      BY <3>1, <3>2
  <2>5. \E p \in {"rotate", "write"} : GoTo(w, p)
    BY <2>1
  <2>6. /\ script'[w].pc \in {"rotate", "write"}
        /\ script'[w].effect = script[w].effect /\ script'[w].begun = script[w].begun
    BY <1>1, <2>5 DEF GoTo
  <2> QED
    BY <2>1, <2>4, <2>6 DEF Proceeds, CallSteps, Steps, At
<1>10. CASE MaintainExpire(w)
  BY <1>0, <1>1, <1>10 DEF MaintainExpire, Proceeds, CallSteps, Steps, GoTo, At
<1>11. CASE WriteRecord(w)
  BY <1>0, <1>1, <1>11 DEF WriteRecord, Proceeds, CallSteps, Steps, GoTo, At, File
<1>12. CASE Maintained(w)
  <2>1. CASE GoTo(w, "fit")
    BY <1>0, <1>1, <1>12, <2>1 DEF Maintained, Proceeds, CallSteps, Steps, GoTo, At
  <2>2. CASE \E n \in 1..MaxRecord : script' = [script EXCEPT ![w].pc = "rotate", ![w].need = n]
    BY <1>0, <1>12, <2>2 DEF Maintained, Proceeds, CallSteps, Steps, At
  <2> QED
    BY <1>12, <2>1, <2>2 DEF Maintained
<1>13. CASE Acknowledge(w)
  BY <1>0, <1>13 DEF Acknowledge, Acknowledged
<1> QED
  BY <1>3, <1>4, <1>5, <1>6, <1>7, <1>8, <1>9, <1>10, <1>11, <1>12, <1>13,
     <1>14 DEF ScriptStep

LEMMA WhereMovesLead ==
  ASSUME LogInv, NEW w \in Scripts
  PROVE  /\ Leaves(w) => script'[w].pc \in {"off", "run"}
         /\ Crosses(w) => script'[w].pc = "run"
         /\ Takes(w) => script'[w].pc = "rotate"
         /\ Acknowledged(w) => script'[w].pc = "run"
<1>1. /\ Off.pc = "off"
      /\ [script[w] EXCEPT !.pc = "run", !.need = 0].pc = "run"
      /\ [script[w] EXCEPT !.effect = TRUE].pc = script[w].pc
      /\ [script[w] EXCEPT !.pc = "rotate"].pc = "rotate"
      /\ \A b : [script[w] EXCEPT !.pc = "run", !.need = 0, !.begun = b].pc = "run"
  BY SizesAreNumbers DEF LogInv, LogTypeOK, Script, Off
<1>2. Leaves(w) => script'[w].pc \in {"off", "run"}
  BY <1>1, Zenon DEF Leaves
<1>3. Crosses(w) => script'[w].pc = "run"
  BY <1>1, Zenon DEF Crosses, At
<1>4. Takes(w) => script'[w].pc = "rotate"
  BY <1>1, Zenon DEF Takes
<1>5. Acknowledged(w) => script'[w].pc = "run"
  BY <1>1, Zenon DEF Acknowledged
<1> QED
  BY <1>2, <1>3, <1>4, <1>5

LEMMA ScriptKeepsControl ==
  ASSUME LogInv, NEW w \in Scripts, ScriptStep(w)
  PROVE  Control'
<1>0. /\ script[w] \in Script /\ script[w].begun \in Nat /\ active.upto \in Nat /\ w # None
      /\ script[w].effect \in BOOLEAN /\ torn \in BOOLEAN
      /\ \A v \in Scripts \ {w} : script'[v] = script[v] /\ v # None
  BY OthersStay, LogNames DEF LogInv, LogTypeOK, Script, File
<1>1. Leaves(w) \/ Calls(w) \/ Crosses(w) \/ Takes(w) \/ Proceeds(w) \/ Acknowledged(w)
  BY HowScriptsMove
<1>2. UNCHANGED files \/ FilesChange(w)
  BY HowFilesChange
<1>3. active'.upto \in {active.upto, active.upto + 1}
  <2>0. active \in File
    BY DEF LogInv, LogTypeOK
  <2>1. CASE Rotated
    BY <2>1 DEF Rotated, Rotate, EmptyAfter
  <2>2. CASE Dropped \/ UNCHANGED files
    BY <2>2 DEF Dropped, files
  <2>3. ASSUME NEW need, Written(need) \/ Damaged(need)
        PROVE  active'.upto \in {active.upto, active.upto + 1}
    BY <2>0, <2>3 DEF Written, Damaged, File
  <2> QED
    BY <1>2, <2>1, <2>2, <2>3 DEF FilesChange
<1>4. torn' => torn \/ (At(w, "write") /\ script'[w].pc \in {"off", "run"})
  BY <1>2 DEF FilesChange, Rotated, Rotate, Dropped, Written, files
<1>5. /\ Leaves(w) => script'[w].pc \in {"off", "run"}
      /\ Crosses(w) => script'[w].pc = "run"
      /\ Takes(w) => script'[w].pc = "rotate"
      /\ Acknowledged(w) => script'[w].pc = "run"
  BY WhereMovesLead
<1>6. Holding'
  <2>1. script'[w].pc \in CallSteps => holder' = w
    BY <1>0, <1>1, <1>5 DEF Calls, Takes, Proceeds, CallSteps, LogInv, Control, Holding
  <2>2. ASSUME NEW v \in Scripts \ {w}, holder = v PROVE holder' = v
    BY <1>0, <1>1, <2>2 DEF Leaves, Calls, Crosses, Takes, Proceeds, Acknowledged, At, CallSteps,
       Steps, LogInv, Control, Holding
  <2> QED
    BY <1>0, <2>1, <2>2 DEF LogInv, Control, Holding
<1>7. TornStops'
  <2>1. ASSUME torn' PROVE script'[w].pc \notin CallSteps \ {"rotate"}
    BY <1>0, <1>1, <1>4, <1>5, <2>1 DEF Calls, Proceeds, CallSteps, At, LogInv, Control, TornStops
  <2>2. ASSUME torn', NEW v \in Scripts \ {w} PROVE script[v].pc \notin CallSteps \ {"rotate"}
    BY <1>0, <1>4, <2>2 DEF CallSteps, Steps, At, LogInv, Control, TornStops, Holding
  <2> QED
    BY <1>0, <2>1, <2>2 DEF TornStops
<1>8. Begun'
  <2>0. /\ script[w].effect \/ (At(w, "run") /\ w \in Mutating) => script[w].begun \in 1..active.upto
        /\ At(w, "synced") => active.upto >= 1
    BY DEF LogInv, Control, Begun
  <2>1. script'[w].pc = "synced" => active'.upto >= 1
    BY <1>0, <1>1, <1>5 DEF Calls, Proceeds
  <2>2. script'[w].effect \/ (script'[w].pc = "run" /\ w \in Mutating)
            => script'[w].begun \in 1..active'.upto
    <3>1. CASE Leaves(w)
      <4>1. CASE script'[w] = Off
        BY <4>1 DEF Off
      <4>2. CASE MayGoOn(w) /\ script'[w] = [script[w] EXCEPT !.pc = "run", !.need = 0]
        <5>1. script'[w].effect = script[w].effect /\ script'[w].begun = script[w].begun
          BY <1>0, <4>2 DEF Script
        <5> QED
          BY <1>0, <1>3, <2>0, <4>2, <5>1 DEF MayGoOn
      <4> QED
        BY <3>1, <4>1, <4>2 DEF Leaves
    <3>2. CASE Calls(w)
      <4>1. ~[Off EXCEPT !.pc = "lock"].effect
        BY DEF Off
      <4>2. [script[w] EXCEPT !.pc = "lock"].effect = script[w].effect
            /\ [script[w] EXCEPT !.pc = "lock"].begun = script[w].begun
        BY <1>0 DEF Script
      <4>3. /\ script'[w].pc = "lock"
            /\ script'[w].effect => script[w].effect /\ script'[w].begun = script[w].begun
        BY <3>2, <4>1, <4>2 DEF Calls
      <4> QED
        BY <1>0, <1>3, <2>0, <4>3
    <3>3. CASE Crosses(w)
      BY <1>0, <1>3, <2>0, <3>3 DEF Crosses, Script
    <3>4. CASE Takes(w)
      BY <1>0, <1>3, <2>0, <3>4 DEF Takes, Script
    <3>5. CASE Proceeds(w)
      BY <1>0, <1>3, <2>0, <3>5 DEF Proceeds, CallSteps
    <3>6. CASE Acknowledged(w)
      <4>1. /\ script'[w].effect = script[w].effect
            /\ script'[w].begun = IF MayGoOn(w) THEN script[w].begun ELSE active.upto
            /\ active' = active
        BY <1>0, <3>6 DEF Acknowledged, Script, files
      <4> QED
        BY <1>0, <2>0, <3>6, <4>1 DEF Acknowledged, MayGoOn
    <3> QED
      BY <1>1, <3>1, <3>2, <3>3, <3>4, <3>5, <3>6
  <2>3. ASSUME NEW v \in Scripts \ {w}
        PROVE  /\ script[v].effect \/ (At(v, "run") /\ v \in Mutating)
                    => script[v].begun \in 1..active'.upto
               /\ At(v, "synced") => active'.upto >= 1
    BY <1>0, <1>3 DEF LogInv, Control, Begun
  <2> QED
    BY <1>0, <2>1, <2>2, <2>3 DEF Begun, At
<1> QED
  BY <1>6, <1>7, <1>8 DEF Control

-----------------------------------------------------------------------------

LEMMA WithoutFirst ==
  ASSUME NEW S, NEW s \in Seq(S), s # <<>>
  PROVE  /\ RemoveAt(s, 1) \in Seq(S) /\ Len(RemoveAt(s, 1)) = Len(s) - 1
         /\ \A i \in 1..(Len(s) - 1) : RemoveAt(s, 1)[i] = s[i + 1]
<1>1. Len(s) \in Nat \ {0}
  OBVIOUS
<1>2. SubSeq(s, 1, 0) = <<>>
  OBVIOUS
<1>3. /\ SubSeq(s, 2, Len(s)) \in Seq(S) /\ Len(SubSeq(s, 2, Len(s))) = Len(s) - 1
      /\ \A i \in 1..(Len(s) - 1) : SubSeq(s, 2, Len(s))[i] = s[i + 1]
  <2>1. \A i \in 2..Len(s) : s[i] \in S
    BY <1>1
  <2>2. /\ SubSeq(s, 2, Len(s)) \in Seq(S)
        /\ Len(SubSeq(s, 2, Len(s))) = IF 2 <= Len(s) THEN Len(s) - 2 + 1 ELSE 0
        /\ \A i \in 1..(Len(s) - 2 + 1) : SubSeq(s, 2, Len(s))[i] = s[2 + i - 1]
    BY <1>1, <2>1, SubSeqProperties
  <2>3. \A i \in 1..(Len(s) - 1) : 2 + i - 1 = i + 1 /\ i \in 1..(Len(s) - 2 + 1)
    BY <1>1
  <2> QED
    BY <1>1, <2>2, <2>3
<1>4. <<>> \o SubSeq(s, 2, Len(s)) = SubSeq(s, 2, Len(s))
  BY <1>3, ConcatEmptySeq
<1>5. RemoveAt(s, 1) = SubSeq(s, 2, Len(s))
  BY <1>2, <1>4 DEF RemoveAt
<1> QED
  BY <1>3, <1>5

\* What the steps on the files have in common.
LEMMA FilesAreTypes ==
  ASSUME LogInv
  PROVE  /\ active \in File /\ closed \in Seq(File) /\ clock \in 0..MaxTime
         /\ active.from \in Nat /\ active.upto \in Nat /\ active.size \in Nat
         /\ active.stamp \in Nat /\ active.stamp \in 0..MaxTime /\ clock \in Nat /\ MaxTime \in Nat
         /\ Len(closed) \in Nat /\ DOMAIN closed = 1..Len(closed)
         /\ \A i \in DOMAIN closed :
                /\ closed[i] \in File /\ closed[i].from \in Nat /\ closed[i].upto \in Nat
                /\ closed[i].size \in Nat /\ closed[i].stamp \in Nat
<1>1. /\ active \in File /\ closed \in Seq(File) /\ clock \in 0..MaxTime /\ MaxTime \in Nat
      /\ \A i \in DOMAIN closed : closed[i] \in File
  BY SizesAreNumbers DEF LogInv, LogTypeOK
<1>2. \A file \in File : /\ file.from \in Nat /\ file.upto \in Nat /\ file.size \in Nat
                        /\ file.stamp \in Nat /\ file.stamp \in 0..MaxTime
  BY <1>1 DEF File
<1>3. Len(closed) \in Nat /\ DOMAIN closed = 1..Len(closed)
  BY <1>1
<1> QED
  BY <1>1, <1>2, <1>3

\* closed after a rotation.
LEMMA RotatedFiles ==
  ASSUME LogInv, NEW stamp \in {active.stamp, clock}, Rotate(stamp)
  PROVE  LET stamped == [active EXCEPT !.stamp = stamp] IN
         /\ stamped \in File /\ stamp \in Nat
         /\ stamped.from = active.from /\ stamped.upto = active.upto
         /\ stamped.size = active.size /\ stamped.stamp = stamp
         /\ closed' \in Seq(File) /\ DOMAIN closed' = 1..(Len(closed) + 1)
         /\ \A i \in DOMAIN closed : closed'[i] = closed[i]
         /\ closed'[Len(closed) + 1] = stamped
         /\ active' \in File
         /\ active'.from = active.upto + 1 /\ active'.upto = active.upto
         /\ active'.size = 0 /\ active'.stamp = 0
<1> DEFINE stamped == [active EXCEPT !.stamp = stamp]
<1>1. /\ stamped \in File /\ stamp \in Nat
      /\ stamped.from = active.from /\ stamped.upto = active.upto
      /\ stamped.size = active.size /\ stamped.stamp = stamp
  BY FilesAreTypes DEF File
<1>2. closed' = Append(closed, stamped) /\ active' = EmptyAfter(active.upto)
  BY DEF Rotate
<1>3. /\ active' \in File /\ active'.from = active.upto + 1 /\ active'.upto = active.upto
      /\ active'.size = 0 /\ active'.stamp = 0
  BY <1>2, FilesAreTypes, EmptyIsFile DEF EmptyAfter
<1>4. /\ closed' \in Seq(File) /\ DOMAIN closed' = 1..(Len(closed) + 1)
      /\ \A i \in DOMAIN closed : closed'[i] = closed[i]
      /\ closed'[Len(closed) + 1] = stamped
  <2> HIDE DEF stamped
  <2> QED
    BY <1>1, <1>2, FilesAreTypes
<1> QED
  BY <1>1, <1>3, <1>4

LEMMA DroppedFiles ==
  ASSUME LogInv, Dropped
  PROVE  /\ closed' \in Seq(File) /\ Len(closed) \in Nat \ {0} /\ DOMAIN closed' = 1..(Len(closed) - 1)
         /\ \A i \in DOMAIN closed' : i + 1 \in DOMAIN closed /\ closed'[i] = closed[i + 1]
         /\ active' = active
<1>1. closed # <<>> /\ closed' = RemoveAt(closed, 1) /\ active' = active
  BY DEF Dropped
<1>2. /\ closed' \in Seq(File) /\ Len(closed') = Len(closed) - 1
      /\ \A i \in 1..(Len(closed) - 1) : closed'[i] = closed[i + 1]
  BY <1>1, WithoutFirst, FilesAreTypes
<1>3. Len(closed) \in Nat \ {0}
  BY <1>1, FilesAreTypes
<1>4. DOMAIN closed' = 1..(Len(closed) - 1)
  BY <1>2
<1> QED
  BY <1>1, <1>2, <1>3, <1>4, FilesAreTypes

LEMMA WrittenFiles ==
  ASSUME LogInv, NEW need \in Nat, Written(need) \/ Damaged(need)
  PROVE  \E part \in 0..need :
          /\ active' \in File /\ closed' = closed
          /\ active'.from = active.from /\ active'.size = active.size + part
          /\ active'.upto = active.upto + (IF Written(need) THEN 1 ELSE 0)
          /\ active'.stamp = clock
<1>0. /\ active = [from |-> active.from, upto |-> active.upto, size |-> active.size,
                   stamp |-> active.stamp]
      /\ active.size \in Nat /\ active.upto \in Nat /\ active.from \in Nat /\ clock \in 0..MaxTime
  BY FilesAreTypes DEF File
<1>1. CASE Written(need)
  <2>1. active' = [from |-> active.from, upto |-> active.upto + 1,
                   size |-> active.size + need, stamp |-> clock] /\ closed' = closed
    BY <1>0, <1>1 DEF Written
  <2>2. active' \in File
    BY <1>0, <2>1 DEF File
  <2>3. need \in 0..need
    OBVIOUS
  <2> QED
    BY <1>1, <2>1, <2>2, <2>3
<1>2. CASE Damaged(need) /\ ~Written(need)
  <2>1. PICK part \in 1..need : active' = [active EXCEPT !.size = @ + part, !.stamp = clock]
    BY <1>2 DEF Damaged
  <2>2. part \in 0..need /\ part \in Nat
    BY <2>1
  <2>3. active' = [from |-> active.from, upto |-> active.upto,
                   size |-> active.size + part, stamp |-> clock]
    BY <1>0, <2>1
  <2>4. active' \in File
    BY <1>0, <2>2, <2>3 DEF File
  <2>5. closed' = closed
    BY <1>2 DEF Damaged
  <2>6. /\ active'.from = active.from /\ active'.size = active.size + part
        /\ active'.upto = active.upto /\ active'.stamp = clock /\ active.upto = active.upto + 0
    BY <1>0, <2>3
  <2> QED
    BY <1>2, <2>2, <2>4, <2>5, <2>6
<1> QED
  BY <1>1, <1>2

-----------------------------------------------------------------------------

\* A rotation closes the active file behind the others, in order.
LEMMA RotationKeepsFiles ==
  ASSUME LogInv, Rotated, clock' = clock
  PROVE  /\ active' \in File /\ closed' \in Seq(File)
         /\ \A file \in Files' : file.size <= MaxFile
         /\ Ordered' /\ Unbroken'
<1>0. PICK stamp \in {active.stamp, clock} : Rotate(stamp)
  BY DEF Rotated
<1>1. DEFINE n == Len(closed)
             stamped == [active EXCEPT !.stamp = stamp]
<1>2. /\ stamped \in File /\ stamp \in Nat
      /\ stamped.from = active.from /\ stamped.upto = active.upto
      /\ stamped.size = active.size /\ stamped.stamp = stamp
      /\ closed' \in Seq(File) /\ DOMAIN closed' = 1..(n + 1)
      /\ \A i \in DOMAIN closed : closed'[i] = closed[i]
      /\ closed'[n + 1] = stamped
      /\ active' \in File
      /\ active'.from = active.upto + 1 /\ active'.upto = active.upto
      /\ active'.size = 0 /\ active'.stamp = 0
  BY <1>0, RotatedFiles
<1>3. n \in Nat /\ DOMAIN closed = 1..n
  BY FilesAreTypes
<1> HIDE DEF n, stamped
<1>4. \A file : file \in Files' <=>
        file = active' \/ file = stamped \/ \E i \in DOMAIN closed : file = closed[i]
  <2>1. \A file : file \in Files' <=> file = active' \/ \E i \in DOMAIN closed' : file = closed'[i]
    BY DEF Files, Range
  <2>2. \A i : i \in DOMAIN closed' <=> i \in DOMAIN closed \/ i = n + 1
    BY <1>2, <1>3
  <2> QED
    BY <1>2, <2>1, <2>2
<1>5. ASSUME NEW file \in Files' PROVE file.size <= MaxFile
  <2>1. active.size <= MaxFile /\ \A i \in DOMAIN closed : closed[i].size <= MaxFile
    BY FilesAre DEF LogInv, Fitting
  <2> QED
    BY <1>2, <1>4, <1>5, <2>1, SizesAreNumbers
<1>6. Ordered'
  <2>1. active.size > 0 /\ stamp <= clock /\ stamp >= active.stamp /\ active.stamp \in Nat /\ clock \in Nat
    BY <1>0, FilesAreTypes DEF Rotated, LogInv, Ordered
  <2>2. active'.from \in 1..(active'.upto + 1) /\ active'.stamp <= clock'
    BY <1>2, FilesAreTypes
  <2>3. /\ active.from \in 1..(active.upto + 1)
        /\ \A i \in DOMAIN closed :
            /\ closed[i].from >= 1 /\ closed[i].upto < active.from
            /\ closed[i].stamp <= clock /\ closed[i].stamp <= active.stamp
            /\ \A j \in DOMAIN closed : i < j =>
                closed[i].upto < closed[j].from /\ closed[i].stamp <= closed[j].stamp
    BY <2>1 DEF LogInv, Ordered
  <2>4. ASSUME NEW i \in DOMAIN closed'
        PROVE  /\ closed'[i].from >= 1 /\ closed'[i].upto < active'.from
               /\ closed'[i].stamp <= clock'
               /\ \A j \in DOMAIN closed' : i < j =>
                   closed'[i].upto < closed'[j].from /\ closed'[i].stamp <= closed'[j].stamp
    <3>1. CASE i = n + 1
      <4>1. ~\E j \in DOMAIN closed' : i < j
        BY <1>2, <1>3, <3>1
      <4>2. stamped.from >= 1 /\ stamped.upto < active'.from /\ stamped.stamp <= clock'
        BY <1>2, <2>1, <2>3, FilesAreTypes
      <4> QED
        BY <1>2, <3>1, <4>1, <4>2
    <3>2. CASE i \in DOMAIN closed
      <4>1. /\ closed[i].from >= 1 /\ closed[i].upto < active.upto + 1
            /\ closed[i].upto < active.from /\ closed[i].stamp <= clock /\ closed[i].stamp <= stamp
        BY <2>1, <2>3, <3>2, FilesAreTypes, <1>2
      <4>2. ASSUME NEW j \in DOMAIN closed', i < j
            PROVE  closed'[i].upto < closed'[j].from /\ closed'[i].stamp <= closed'[j].stamp
        <5>1. j = n + 1 \/ j \in DOMAIN closed
          BY <1>2, <1>3
        <5> QED
          BY <1>2, <2>3, <3>2, <4>1, <4>2, <5>1
      <4> QED
        BY <1>2, <3>2, <4>1, <4>2
    <3> QED
      BY <1>2, <1>3, <3>1, <3>2
  <2> QED
    BY <1>2, <2>2, <2>4 DEF Ordered
<1>7. Unbroken'
  <2>1. PICK oldest \in 1..(active.upto + 1) :
          \A k \in Nat : Recorded(k) <=> oldest <= k /\ k <= active.upto
    BY DEF LogInv, Unbroken
  <2>2. ASSUME NEW k \in Nat PROVE Recorded(k)' <=> Recorded(k)
    <3>1. ~Holds(active', k) /\ (Holds(stamped, k) <=> Holds(active, k))
      BY <1>2, FilesAreTypes DEF Holds
    <3>2. Recorded(k) <=> Holds(active, k) \/ \E i \in DOMAIN closed : Holds(closed[i], k)
      BY FilesAre DEF LogInv, Recorded
    <3>3. Recorded(k)' <=> Holds(active', k) \/ Holds(stamped, k)
                            \/ \E i \in DOMAIN closed : Holds(closed[i], k)
      BY <1>4 DEF Recorded, Holds
    <3> QED
      BY <3>1, <3>2, <3>3
  <2> QED
    BY <1>2, <2>1, <2>2 DEF Unbroken
<1> QED
  BY <1>2, <1>5, <1>6, <1>7

\* A deletion takes the oldest records, and only those.
LEMMA DeletionKeepsFiles ==
  ASSUME LogInv, Dropped, clock' = clock
  PROVE  /\ active' \in File /\ closed' \in Seq(File)
         /\ \A file \in Files' : file.size <= MaxFile
         /\ Ordered' /\ Unbroken'
<1>1. /\ closed' \in Seq(File) /\ Len(closed) \in Nat \ {0} /\ DOMAIN closed' = 1..(Len(closed) - 1)
      /\ \A i \in DOMAIN closed' : i + 1 \in DOMAIN closed /\ closed'[i] = closed[i + 1]
      /\ active' = active /\ active' \in File
  BY DroppedFiles, FilesAreTypes
<1>2. \A i : i \in DOMAIN closed <=> i = 1 \/ \E j \in DOMAIN closed' : i = j + 1
  <2>1. DOMAIN closed = 1..Len(closed)
    BY FilesAreTypes
  <2>2. ASSUME NEW i \in 1..Len(closed), i # 1 PROVE i - 1 \in 1..(Len(closed) - 1) /\ i = (i - 1) + 1
    BY <1>1, <2>2
  <2>3. 1 \in 1..Len(closed)
    BY <1>1
  <2> QED
    BY <1>1, <2>1, <2>2, <2>3
<1>3. \A file : file \in Files' <=> file = active \/ \E i \in DOMAIN closed' : file = closed[i + 1]
  <2>1. \A file : file \in Files' <=> file = active' \/ \E i \in DOMAIN closed' : file = closed'[i]
    BY DEF Files, Range
  <2> QED
    BY <1>1, <2>1
<1>4. \A file : file \in Files <=> file = closed[1] \/ file \in Files'
  <2>1. \A file : file \in Files <=> file = active \/ \E i \in DOMAIN closed : file = closed[i]
    BY FilesAre DEF LogInv
  <2> QED
    BY <1>2, <1>3, <2>1
<1>5. \A file \in Files' : file.size <= MaxFile
  BY <1>4 DEF LogInv, Fitting
<1>6. Ordered'
  <2>1. \A i, j \in DOMAIN closed' : i < j => i + 1 < j + 1
    BY <1>1
  <2> QED
    BY <1>1, <2>1 DEF LogInv, Ordered
<1>7. Unbroken'
  <2>1. PICK oldest \in 1..(active.upto + 1) :
          \A k \in Nat : Recorded(k) <=> oldest <= k /\ k <= active.upto
    BY DEF LogInv, Unbroken
  <2>2. DEFINE first == closed[1]
  <2>3. /\ 1 \in DOMAIN closed /\ first.from \in Nat /\ first.upto \in Nat /\ first.from >= 1
        /\ active.from \in Nat /\ active.upto \in Nat /\ active.from <= active.upto + 1
        /\ first.upto < active.from
    BY <1>2, FilesAreTypes DEF LogInv, Ordered
  <2>4. ASSUME NEW file \in Files' PROVE first.upto < file.from
    <3>1. CASE file = active
      BY <2>3, <3>1
    <3>2. ASSUME NEW i \in DOMAIN closed', file = closed[i + 1] PROVE first.upto < file.from
      <4>1. 1 < i + 1 /\ i + 1 \in DOMAIN closed
        BY <1>1
      <4> QED
        BY <2>3, <3>2, <4>1 DEF LogInv, Ordered
    <3> QED
      BY <1>3, <2>4, <3>1, <3>2
  <2>5. \A file \in Files' : file.from \in Nat
    BY <1>1, <1>3, FilesAreTypes
  <2>6. ASSUME NEW k \in Nat PROVE Recorded(k)' <=> Recorded(k) /\ first.upto < k
    <3>1. Recorded(k)' <=> \E file \in Files' : Holds(file, k)
      BY DEF Recorded, Holds
    <3>2. Recorded(k) <=> Holds(first, k) \/ \E file \in Files' : Holds(file, k)
      BY <1>4 DEF Recorded
    <3>3. \A file \in Files' : Holds(file, k) => first.upto < k
      BY <2>3, <2>4, <2>5 DEF Holds
    <3>4. Holds(first, k) => ~(first.upto < k)
      BY <2>3 DEF Holds
    <3> QED
      BY <3>1, <3>2, <3>3, <3>4
  <2>7. DEFINE next == IF oldest > first.upto THEN oldest ELSE first.upto + 1
  <2> HIDE DEF first
  <2>8. next \in 1..(active.upto + 1) /\ oldest \in Nat
    BY <2>1, <2>3
  <2>9. ASSUME NEW k \in Nat PROVE Recorded(k)' <=> next <= k /\ k <= active.upto
    BY <2>1, <2>3, <2>6, <2>8
  <2> QED
    BY <1>1, <2>8, <2>9 DEF Unbroken
<1> QED
  BY <1>1, <1>5, <1>6, <1>7

\* A record or a part of one goes to the end of the active file, where it fits.
LEMMA WritingKeepsFiles ==
  ASSUME LogInv, NEW w \in Scripts, At(w, "write"), clock' = clock,
         Written(script[w].need) \/ Damaged(script[w].need)
  PROVE  /\ active' \in File /\ closed' \in Seq(File)
         /\ \A file \in Files' : file.size <= MaxFile
         /\ Ordered' /\ Unbroken'
<1> DEFINE need == script[w].need
<1>1. need \in Nat /\ MaxFile \in Nat /\ active.size + need <= MaxFile
  BY SizesAreNumbers DEF LogInv, LogTypeOK, Script, Fitting
<1>2. PICK part \in 0..need :
        /\ active' \in File /\ closed' = closed
        /\ active'.from = active.from /\ active'.size = active.size + part
        /\ active'.upto = active.upto + (IF Written(need) THEN 1 ELSE 0)
        /\ active'.stamp = clock
  BY <1>1, WrittenFiles
<1> HIDE DEF need
<1>3. PICK more \in {0, 1} : active'.upto = active.upto + more
  BY <1>2
<1>4. part \in Nat /\ more \in Nat
  BY <1>1, <1>2
<1>5. /\ \A file : file \in Files' <=> file = active' \/ \E i \in DOMAIN closed : file = closed[i]
      /\ \A file : file \in Files <=> file = active \/ \E i \in DOMAIN closed : file = closed[i]
  BY <1>2, FilesAre DEF Files, Range, LogInv
<1>6. ASSUME NEW file \in Files' PROVE file.size <= MaxFile
  <2>1. active'.size <= MaxFile
    BY <1>1, <1>2, <1>4, FilesAreTypes
  <2> QED
    BY <1>5, <1>6, <2>1 DEF LogInv, Fitting
<1>7. Ordered'
  <2>1. active'.from \in 1..(active'.upto + 1) /\ active'.stamp <= clock'
    BY <1>2, <1>3, <1>4, FilesAreTypes DEF LogInv, Ordered
  <2> QED
    BY <1>2, <2>1 DEF LogInv, Ordered
<1>8. Unbroken'
  <2>1. PICK oldest \in 1..(active.upto + 1) :
          \A k \in Nat : Recorded(k) <=> oldest <= k /\ k <= active.upto
    BY DEF LogInv, Unbroken
  <2>2. active.from \in 1..(active.upto + 1)
    BY DEF LogInv, Ordered
  <2>3. ASSUME NEW k \in Nat
        PROVE  Recorded(k)' <=> Recorded(k) \/ (active.upto < k /\ k <= active.upto + more)
    <3>1. Holds(active', k) <=> Holds(active, k) \/ (active.upto < k /\ k <= active.upto + more)
      BY <1>2, <1>3, <1>4, <2>2, FilesAreTypes DEF Holds
    <3>2. Recorded(k)' <=> \E file \in Files' : Holds(file, k)
      BY DEF Recorded, Holds
    <3> QED
      BY <1>5, <3>1, <3>2 DEF Recorded
  <2>4. oldest \in 1..(active'.upto + 1)
    BY <1>3, <1>4, <2>1, FilesAreTypes
  <2>5. ASSUME NEW k \in Nat PROVE Recorded(k)' <=> oldest <= k /\ k <= active'.upto
    BY <1>3, <1>4, <2>1, <2>3, FilesAreTypes
  <2> QED
    BY <2>4, <2>5 DEF Unbroken
<1> QED
  BY <1>2, <1>6, <1>7, <1>8, FilesAreTypes

LEMMA SameFilesAreKept ==
  ASSUME LogInv, UNCHANGED files, clock <= clock', clock' \in 0..MaxTime
  PROVE  /\ active' \in File /\ closed' \in Seq(File)
         /\ \A file \in Files' : file.size <= MaxFile
         /\ Ordered' /\ Unbroken'
<1>1. active' = active /\ closed' = closed /\ Files' = Files
  BY DEF files, Files, Range
<1>2. Ordered'
  <2>1. clock' \in Nat
    BY FilesAreTypes
  <2> QED
    BY <1>1, <2>1, FilesAreTypes DEF LogInv, Ordered
<1>3. Unbroken'
  BY <1>1 DEF LogInv, Unbroken, Recorded
<1> QED
  BY <1>1, <1>2, <1>3, FilesAreTypes DEF LogInv, Fitting

LEMMA ScriptKeepsLogInv ==
  ASSUME LogInv, NEW w \in Scripts, ScriptStep(w)
  PROVE  LogInv'
<1>1. /\ Control' /\ script' \in [Scripts -> Script] /\ holder' \in Scripts \cup {None}
      /\ clock' = clock /\ clock \in 0..MaxTime /\ clock <= clock'
      /\ \A v \in Scripts \ {w} : script'[v] = script[v]
  BY ScriptKeepsControl, OthersStay, FilesAreTypes DEF LogInv
<1>2. UNCHANGED files \/ FilesChange(w)
  BY HowFilesChange
<1>3. /\ active' \in File /\ closed' \in Seq(File)
      /\ \A file \in Files' : file.size <= MaxFile
      /\ Ordered' /\ Unbroken'
  <2>1. CASE UNCHANGED files
    BY <1>1, <2>1, SameFilesAreKept
  <2>2. CASE Rotated
    BY <1>1, <2>2, RotationKeepsFiles
  <2>3. CASE Dropped
    BY <1>1, <2>3, DeletionKeepsFiles
  <2>4. CASE At(w, "write") /\ (Written(script[w].need) \/ Damaged(script[w].need))
    BY <1>1, <2>4, WritingKeepsFiles
  <2> QED
    BY <1>2, <2>1, <2>2, <2>3, <2>4 DEF FilesChange
<1>4. torn' \in BOOLEAN
  BY <1>2 DEF LogInv, LogTypeOK, FilesChange, Rotated, Rotate, Dropped, Written, Damaged, files
<1>5. \A v \in Scripts : script'[v].pc = "write" => active'.size + script'[v].need <= MaxFile
  <2>1. CASE script'[w].pc = "write"
    <3>1. UNCHANGED files /\ active.size + script'[w].need <= MaxFile
      BY <2>1, HowScriptsMove, WhereMovesLead DEF Calls, Proceeds
    <3>2. ASSUME NEW v \in Scripts \ {w} PROVE script[v].pc # "write"
      BY <1>1, <2>1 DEF Control, Holding, CallSteps, Steps
    <3> QED
      BY <1>1, <3>1, <3>2 DEF files
  <2>2. ASSUME NEW v \in Scripts \ {w}, script[v].pc = "write"
        PROVE  active'.size + script[v].need <= MaxFile
    <3>1. ~FilesChange(w)
      BY <2>2 DEF FilesChange, LogInv, Control, Holding, CallSteps, Steps, At
    <3> QED
      BY <1>2, <2>2, <3>1 DEF files, LogInv, Fitting, At
  <2> QED
    BY <1>1, <2>1, <2>2
<1> QED
  BY <1>1, <1>3, <1>4, <1>5 DEF LogInv, LogTypeOK, Fitting, At

LEMMA LogInductive == LogSpec => []LogInv
<1>1. LogInit => LogInv
  <2> SUFFICES ASSUME LogInit PROVE LogInv
    OBVIOUS
  <2>1. LogTypeOK
    <3>1. /\ 0 \in 0..MaxTime /\ <<>> \in Seq(File) /\ EmptyAfter(0) \in File /\ Off \in Script
      BY SizesAreNumbers
    <3> QED
      BY <3>1 DEF LogInit, LogTypeOK
  <2>2. Control
    BY DEF LogInit, Control, Holding, TornStops, Begun, CallSteps, Off, At
  <2>3. Files = {active} /\ active.from = 1 /\ active.upto = 0 /\ active.size = 0 /\ active.stamp = 0
    BY DEF LogInit, Files, Range, EmptyAfter
  <2>4. Fitting /\ Ordered
    BY <2>3, SizesAreNumbers DEF LogInit, Fitting, Ordered, Off, At
  <2>5. Unbroken
    BY <2>3 DEF Unbroken, Recorded, Holds
  <2> QED
    BY <2>1, <2>2, <2>4, <2>5 DEF LogInv
<1>2. LogInv /\ [LogNext]_vars => LogInv'
  <2> SUFFICES ASSUME LogInv, [LogNext]_vars PROVE LogInv'
    OBVIOUS
  <2>1. CASE Tick \/ UNCHANGED vars
    <3>1. /\ UNCHANGED <<files, holder, script>> /\ clock <= clock' /\ clock' \in 0..MaxTime
          /\ torn' = torn /\ active' = active
      BY <2>1, FilesAreTypes DEF Tick, vars, files
    <3> QED
      BY <3>1, SameFilesAreKept DEF LogInv, LogTypeOK, Control, Holding, TornStops, Begun, Fitting, At
  <2> QED
    BY <2>1, ScriptKeepsLogInv DEF LogNext
<1> QED
  BY <1>1, <1>2, PTL DEF LogSpec

-----------------------------------------------------------------------------
(* The sum of the sizes.                                                      *)

\* One element for each unit of the weights of s.
Units(w, s) == UNION {{i} \X (1..w[i]) : i \in s}

LEMMA OneWeight ==
  ASSUME NEW i, NEW n \in Nat
  PROVE  IsFiniteSet({i} \X (1..n)) /\ Cardinality({i} \X (1..n)) = n
<1>1. IsFiniteSet({i}) /\ Cardinality({i}) = 1
  BY FS_Singleton
<1>2. IsFiniteSet(1..n) /\ Cardinality(1..n) = n
  BY FS_Interval
<1> DEFINE One == {i}
           Many == 1..n
<1>3. IsFiniteSet(One \X Many) /\ Cardinality(One \X Many) = Cardinality(One) * Cardinality(Many)
  <2> HIDE DEF One, Many
  <2> QED
    BY <1>1, <1>2, FS_Product DEF One, Many
<1> QED
  BY <1>1, <1>2, <1>3

LEMMA UnitsGrow ==
  ASSUME NEW w, NEW s, NEW i \in s
  PROVE  /\ Units(w, s) = Units(w, s \ {i}) \cup ({i} \X (1..w[i]))
         /\ Units(w, s \ {i}) \cap ({i} \X (1..w[i])) = {}
BY DEF Units

LEMMA UnitsCounted ==
  ASSUME NEW S, IsFiniteSet(S), NEW w \in [S -> Nat], NEW s \in SUBSET S
  PROVE  /\ IsFiniteSet(Units(w, s)) /\ Cardinality(Units(w, s)) \in Nat
         /\ s = {} => Cardinality(Units(w, s)) = 0
         /\ \A i \in s : Cardinality(Units(w, s)) = Cardinality(Units(w, s \ {i})) + w[i]
<1> DEFINE Bad == {t \in SUBSET S : ~IsFiniteSet(Units(w, t))}
<1>1. IsWellFoundedOn(StrictSubsetOrdering(S), SUBSET S)
  BY FS_StrictSubsetOrderingWellFounded, FS_FiniteSubsetsOfFinite
<1>2. ASSUME NEW t \in SUBSET S, t = {} PROVE Units(w, t) = {}
  BY <1>2 DEF Units
<1>3. Bad = {}
  <2> SUFFICES ASSUME Bad # {} PROVE FALSE
    OBVIOUS
  <2>1. PICK t \in Bad : \A u \in Bad : <<u, t>> \notin StrictSubsetOrdering(S)
    <3> HIDE DEF Bad
    <3>1. Bad \subseteq SUBSET S
      BY DEF Bad
    <3> QED
      BY <1>1, <3>1, WFMin
  <2>2. t # {}
    BY <1>2, FS_EmptySet
  <2>3. PICK i \in t : TRUE
    BY <2>2
  <2>4. <<t \ {i}, t>> \in StrictSubsetOrdering(S)
    BY <2>3 DEF StrictSubsetOrdering
  <2>5. IsFiniteSet(Units(w, t \ {i}))
    BY <2>1, <2>4
  <2>6. IsFiniteSet({i} \X (1..w[i]))
    BY <2>3, OneWeight
  <2>7. IsFiniteSet(Units(w, t))
    <3>1. Units(w, t) = Units(w, t \ {i}) \cup ({i} \X (1..w[i]))
      BY <2>3, UnitsGrow
    <3> DEFINE U == Units(w, t \ {i})
               V == {i} \X (1..w[i])
    <3>2. IsFiniteSet(U) /\ IsFiniteSet(V) /\ Units(w, t) = U \cup V
      BY <2>5, <2>6, <3>1
    <3> HIDE DEF U, V
    <3> QED
      BY <3>2, FS_Union
  <2> QED
    BY <2>7
<1>4. \A t \in SUBSET S : IsFiniteSet(Units(w, t)) /\ Cardinality(Units(w, t)) \in Nat
  BY <1>3, FS_CardinalityType
<1>5. s = {} => Cardinality(Units(w, s)) = 0
  BY <1>2, FS_EmptySet
<1>6. ASSUME NEW i \in s
      PROVE  Cardinality(Units(w, s)) = Cardinality(Units(w, s \ {i})) + w[i]
  <2> DEFINE U == Units(w, s \ {i})
             V == {i} \X (1..w[i])
  <2>1. IsFiniteSet(U) /\ Cardinality(U) \in Nat
    BY <1>4
  <2>2. IsFiniteSet(V) /\ Cardinality(V) = w[i] /\ w[i] \in Nat
    BY OneWeight
  <2>3. Units(w, s) = U \cup V /\ U \cap V = {}
    BY UnitsGrow
  <2>4. Cardinality(U \cap V) = 0
    BY <2>3, FS_EmptySet
  <2> HIDE DEF U, V
  <2>5. Cardinality(U \cup V) = Cardinality(U) + Cardinality(V) - Cardinality(U \cap V)
    BY <2>1, <2>2, FS_Union
  <2>6. Cardinality(Units(w, s)) = Cardinality(U) + w[i]
    BY <2>1, <2>2, <2>3, <2>4, <2>5
  <2> QED
    BY <2>6 DEF U
<1> QED
  BY <1>4, <1>5, <1>6

\* What FoldRight's function computes of the sizes: it takes the files away
\* beginning with the first.
Adding(f, w, base, S) ==
    f = [s \in SUBSET S |-> IF s = {} THEN base ELSE f[s \ {Min(s)}] + w[Min(s)]]

LEMMA FirstIsThere ==
  ASSUME NEW n \in Nat, NEW s \in SUBSET (1..n), s # {}
  PROVE  Min(s) \in s
<1>1. PICK i \in s : \A j \in s : <<j, i>> \notin OpToRel(<, Nat)
  <2>1. s \subseteq Nat
    OBVIOUS
  <2> QED
    BY <2>1, NatLessThanWellFounded, WFMin
<1>2. \A j \in s : <<j, i>> \in Nat \X Nat /\ <<j, i>>[1] = j /\ <<j, i>>[2] = i
  OBVIOUS
<1>3. \A j \in s : ~(j < i)
  BY <1>1, <1>2 DEF OpToRel
<1>4. \A j \in s : i <= j
  BY <1>3
<1> QED
  BY <1>4 DEF Min

LEMMA AddingCounts ==
  ASSUME NEW n \in Nat, NEW w \in [1..n -> Nat], NEW base \in Nat, NEW f, Adding(f, w, base, 1..n)
  PROVE  f = [s \in SUBSET (1..n) |-> base + Cardinality(Units(w, s))]
<1> DEFINE S == 1..n
           g == [s \in SUBSET S |-> base + Cardinality(Units(w, s))]
           Bad == {s \in SUBSET S : f[s] # g[s]}
<1>1. IsFiniteSet(S)
  BY FS_Interval
<1>2. IsWellFoundedOn(StrictSubsetOrdering(S), SUBSET S)
  BY <1>1, FS_StrictSubsetOrderingWellFounded, FS_FiniteSubsetsOfFinite
<1>3. ASSUME Bad # {} PROVE FALSE
  <2>1. PICK s \in Bad : \A u \in Bad : <<u, s>> \notin StrictSubsetOrdering(S)
    <3> HIDE DEF Bad, g, S
    <3>1. Bad \subseteq SUBSET S
      BY DEF Bad
    <3> QED
      BY <1>2, <1>3, <3>1, WFMin
  <2>2. f[s] = IF s = {} THEN base ELSE f[s \ {Min(s)}] + w[Min(s)]
    BY DEF Adding
  <2>3. CASE s = {}
    <3>1. Cardinality(Units(w, s)) = 0
      BY <1>1, <2>3, UnitsCounted
    <3> QED
      BY <2>1, <2>2, <2>3, <3>1
  <2>4. CASE s # {}
    <3>1. Min(s) \in s /\ s \ {Min(s)} \in SUBSET S /\ w[Min(s)] \in Nat
      BY <2>4, FirstIsThere
    <3>2. <<s \ {Min(s)}, s>> \in StrictSubsetOrdering(S)
      BY <3>1 DEF StrictSubsetOrdering
    <3>3. f[s \ {Min(s)}] = g[s \ {Min(s)}]
      BY <2>1, <3>1, <3>2
    <3>4. /\ Cardinality(Units(w, s)) = Cardinality(Units(w, s \ {Min(s)})) + w[Min(s)]
          /\ Cardinality(Units(w, s \ {Min(s)})) \in Nat
      BY <1>1, <3>1, UnitsCounted
    <3>5. f[s \ {Min(s)}] = base + Cardinality(Units(w, s \ {Min(s)}))
      BY <3>1, <3>3
    <3>6. f[s] = base + Cardinality(Units(w, s))
      <4> HIDE DEF S
      <4> QED
        BY <2>2, <2>4, <3>1, <3>4, <3>5
    <3> QED
      BY <2>1, <3>6
  <2> QED
    BY <2>3, <2>4
<1>4. f = [s \in SUBSET S |-> f[s]]
  BY DEF Adding
<1> QED
  BY <1>3, <1>4

LEMMA CountsAdd ==
  ASSUME NEW n \in Nat, NEW w \in [1..n -> Nat], NEW base \in Nat
  PROVE  Adding([s \in SUBSET (1..n) |-> base + Cardinality(Units(w, s))], w, base, 1..n)
<1> DEFINE g == [s \in SUBSET (1..n) |-> base + Cardinality(Units(w, s))]
<1>1. IsFiniteSet(1..n)
  BY FS_Interval
<1>2. ASSUME NEW s \in SUBSET (1..n)
      PROVE  g[s] = IF s = {} THEN base ELSE g[s \ {Min(s)}] + w[Min(s)]
  <2>1. CASE s = {}
    BY <1>1, <2>1, UnitsCounted
  <2>2. CASE s # {}
    <3>1. Min(s) \in s /\ s \ {Min(s)} \in SUBSET (1..n) /\ w[Min(s)] \in Nat
      BY <2>2, FirstIsThere
    <3>2. /\ Cardinality(Units(w, s)) = Cardinality(Units(w, s \ {Min(s)})) + w[Min(s)]
          /\ Cardinality(Units(w, s \ {Min(s)})) \in Nat
      BY <1>1, <3>1, UnitsCounted
    <3>3. /\ g[s] = base + Cardinality(Units(w, s))
          /\ g[s \ {Min(s)}] = base + Cardinality(Units(w, s \ {Min(s)}))
      BY <3>1
    <3>4. base + Cardinality(Units(w, s)) = base + Cardinality(Units(w, s \ {Min(s)})) + w[Min(s)]
      BY <3>1, <3>2
    <3>5. g[s] = g[s \ {Min(s)}] + w[Min(s)]
      BY <3>3, <3>4
    <3> QED
      BY <2>2, <3>5
  <2> QED
    BY <2>1, <2>2
<1> QED
  BY <1>2 DEF Adding

\* The sizes of the files in seq.
Sizes(seq) == [i \in DOMAIN seq |-> seq[i].size]
Bytes(seq) == Units(Sizes(seq), DOMAIN seq)

LEMMA TotalCounts ==
  ASSUME NEW seq \in Seq(File), NEW base \in Nat
  PROVE  /\ FoldRight(Size, seq, base) = base + Cardinality(Bytes(seq))
         /\ IsFiniteSet(Bytes(seq)) /\ Cardinality(Bytes(seq)) \in Nat
<1> DEFINE n == Len(seq)
           w == Sizes(seq)
           g == [s \in SUBSET (1..n) |-> base + Cardinality(Units(w, s))]
<1>1. n \in Nat /\ DOMAIN seq = 1..n /\ w \in [1..n -> Nat]
  <2>1. \A i \in 1..n : seq[i].size \in Nat
    <3>1. \A i \in 1..n : seq[i] \in File
      OBVIOUS
    <3> QED
      BY <3>1 DEF File
  <2> QED
    BY <2>1 DEF Sizes
<1>2. FoldRight(Size, seq, base) = (CHOOSE f : Adding(f, w, base, 1..n))[1..n]
  <2>1. FoldRight(Size, seq, base) = (CHOOSE f : f = [s \in SUBSET DOMAIN seq |->
            IF s = {} THEN base ELSE f[s \ {Min(s)}] + seq[Min(s)].size])[DOMAIN seq]
    BY DEF FoldRight, MapThenFoldSet, Size
  <2>2. \A s \in SUBSET (1..n) : s # {} => w[Min(s)] = seq[Min(s)].size
    BY <1>1, FirstIsThere DEF Sizes
  <2>3. \A f : Adding(f, w, base, 1..n) <=> f = [s \in SUBSET (1..n) |->
            IF s = {} THEN base ELSE f[s \ {Min(s)}] + seq[Min(s)].size]
    BY <2>2 DEF Adding
  <2> DEFINE Eq(f) == f = [s \in SUBSET (1..n) |->
            IF s = {} THEN base ELSE f[s \ {Min(s)}] + seq[Min(s)].size]
  <2>4. FoldRight(Size, seq, base) = (CHOOSE f : Eq(f))[1..n]
    BY <1>1, <2>1, Zenon
  <2>5. (CHOOSE f : Adding(f, w, base, 1..n)) = (CHOOSE f : Eq(f))
    <3>1. \A f : Adding(f, w, base, 1..n) <=> Eq(f)
      BY <2>3
    <3> HIDE DEF Eq, w, n
    <3> QED
      BY <3>1
  <2> QED
    BY <2>4, <2>5
<1>3. (CHOOSE f : Adding(f, w, base, 1..n)) = g
  <2>1. Adding(g, w, base, 1..n)
    BY <1>1, CountsAdd
  <2>2. \A f : Adding(f, w, base, 1..n) => f = g
    BY <1>1, AddingCounts
  <2> HIDE DEF g, w, n
  <2> QED
    BY <2>1, <2>2
<1>4. IsFiniteSet(Units(w, 1..n)) /\ Cardinality(Units(w, 1..n)) \in Nat
  <2>1. IsFiniteSet(1..n)
    BY <1>1, FS_Interval
  <2> HIDE DEF w
  <2> QED
    BY <1>1, <2>1, UnitsCounted
<1>5. g[1..n] = base + Cardinality(Units(w, 1..n))
  OBVIOUS
<1> QED
  BY <1>1, <1>2, <1>3, <1>4, <1>5 DEF Bytes

LEMMA AppendedFileAdds ==
  ASSUME NEW seq \in Seq(File), NEW file \in File, NEW base \in Nat,
         NEW longer \in Seq(File), DOMAIN longer = 1..(Len(seq) + 1),
         \A i \in DOMAIN seq : longer[i] = seq[i], longer[Len(seq) + 1] = file
  PROVE  FoldRight(Size, longer, base) = FoldRight(Size, seq, base) + file.size
<1> DEFINE n == Len(seq)
           w == Sizes(longer)
<1>1. /\ n \in Nat /\ DOMAIN seq = 1..n /\ 1..(n + 1) \ {n + 1} = 1..n /\ n + 1 \in 1..(n + 1)
      /\ file.size \in Nat
  <2>1. n \in Nat /\ DOMAIN seq = 1..n
    OBVIOUS
  <2>2. file.size \in Nat
    BY DEF File
  <2> HIDE DEF n
  <2>3. 1..(n + 1) \ {n + 1} = 1..n /\ n + 1 \in 1..(n + 1)
    BY <2>1
  <2> QED
    BY <2>1, <2>2, <2>3
<1>2. w \in [1..(n + 1) -> Nat] /\ w[n + 1] = file.size
  <2>1. \A i \in 1..(n + 1) : longer[i].size \in Nat
    <3>1. \A i \in 1..(n + 1) : longer[i] \in File
      OBVIOUS
    <3> QED
      BY <3>1 DEF File
  <2> QED
    BY <1>1, <2>1 DEF Sizes
<1>3. Units(w, 1..n) = Bytes(seq)
  <2>1. \A i \in 1..n : w[i] = Sizes(seq)[i]
    BY <1>1 DEF Sizes
  <2> QED
    BY <1>1, <2>1 DEF Units, Bytes
<1>4. Bytes(longer) = Units(w, 1..(n + 1))
  BY DEF Bytes
<1>5. Cardinality(Units(w, 1..(n + 1))) = Cardinality(Units(w, 1..(n + 1) \ {n + 1})) + w[n + 1]
  <2>1. IsFiniteSet(1..(n + 1))
    BY <1>1, FS_Interval
  <2> DEFINE S == 1..(n + 1)
  <2>2. IsFiniteSet(S) /\ w \in [S -> Nat] /\ n + 1 \in S /\ S \in SUBSET S
    BY <1>1, <1>2, <2>1
  <2> HIDE DEF w, S
  <2>3. \A i \in S : Cardinality(Units(w, S)) = Cardinality(Units(w, S \ {i})) + w[i]
    BY <2>2, UnitsCounted
  <2> QED
    BY <2>2, <2>3 DEF S
<1>6. Cardinality(Bytes(longer)) = Cardinality(Bytes(seq)) + file.size
  BY <1>1, <1>2, <1>3, <1>4, <1>5
<1>7. /\ FoldRight(Size, longer, base) = base + Cardinality(Bytes(longer))
      /\ FoldRight(Size, seq, base) = base + Cardinality(Bytes(seq))
      /\ Cardinality(Bytes(seq)) \in Nat
  BY TotalCounts
<1> QED
  BY <1>1, <1>6, <1>7

LEMMA DroppedFileSubtracts ==
  ASSUME NEW seq \in Seq(File), NEW base \in Nat, NEW rest \in Seq(File),
         \A i \in DOMAIN rest : i + 1 \in DOMAIN seq /\ rest[i] = seq[i + 1]
  PROVE  FoldRight(Size, rest, base) <= FoldRight(Size, seq, base)
<1> DEFINE next == [p \in Bytes(rest) |-> <<p[1] + 1, p[2]>>]
<1>1. \A p : p \in Bytes(rest) <=> \E i \in DOMAIN rest : \E b \in 1..rest[i].size : p = <<i, b>>
  BY DEF Bytes, Units, Sizes
<1>2. \A p : p \in Bytes(seq) <=> \E i \in DOMAIN seq : \E b \in 1..seq[i].size : p = <<i, b>>
  BY DEF Bytes, Units, Sizes
<1>3. next \in [Bytes(rest) -> Bytes(seq)]
  BY <1>1, <1>2
<1>4. \A i \in DOMAIN rest : i \in Nat
  OBVIOUS
<1>5. ASSUME NEW p \in Bytes(rest), NEW q \in Bytes(rest), next[p] = next[q] PROVE p = q
  <2>1. PICK i \in DOMAIN rest : \E b : p = <<i, b>>
    BY <1>1
  <2>2. PICK j \in DOMAIN rest : \E c : q = <<j, c>>
    BY <1>1
  <2>3. PICK b : p = <<i, b>>
    BY <2>1
  <2>4. PICK c : q = <<j, c>>
    BY <2>2
  <2>5. i + 1 = j + 1 /\ b = c
    BY <1>5, <2>3, <2>4
  <2> QED
    BY <1>4, <2>3, <2>4, <2>5
<1>6. next \in Injection(Bytes(rest), Bytes(seq))
  <2> HIDE DEF next
  <2> QED
    BY <1>3, <1>5 DEF Injection, IsInjective
<1>7. /\ FoldRight(Size, rest, base) = base + Cardinality(Bytes(rest))
      /\ FoldRight(Size, seq, base) = base + Cardinality(Bytes(seq))
      /\ IsFiniteSet(Bytes(seq)) /\ Cardinality(Bytes(seq)) \in Nat /\ Cardinality(Bytes(rest)) \in Nat
  BY TotalCounts
<1>8. Cardinality(Bytes(rest)) <= Cardinality(Bytes(seq))
  BY <1>6, <1>7, FS_Injection
<1> QED
  BY <1>7, <1>8

LEMMA NoFilesNoBytes ==
  ASSUME NEW base \in Nat
  PROVE  FoldRight(Size, <<>>, base) = base
<1>1. <<>> \in Seq(File) /\ Bytes(<<>>) = {}
  BY DEF Bytes, Units
<1>2. FoldRight(Size, <<>>, base) = base + Cardinality(Bytes(<<>>))
  BY <1>1, TotalCounts
<1> QED
  BY <1>1, <1>2, FS_EmptySet

\* The base is counted as it is.
LEMMA ActiveFileAdds ==
  ASSUME NEW seq \in Seq(File), NEW base \in Nat, NEW part \in Nat
  PROVE  FoldRight(Size, seq, base + part) = FoldRight(Size, seq, base) + part
<1>1. /\ FoldRight(Size, seq, base) = base + Cardinality(Bytes(seq))
      /\ FoldRight(Size, seq, base + part) = base + part + Cardinality(Bytes(seq))
      /\ Cardinality(Bytes(seq)) \in Nat
  BY TotalCounts
<1> QED
  BY <1>1

-----------------------------------------------------------------------------

\* What the files come to, after each change of them.
LEMMA HowTotalChanges ==
  ASSUME LogInv, NEW w \in Scripts, ScriptStep(w)
  PROVE  /\ Total \in Nat /\ Total' \in Nat
         /\ Total' <= Total \/ (At(w, "write") /\ Total' <= Total + script[w].need)
<1>1. LogInv'
  BY ScriptKeepsLogInv
<1>2. /\ active \in File /\ closed \in Seq(File) /\ active.size \in Nat
      /\ active' \in File /\ closed' \in Seq(File) /\ active'.size \in Nat
  BY <1>1, FilesAreTypes DEF LogInv, LogTypeOK, File
<1>3. Total \in Nat /\ Total' \in Nat
  <2>1. ASSUME NEW seq \in Seq(File), NEW base \in Nat PROVE FoldRight(Size, seq, base) \in Nat
    BY TotalCounts
  <2> QED
    BY <1>2, <2>1 DEF Total
<1>4. CASE UNCHANGED files
  BY <1>3, <1>4 DEF files, Total
<1>5. CASE Rotated
  <2>1. PICK stamp \in {active.stamp, clock} : Rotate(stamp)
    BY <1>5 DEF Rotated
  <2> DEFINE stamped == [active EXCEPT !.stamp = stamp]
  <2>2. /\ stamped \in File /\ stamped.size = active.size
        /\ DOMAIN closed' = 1..(Len(closed) + 1)
        /\ \A i \in DOMAIN closed : closed'[i] = closed[i]
        /\ closed'[Len(closed) + 1] = stamped /\ active'.size = 0
    BY <2>1, RotatedFiles
  <2> HIDE DEF stamped
  <2>3. FoldRight(Size, closed', 0) = FoldRight(Size, closed, 0) + active.size
    BY <1>2, <2>2, AppendedFileAdds
  <2>4. FoldRight(Size, closed, 0 + active.size) = FoldRight(Size, closed, 0) + active.size
    BY <1>2, ActiveFileAdds
  <2>5. 0 + active.size = active.size
    BY <1>2
  <2>6. Total' = Total
    BY <2>2, <2>3, <2>4, <2>5 DEF Total
  <2> QED
    BY <1>3, <2>6
<1>6. CASE Dropped
  <2>1. /\ \A i \in DOMAIN closed' : i + 1 \in DOMAIN closed /\ closed'[i] = closed[i + 1]
        /\ active' = active
    BY <1>6, DroppedFiles
  <2>2. FoldRight(Size, closed', active.size) <= FoldRight(Size, closed, active.size)
    BY <1>2, <2>1, DroppedFileSubtracts
  <2> QED
    BY <1>3, <2>1, <2>2 DEF Total
<1>7. CASE At(w, "write") /\ (Written(script[w].need) \/ Damaged(script[w].need))
  <2>1. script[w].need \in Nat
    BY SizesAreNumbers DEF LogInv, LogTypeOK, Script
  <2>2. PICK part \in 0..script[w].need : closed' = closed /\ active'.size = active.size + part
    BY <1>7, <2>1, WrittenFiles
  <2>3. part \in Nat /\ part <= script[w].need
    BY <2>1, <2>2
  <2>4. Total' = Total + part
    BY <1>2, <2>2, <2>3, ActiveFileAdds DEF Total
  <2> QED
    BY <1>3, <1>7, <2>1, <2>3, <2>4
<1> QED
  BY <1>3, <1>4, <1>5, <1>6, <1>7, HowFilesChange DEF FilesChange

\* A call comes to its write only with room for its record in all files.
LEMMA RoomIsFound ==
  ASSUME LogInv, NEW w \in Scripts, ScriptStep(w), script'[w].pc \in {"fit", "write"}
  PROVE  /\ UNCHANGED files /\ script'[w].need = script[w].need
         /\ (At(w, "evict") /\ Fits(script[w].need)) \/ At(w, "fit")
<1>0. script[w] \in Script /\ script \in [Scripts -> Script]
  BY DEF LogInv, LogTypeOK
<1>1. \A p : GoTo(w, p) => script'[w].pc = p /\ script'[w].need = script[w].need
  BY <1>0 DEF GoTo, Script
<1>2. ~Calls(w) /\ ~Leaves(w) /\ ~Crosses(w) /\ ~Takes(w) /\ ~Acknowledged(w)
  BY WhereMovesLead DEF Calls
<1>3. Proceeds(w)
  BY <1>2, HowScriptsMove
<1>4. script[w].pc \in CallSteps
  BY <1>3 DEF Proceeds
<1>5. CASE Maintained(w)
  <2>1. ASSUME NEW n, script' = [script EXCEPT ![w].pc = "rotate", ![w].need = n] PROVE FALSE
    BY <1>0, <2>1 DEF Script
  <2>2. GoTo(w, "fit") /\ UNCHANGED files /\ At(w, "evict") /\ Fits(script[w].need)
    BY <1>5, <2>1 DEF Maintained
  <2> QED
    BY <1>1, <2>2
<1>6. CASE MakeRoom(w)
  BY <1>1, <1>6 DEF MakeRoom
<1>7. CASE MaintainRotate(w) \/ MaintainExpire(w) \/ MaintainEvict(w) \/ WriteRecord(w)
  BY <1>1, <1>7 DEF MaintainRotate, MaintainExpire, MaintainEvict, WriteRecord, At
<1>8. ~StartScript(w) /\ ~CallLogger(w) /\ ~CrossBoundary(w) /\ ~EndScript(w) /\ ~TakeLock(w)
      /\ ~LockTimesOut(w)
  BY <1>4 DEF CallSteps, StartScript, CallLogger, CrossBoundary, EndScript, TakeLock,
     LockTimesOut, At
<1>9. ~Unavailable(w) /\ ~Die(w) /\ ~Acknowledge(w)
  BY <1>0, <1>2 DEF Unavailable, Die, Leaves, Acknowledge, Acknowledged
<1> QED
  BY <1>5, <1>6, <1>7, <1>8, <1>9 DEF ScriptStep, Refuse, WritePart, CallFails, Crash

\* All files stay below their limit together, because a call that is about to
\* write has counted them.
Counted ==
    /\ Total <= MaxTotal
    /\ \A w \in Scripts : script[w].pc \in {"fit", "write"} => Total + script[w].need <= MaxTotal

LEMMA ScriptKeepsCount ==
  ASSUME LogInv, Counted, NEW w \in Scripts, ScriptStep(w)
  PROVE  Counted'
<1>1. /\ Total \in Nat /\ Total' \in Nat
      /\ Total' <= Total \/ (At(w, "write") /\ Total' <= Total + script[w].need)
  BY HowTotalChanges
<1>2. MaxTotal \in Nat /\ \A v \in Scripts : script[v].need \in Nat
  BY SizesAreNumbers DEF LogInv, LogTypeOK, Script
<1>3. Total' <= MaxTotal
  BY <1>1, <1>2 DEF Counted, At
<1>4. ASSUME script'[w].pc \in {"fit", "write"} PROVE Total' + script'[w].need <= MaxTotal
  <2>1. /\ UNCHANGED files /\ script'[w].need = script[w].need
        /\ (At(w, "evict") /\ Fits(script[w].need)) \/ At(w, "fit")
    BY <1>4, RoomIsFound
  <2>2. Total' = Total
    BY <2>1 DEF files, Total
  <2> QED
    BY <2>1, <2>2 DEF Fits, Counted, At
<1>5. ASSUME NEW v \in Scripts \ {w}, script'[v].pc \in {"fit", "write"}
      PROVE  Total' + script'[v].need <= MaxTotal
  <2>1. script'[v] = script[v]
    BY OthersStay DEF LogInv
  <2>2. UNCHANGED files
    <3>1. script[w].pc \notin CallSteps
      BY <1>5, <2>1 DEF CallSteps, Steps, LogInv, Control, Holding
    <3> QED
      BY <3>1, HowFilesChange DEF FilesChange, CallSteps, Steps, At
  <2>3. Total' = Total
    BY <2>2 DEF files, Total
  <2> QED
    BY <1>5, <2>1, <2>3 DEF Counted
<1> QED
  BY <1>3, <1>4, <1>5 DEF Counted

LEMMA CountInductive == LogSpec => [](LogInv /\ Counted)
<1>1. LogInit => Counted
  <2> SUFFICES ASSUME LogInit PROVE Counted
    OBVIOUS
  <2>1. Total = 0
    BY NoFilesNoBytes DEF LogInit, Total, EmptyAfter
  <2> QED
    BY <2>1, SizesAreNumbers DEF LogInit, Counted, Off
<1>2. LogInv /\ Counted /\ [LogNext]_vars => Counted'
  <2> SUFFICES ASSUME LogInv, Counted, [LogNext]_vars PROVE Counted'
    OBVIOUS
  <2>1. CASE Tick \/ UNCHANGED vars
    BY <2>1 DEF Tick, vars, files, Counted, Total
  <2> QED
    BY <2>1, ScriptKeepsCount DEF LogNext
<1> QED
  BY <1>1, <1>2, LogInductive, PTL DEF LogSpec

-----------------------------------------------------------------------------
(* What follows from it.                                                      *)

\* The variables keep their types, and no file exceeds its limit.
THEOREM FilesAreBounded == LogSpec => [](LogTypeOK /\ \A file \in Files : file.size <= MaxFile)
<1>1. LogInv => LogTypeOK /\ \A file \in Files : file.size <= MaxFile
  BY DEF LogInv, Fitting
<1> QED
  BY <1>1, LogInductive, PTL

\* Nothing the logger keeps exceeds its limit, no single file and not all of
\* them together, wherever a call dies; and a call that finds too little room
\* finds a closed file to delete, unless there is room then.
THEOREM LogsAreBounded == LogSpec => []LogBounded
<1>1. LogInv /\ Counted => LogBounded
  <2> SUFFICES ASSUME LogInv, Counted PROVE LogBounded
    OBVIOUS
  <2>1. ASSUME NEW w \in Scripts, At(w, "evict"), ~Evictable PROVE Fits(script[w].need)
    <3>1. active.size \in Nat /\ active.size <= MaxFile
      BY FilesAre, FilesAreTypes DEF LogInv, Fitting
    <3>2. script[w].need \in Nat /\ script[w].need <= MaxRecord
      BY SizesAreNumbers DEF LogInv, LogTypeOK, Script
    <3>3. Total = active.size
      BY <2>1, <3>1, NoFilesNoBytes DEF Evictable, Total
    <3>4. MaxFile + MaxRecord <= MaxTotal
      BY LogSizes
    <3> QED
      BY <3>1, <3>2, <3>3, <3>4, SizesAreNumbers DEF Fits
  <2> QED
    BY <2>1 DEF LogInv, Fitting, Counted, LogBounded
<1> QED
  BY <1>1, CountInductive, PTL

\* Rotation, expiry and eviction lose nothing but the oldest records, whatever
\* the clock does between two calls and wherever a call dies.
THEOREM RecordsAreSuffix == LogSpec => []LogIsSuffix
<1>1. LogInv => LogIsSuffix
  <2> SUFFICES ASSUME LogInv PROVE LogIsSuffix
    OBVIOUS
  <2> DEFINE recorded == UNION {file.from..file.upto : file \in Files}
  <2>1. PICK oldest \in 1..(active.upto + 1) :
          \A k \in Nat : Recorded(k) <=> oldest <= k /\ k <= active.upto
    BY DEF LogInv, Unbroken
  <2>2. \A file \in Files : file.from \in Nat /\ file.upto \in Nat
    BY FilesAre, FilesAreTypes DEF LogInv
  <2>3. \A k : k \in recorded <=> k \in Nat /\ Recorded(k)
    BY <2>2 DEF Recorded, Holds
  <2>4. \A k : k \in oldest..active.upto <=> k \in Nat /\ oldest <= k /\ k <= active.upto
    BY FilesAreTypes
  <2>5. recorded = oldest..active.upto
    BY <2>1, <2>3, <2>4
  <2> QED
    BY <2>1, <2>5 DEF LogIsSuffix
<1> QED
  BY <1>1, LogInductive, PTL

\* A Create or Remove that has begun to act has a record of its own in the log,
\* or had one before newer ones took its place.
THEOREM EffectsAreLogged ==
    LogSpec => [](\A w \in Scripts : script[w].effect => script[w].begun \in 1..active.upto)
<1>1. LogInv => \A w \in Scripts : script[w].effect => script[w].begun \in 1..active.upto
  BY DEF LogInv, Control, Begun
<1> QED
  BY <1>1, LogInductive, PTL

\* A call that finds the last record damaged never gets past the check, so it
\* neither rotates, deletes nor writes.
THEOREM DamageIsKept == LogSpec => DamagedLogUntouched
<1>1. LogInv /\ [LogNext]_vars => (torn => UNCHANGED files)
  <2> SUFFICES ASSUME LogInv, [LogNext]_vars, torn PROVE UNCHANGED files
    OBVIOUS
  <2>1. ASSUME NEW w \in Scripts, ScriptStep(w) PROVE UNCHANGED files
    <3>1. ~FilesChange(w)
      BY DEF FilesChange, Rotated, LogInv, Control, TornStops, CallSteps, Steps, At
    <3> QED
      BY <2>1, <3>1, HowFilesChange
  <2> QED
    BY <2>1 DEF LogNext, Tick, vars, files
<1>2. LogInv /\ [LogNext]_vars => [torn => UNCHANGED files]_vars
  BY <1>1
<1> QED
  BY <1>2, LogInductive, PTL DEF LogSpec, DamagedLogUntouched

-----------------------------------------------------------------------------
(* The scripts' view of the log.                                              *)

\* A file that is rotated has a whole record, so that to delete it is progress.
Filled ==
    /\ \A i \in DOMAIN closed : closed[i].from <= closed[i].upto
    /\ active.size > 0 /\ ~torn => active.from <= active.upto

LEMMA ScriptKeepsFilled ==
  ASSUME LogInv, Filled, NEW w \in Scripts, ScriptStep(w)
  PROVE  Filled'
<1>1. CASE UNCHANGED files
  BY <1>1 DEF files, Filled
<1>2. CASE Rotated
  <2>1. PICK stamp \in {active.stamp, clock} : Rotate(stamp)
    BY <1>2 DEF Rotated
  <2> DEFINE stamped == [active EXCEPT !.stamp = stamp]
             n == Len(closed)
  <2>2. /\ stamped.from = active.from /\ stamped.upto = active.upto
        /\ DOMAIN closed' = 1..(n + 1) /\ DOMAIN closed = 1..n /\ n \in Nat
        /\ \A i \in DOMAIN closed : closed'[i] = closed[i]
        /\ closed'[n + 1] = stamped /\ active'.size = 0
    BY <2>1, RotatedFiles, FilesAreTypes
  <2>3. active.from <= active.upto
    BY <1>2 DEF Rotated, Filled
  <2> HIDE DEF stamped, n
  <2>4. \A i \in DOMAIN closed' : i \in DOMAIN closed \/ i = n + 1
    BY <2>2
  <2> QED
    BY <2>2, <2>3, <2>4 DEF Filled
<1>3. CASE Dropped
  BY <1>3, DroppedFiles DEF Filled, Dropped
<1>4. CASE At(w, "write") /\ (Written(script[w].need) \/ Damaged(script[w].need))
  <2>1. script[w].need \in Nat
    BY SizesAreNumbers DEF LogInv, LogTypeOK, Script
  <2>2. /\ closed' = closed /\ active'.from = active.from
        /\ Written(script[w].need) => active'.upto = active.upto + 1
    BY <1>4, <2>1, WrittenFiles
  <2>3. active.from <= active.upto + 1
    BY FilesAreTypes DEF LogInv, Ordered
  <2> QED
    BY <1>4, <2>2, <2>3 DEF Filled, Damaged
<1> QED
  BY <1>1, <1>2, <1>3, <1>4, HowFilesChange DEF FilesChange

LEMMA FilledInductive == LogSpec => [](LogInv /\ Filled)
<1>1. LogInit => Filled
  BY DEF LogInit, Filled, EmptyAfter
<1>2. LogInv /\ Filled /\ [LogNext]_vars => Filled'
  <2> SUFFICES ASSUME LogInv, Filled, [LogNext]_vars PROVE Filled'
    OBVIOUS
  <2>1. CASE Tick \/ UNCHANGED vars
    BY <2>1 DEF Tick, vars, files, Filled
  <2> QED
    BY <2>1, ScriptKeepsFilled DEF LogNext
<1> QED
  BY <1>1, <1>2, LogInductive, PTL DEF LogSpec

\* The abstract log moves as the files do.
LEMMA HowRecordsMove ==
  ASSUME LogInv, Filled, NEW w \in Scripts, ScriptStep(w)
  PROVE  /\ UNCHANGED files \/ Rotated \/ Written(script[w].need) \/ Damaged(script[w].need)
                => First'.from = First.from
         /\ Dropped => First'.from \in (First.from + 1)..(active.upto + 1)
<1>1. ASSUME UNCHANGED files PROVE First'.from = First.from
  <2>1. closed' = closed /\ active' = active
    BY <1>1 DEF files
  <2> QED
    BY <1>1, <2>1 DEF First
<1>2. ASSUME Rotated PROVE First'.from = First.from
  <2>1. PICK stamp \in {active.stamp, clock} : Rotate(stamp)
    BY <1>2 DEF Rotated
  <2> DEFINE stamped == [active EXCEPT !.stamp = stamp]
             n == Len(closed)
  <2>2. /\ stamped.from = active.from
        /\ closed' \in Seq(File) /\ DOMAIN closed' = 1..(n + 1) /\ DOMAIN closed = 1..n /\ n \in Nat
        /\ \A i \in DOMAIN closed : closed'[i] = closed[i]
        /\ closed'[n + 1] = stamped /\ active'.size = 0
    BY <2>1, RotatedFiles, FilesAreTypes
  <2>3. closed = <<>> <=> n = 0
    BY <2>2, FilesAreTypes
  <2>4. n + 1 \in DOMAIN closed'
    BY <2>2
  <2> HIDE DEF stamped, n
  <2>5. closed' # <<>>
    BY <2>4
  <2>6. closed'[1].from = First.from
    <3>1. CASE n = 0
      BY <2>2, <2>3, <3>1 DEF First
    <3>2. CASE n # 0
      <4>1. 1 \in DOMAIN closed
        BY <2>2, <3>2
      <4> QED
        BY <2>2, <2>3, <3>2, <4>1 DEF First
    <3> QED
      BY <3>1, <3>2
  <2>7. First'.from = First.from
    BY <2>5, <2>6 DEF First
  <2> QED
    BY <2>7
<1>3. ASSUME Dropped PROVE First'.from \in (First.from + 1)..(active.upto + 1)
  <2>1. /\ closed' \in Seq(File) /\ Len(closed) \in Nat \ {0} /\ DOMAIN closed' = 1..(Len(closed) - 1)
        /\ \A i \in DOMAIN closed' : i + 1 \in DOMAIN closed /\ closed'[i] = closed[i + 1]
        /\ active' = active /\ closed # <<>>
    BY <1>3, DroppedFiles DEF Dropped
  <2>2. 1 \in DOMAIN closed /\ First = closed[1]
    BY <2>1, FilesAreTypes DEF First
  <2>3. First'.from \in Nat /\ First.upto < First'.from /\ First'.from <= active.upto + 1
    <3>1. CASE closed' = <<>>
      <4>1. First' = active
        BY <2>1, <3>1 DEF First
      <4> QED
        BY <2>2, <4>1, FilesAreTypes DEF LogInv, Ordered
    <3>2. CASE closed' # <<>>
      <4>1. 1 \in DOMAIN closed' /\ First' = closed'[1]
        BY <2>1, <3>2 DEF First
      <4>2. First' = closed[2] /\ 2 \in DOMAIN closed
        BY <2>1, <4>1
      <4>3. closed[1].upto < closed[2].from /\ closed[2].upto < active.from
        BY <2>2, <4>2 DEF LogInv, Ordered
      <4>4. active.from \in 1..(active.upto + 1)
        BY DEF LogInv, Ordered
      <4>5. closed[2].from <= closed[2].upto
        BY <4>2 DEF Filled
      <4>6. /\ closed[2].from \in Nat /\ closed[2].upto \in Nat
            /\ active.from \in Nat /\ active.upto \in Nat
        BY <4>2, FilesAreTypes
      <4> QED
        BY <2>2, <4>2, <4>3, <4>4, <4>5, <4>6
    <3> QED
      BY <3>1, <3>2
  <2>4. First.from <= First.upto /\ First.from \in Nat /\ First.upto \in Nat
    BY <2>2, FilesAreTypes DEF Filled
  <2>5. First'.from \in (First.from + 1)..(active.upto + 1)
    BY <2>3, <2>4, FilesAreTypes
  <2> QED
    BY <2>5
<1>4. ASSUME Written(script[w].need) \/ Damaged(script[w].need) PROVE First'.from = First.from
  <2>1. script[w].need \in Nat
    BY SizesAreNumbers DEF LogInv, LogTypeOK, Script
  <2>2. closed' = closed /\ active'.from = active.from
    BY <1>4, <2>1, WrittenFiles
  <2>3. First'.from = First.from
    BY <2>2 DEF First
  <2> QED
    BY <2>3
<1> QED
  BY <1>1, <1>2, <1>3, <1>4

LEMMA WritingIs ==
  ASSUME LogTypeOK, Holding
  PROVE  /\ \A v \in Scripts : Writing = v <=> At(v, "synced")
         /\ Writing = None <=> \A v \in Scripts : ~At(v, "synced")
<1>1. \A v \in Scripts : At(v, "synced") => holder = v /\ v # None
  BY LogNames DEF Holding, CallSteps, Steps, At
<1> QED
  BY <1>1, LogNames DEF Writing

\* Every step of a script is a step of the abstract log, or none.
LEMMA ScriptImplementsAhead ==
  ASSUME LogInv, Filled, NEW w \in Scripts, ScriptStep(w)
  PROVE  [Ahead!AheadNext]_Ahead!aheadVars
<1> DEFINE record == [v \in Scripts |-> script[v].begun]
           acting == {v \in Scripts : script[v].effect}
<1>0. /\ script \in [Scripts -> Script] /\ script' \in [Scripts -> Script]
      /\ script[w] \in Script /\ script'[w] \in Script /\ w # None
      /\ \A v \in Scripts \ {w} : script'[v] = script[v]
      /\ LogInv'
  BY OthersStay, ScriptKeepsLogInv, LogNames DEF LogInv, LogTypeOK
<1>1. /\ \A v \in Scripts : Writing = v <=> At(v, "synced")
      /\ Writing = None <=> \A v \in Scripts : ~At(v, "synced")
      /\ \A v \in Scripts : Writing' = v <=> script'[v].pc = "synced"
      /\ Writing' = None <=> \A v \in Scripts : script'[v].pc # "synced"
  <2>1. LogTypeOK /\ Holding /\ LogTypeOK' /\ Holding'
    BY <1>0 DEF LogInv, Control
  <2>2. /\ \A v \in Scripts : Writing' = v <=> At(v, "synced")'
        /\ Writing' = None <=> \A v \in Scripts : ~At(v, "synced")'
    <3>1. \A v \in Scripts : At(v, "synced")' => holder' = v /\ v # None
      BY <2>1, LogNames DEF Holding, CallSteps, Steps, At
    <3> QED
      BY <3>1, LogNames DEF Writing
  <2> QED
    BY <2>1, <2>2, WritingIs DEF At
<1>2. Writing \in Scripts \cup {None} /\ Writing' \in Scripts \cup {None}
  BY <1>0 DEF Writing, LogInv, LogTypeOK
\* Whose records and acts may change.
<1>3. /\ record' = [record EXCEPT ![w] = script'[w].begun]
      /\ acting' = IF script'[w].effect THEN acting \cup {w} ELSE acting \ {w}
  <2>1. record' = [v \in Scripts |-> script'[v].begun] /\ acting' = {v \in Scripts : script'[v].effect}
    OBVIOUS
  <2>2. \A v \in Scripts : record'[v] = IF v = w THEN script'[w].begun ELSE record[v]
    BY <1>0, <2>1
  <2>3. \A v : v \in acting' <=> IF v = w THEN script'[w].effect ELSE v \in acting
    BY <1>0, <2>1
  <2> HIDE DEF acting
  <2>4. acting' = IF script'[w].effect THEN acting \cup {w} ELSE acting \ {w}
    BY <2>3
  <2> QED
    BY <2>2, <2>4
<1>4. script'[w].begun = script[w].begun /\ script'[w].effect = script[w].effect
        => record' = record /\ acting' = acting
  BY <1>0
<1>5. script'[w].pc # "synced" => Writing' = IF Writing = w THEN None ELSE Writing
  BY <1>0, <1>1, <1>2 DEF At
<1>6. Leaves(w) \/ Calls(w) \/ Crosses(w) \/ Takes(w) \/ Proceeds(w) \/ Acknowledged(w)
  BY HowScriptsMove
<1>7. UNCHANGED files \/ FilesChange(w)
  BY HowFilesChange
<1>8. /\ UNCHANGED files \/ Rotated \/ Written(script[w].need) \/ Damaged(script[w].need)
            => First'.from = First.from
      /\ Dropped => First'.from \in (First.from + 1)..(active.upto + 1)
  BY HowRecordsMove
<1>9. UNCHANGED files => UNCHANGED <<First.from, active.upto, torn>>
  BY <1>8 DEF files
<1>10. /\ Leaves(w) => script'[w].pc \in {"off", "run"}
       /\ Crosses(w) => script'[w].pc = "run"
       /\ Takes(w) => script'[w].pc = "rotate"
       /\ Acknowledged(w) => script'[w].pc = "run"
  BY WhereMovesLead
<1>11. Damaged(script[w].need) => UNCHANGED <<First.from, active.upto>> /\ torn'
  BY <1>8, FilesAreTypes DEF Damaged, File
<1>12. /\ Off.begun = 0 /\ Off.effect = FALSE
       /\ [Off EXCEPT !.pc = "lock"].begun = 0 /\ [Off EXCEPT !.pc = "lock"].effect = FALSE
       /\ \A p : /\ [script[w] EXCEPT !.pc = p].begun = script[w].begun
                 /\ [script[w] EXCEPT !.pc = p].effect = script[w].effect
       /\ [script[w] EXCEPT !.pc = "run", !.need = 0].begun = script[w].begun
       /\ [script[w] EXCEPT !.pc = "run", !.need = 0].effect = script[w].effect
  BY <1>0 DEF Off, Script
<1> HIDE DEF record, acting
<1>20. CASE Leaves(w)
  <2>1. Writing' = IF Writing = w THEN None ELSE Writing
    BY <1>5, <1>10, <1>20
  <2>2. \/ Ahead!Gone(w)
        \/ record' = record /\ acting' = acting
    <3>1. CASE script'[w] = Off
      BY <1>3, <1>12, <3>1 DEF Ahead!Gone, record, acting
    <3>2. CASE script'[w] = [script[w] EXCEPT !.pc = "run", !.need = 0]
      BY <1>4, <1>12, <3>2
    <3> QED
      BY <1>20, <3>1, <3>2 DEF Leaves
  <2>3. CASE UNCHANGED files
    BY <1>9, <2>1, <2>2, <2>3, <1>2 DEF Ahead!AheadNext, Ahead!End, Ahead!Forget, Ahead!aheadVars,
       Ahead!log, record, acting
  <2>4. CASE Damaged(script[w].need) /\ At(w, "write")
    <3>1. Writing = None /\ ~torn
      BY <1>0, <1>1, <2>4 DEF LogInv, Control, Holding, TornStops, CallSteps, Steps, At
    <3> QED
      BY <1>0, <1>11, <2>1, <2>2, <2>4, <3>1 DEF Ahead!AheadNext, Ahead!Freeze, record, acting
  <2>5. FilesChange(w) => Damaged(script[w].need) /\ At(w, "write")
    BY <1>10, <1>20 DEF FilesChange, At
  <2> QED
    BY <1>7, <2>3, <2>4, <2>5
<1>21. CASE Calls(w)
  <2>1. UNCHANGED files
    BY <1>7, <1>21 DEF FilesChange, Calls, At
  <2>2. Writing' = Writing /\ Writing # w
    BY <1>1, <1>5, <1>21 DEF Calls, At
  <2>3. CASE script'[w] = [Off EXCEPT !.pc = "lock"]
    <3>1. Ahead!Gone(w)
      BY <1>3, <1>12, <2>3 DEF Ahead!Gone, record, acting
    <3> QED
      BY <1>9, <2>1, <2>2, <3>1 DEF Ahead!AheadNext, Ahead!End, Ahead!log
  <2>4. CASE script'[w] = [script[w] EXCEPT !.pc = "lock"]
    BY <1>4, <1>9, <1>12, <2>1, <2>2, <2>4 DEF Ahead!aheadVars, Ahead!log, record, acting
  <2> QED
    BY <1>21, <2>3, <2>4 DEF Calls
<1>22. CASE Crosses(w)
  <2>1. UNCHANGED files
    BY <1>7, <1>10, <1>22 DEF FilesChange, Crosses, At
  <2>2. Writing' = Writing
    BY <1>1, <1>5, <1>10, <1>22 DEF Crosses, At
  <2>3. script'[w].begun = script[w].begun /\ script'[w].effect
    BY <1>0, <1>22 DEF Crosses, Script
  <2>4. record' = record /\ acting' = acting \cup {w}
    BY <1>0, <1>3, <2>3 DEF record
  <2>5. record[w] \in 1..active.upto
    BY <1>22 DEF record, Crosses, LogInv, Control, Begun
  <2> QED
    BY <1>9, <2>1, <2>2, <2>4, <2>5 DEF Ahead!AheadNext, Ahead!Act, Ahead!log, record, acting
<1>23. CASE Takes(w)
  <2>1. UNCHANGED files
    BY <1>7, <1>10, <1>23 DEF FilesChange, Takes, At
  <2>2. Writing' = Writing
    BY <1>1, <1>5, <1>10, <1>23 DEF Takes, At
  <2>3. record' = record /\ acting' = acting
    BY <1>4, <1>12, <1>23 DEF Takes
  <2> QED
    BY <1>9, <2>1, <2>2, <2>3 DEF Ahead!aheadVars, Ahead!log, record, acting
<1>24. CASE Proceeds(w)
  <2>1. Writing = None
    <3>1. holder = w /\ ~At(w, "synced")
      BY <1>24 DEF Proceeds, LogInv, Control, Holding
    <3> QED
      BY <1>0, <1>1, <3>1 DEF LogInv, Control, Holding, CallSteps, Steps, At
  <2>2. record' = record /\ acting' = acting
    BY <1>4, <1>24 DEF Proceeds
  <2>3. CASE script'[w].pc # "synced" /\ (UNCHANGED files \/ Rotated)
    <3>1. Writing' = Writing
      BY <1>5, <2>1, <2>3
    <3>2. UNCHANGED <<First.from, active.upto, torn>>
      BY <1>8, <1>9, <2>3 DEF Rotated, Rotate, EmptyAfter
    <3> QED
      BY <2>2, <3>1, <3>2 DEF Ahead!aheadVars, Ahead!log, record, acting
  <2>4. CASE Dropped /\ UNCHANGED script /\ script[w].pc \in {"expire", "evict"}
    <3>1. Writing' = Writing
      BY <1>5, <2>1, <2>4
    <3>2. active'.upto = active.upto /\ torn' = torn /\ ~torn
      BY <1>24, <2>4 DEF Dropped, LogInv, Control, TornStops, CallSteps, Steps
    <3> QED
      BY <1>8, <2>1, <2>2, <2>4, <3>1, <3>2 DEF Ahead!AheadNext, Ahead!Cut, record, acting
  <2>5. CASE At(w, "write") /\ script'[w].pc = "synced" /\ Written(script[w].need)
    <3>1. Writing' = w
      BY <1>1, <2>5
    <3>2. active'.upto = active.upto + 1 /\ torn' = torn /\ ~torn
      BY <2>5, FilesAreTypes DEF Written, File, LogInv, Control, TornStops, CallSteps, Steps, At
    <3> QED
      BY <1>8, <2>1, <2>2, <2>5, <3>1, <3>2 DEF Ahead!AheadNext, Ahead!Add, record, acting
  <2>6. UNCHANGED files => script'[w].pc # "synced"
    BY <1>24, FilesAreTypes DEF Proceeds, files
  <2>7. FilesChange(w) =>
          \/ script'[w].pc # "synced" /\ Rotated
          \/ Dropped /\ UNCHANGED script /\ script[w].pc \in {"expire", "evict"}
          \/ At(w, "write") /\ script'[w].pc = "synced" /\ Written(script[w].need)
    BY <1>24 DEF FilesChange, Proceeds, CallSteps, Steps
  <2> QED
    BY <1>7, <2>3, <2>4, <2>5, <2>6, <2>7
<1>25. CASE Acknowledged(w)
  <2>1. UNCHANGED files /\ Writing = w /\ Writing' = None /\ ~torn
    BY <1>1, <1>5, <1>10, <1>25 DEF Acknowledged, LogInv, Control, TornStops, CallSteps, Steps, At
  <2>2. /\ script'[w].effect = script[w].effect
        /\ script'[w].begun = IF MayGoOn(w) THEN script[w].begun ELSE active.upto
    BY <1>0, <1>25 DEF Acknowledged, Script
  <2>3. CASE MayGoOn(w)
    BY <1>4, <1>9, <2>1, <2>2, <2>3 DEF Ahead!AheadNext, Ahead!Forget, Ahead!log, record, acting
  <2>4. CASE ~MayGoOn(w)
    <3>1. acting' = acting
      BY <1>0, <2>2 DEF acting
    <3> QED
      BY <1>3, <1>9, <2>1, <2>2, <2>4, <3>1 DEF Ahead!AheadNext, Ahead!Acknowledge, Ahead!log,
         record, acting
  <2> QED
    BY <2>3, <2>4
<1> QED
  BY <1>6, <1>20, <1>21, <1>22, <1>23, <1>24, <1>25

\* The files, the lock and the calls of the logger are, for the scripts, a
\* write-ahead log: records are added one writer at a time and cut off at the
\* old end only; a damaged log stays as it is; and a script that acts does so
\* on a record of its own of which it heard that it is on disk.
\* Code: maintain and append, grt_log and GRT_LOG_SIDE_EFFECT.
THEOREM LogIsWriteAhead == LogSpec => ImplementsAhead
<1>1. LogInit => Ahead!AheadInit
  BY DEF LogInit, Ahead!AheadInit, First, Writing, EmptyAfter, Off, At
<1>2. LogInv /\ Filled /\ [LogNext]_vars => [Ahead!AheadNext]_Ahead!aheadVars
  <2> SUFFICES ASSUME LogInv, Filled, [LogNext]_vars PROVE [Ahead!AheadNext]_Ahead!aheadVars
    OBVIOUS
  <2>1. CASE Tick \/ UNCHANGED vars
    BY <2>1 DEF Tick, vars, files, Ahead!aheadVars, Ahead!log, First, Writing, At
  <2> QED
    BY <2>1, ScriptImplementsAhead DEF LogNext
<1> QED
  BY <1>1, <1>2, FilledInductive, PTL DEF LogSpec, ImplementsAhead, Ahead!AheadSpec

\* The records of the abstract log are those the files hold.
\* Code: rotate, maintain.
THEOREM FilesHoldTheLog ==
    LogSpec => [](UNION {file.from..file.upto : file \in Files} = First.from..active.upto)
<1>1. LogInv /\ Filled => UNION {file.from..file.upto : file \in Files} = First.from..active.upto
  <2> SUFFICES ASSUME LogInv, Filled
               PROVE  UNION {file.from..file.upto : file \in Files} = First.from..active.upto
    OBVIOUS
  <2> DEFINE recorded == UNION {file.from..file.upto : file \in Files}
  <2>1. PICK oldest \in 1..(active.upto + 1) :
          \A k \in Nat : Recorded(k) <=> oldest <= k /\ k <= active.upto
    BY DEF LogInv, Unbroken
  <2>2. \A file \in Files : file.from \in Nat /\ file.upto \in Nat
    BY FilesAre, FilesAreTypes DEF LogInv
  <2>3. \A k : k \in recorded <=> k \in Nat /\ Recorded(k)
    BY <2>2 DEF Recorded, Holds
  <2>4. First \in Files /\ First.from \in Nat /\ First.upto \in Nat
    <3>1. CASE closed = <<>>
      BY <3>1, FilesAre, FilesAreTypes DEF LogInv, First
    <3>2. CASE closed # <<>>
      <4>1. 1 \in DOMAIN closed /\ First = closed[1]
        BY <3>2, FilesAreTypes DEF First
      <4> QED
        BY <4>1, FilesAre, FilesAreTypes DEF LogInv
    <3> QED
      BY <3>1, <3>2
  <2>5. \A file \in Files : First.from <= file.from
    <3>1. CASE closed = <<>>
      <4>1. \A file \in Files : file = active
        BY <3>1, FilesAre DEF LogInv
      <4> QED
        BY <3>1, <4>1, FilesAreTypes DEF First
    <3>2. CASE closed # <<>>
      <4>1. 1 \in DOMAIN closed /\ First = closed[1] /\ closed[1].from <= closed[1].upto
        BY <3>2, FilesAreTypes DEF First, Filled
      <4>2. \A i \in DOMAIN closed : i = 1 \/ closed[1].upto < closed[i].from
        BY <4>1, FilesAreTypes DEF LogInv, Ordered
      <4>3. closed[1].upto < active.from
        BY <4>1 DEF LogInv, Ordered
      <4>4. First.from <= active.from /\ \A i \in DOMAIN closed : First.from <= closed[i].from
        <5>1. closed[1].from \in Nat /\ closed[1].upto \in Nat /\ active.from \in Nat
          BY <4>1, FilesAreTypes
        <5>2. ASSUME NEW i \in DOMAIN closed PROVE closed[1].from <= closed[i].from
          <6>1. closed[i].from \in Nat
            BY FilesAreTypes
          <6> QED
            BY <4>1, <4>2, <5>1, <6>1
        <5> QED
          BY <4>1, <4>3, <5>1, <5>2
      <4> QED
        BY <4>4, FilesAre DEF LogInv
    <3> QED
      BY <3>1, <3>2
  <2>6. oldest \in Nat /\ active.upto \in Nat /\ oldest <= active.upto + 1
    BY <2>1, FilesAreTypes
  <2>7. CASE First.from <= First.upto
    <3>1. Recorded(First.from) /\ (oldest <= active.upto => Recorded(oldest))
      BY <2>1, <2>4, <2>6, <2>7 DEF Recorded, Holds
    <3>2. \A k \in Nat : Recorded(k) => First.from <= k
      BY <2>2, <2>4, <2>5 DEF Recorded, Holds
    <3>3. oldest = First.from
      BY <2>1, <2>4, <2>6, <3>1, <3>2
    <3> QED
      BY <2>1, <2>3, <2>4, <2>6, <3>3
  <2>8. CASE ~(First.from <= First.upto)
    <3>1. closed = <<>>
      <4>1. closed # <<>> => 1 \in DOMAIN closed /\ First = closed[1]
        BY FilesAreTypes DEF First
      <4> QED
        BY <2>8, <4>1 DEF Filled
    <3>2. First = active /\ \A file \in Files : file = active
      BY <3>1, FilesAre DEF LogInv, First
    <3>3. \A k \in Nat : ~Recorded(k)
      BY <2>2, <2>4, <2>8, <3>2 DEF Recorded, Holds
    <3> QED
      BY <2>3, <2>4, <2>8, <3>2, <3>3
  <2> QED
    BY <2>7, <2>8
<1> QED
  BY <1>1, FilledInductive, PTL
=============================================================================
