---------------------------- MODULE WriteAheadLog ----------------------------
(* What the operational log promises its writers, without files, sizes, locks *)
(* or clocks: numbered records that are added at one end and cut off at the   *)
(* other, by one writer at a time; a log that is frozen once its end is       *)
(* damaged; and writers that act only after a record of their own was written *)
(* and acknowledged.                                                          *)
EXTENDS Naturals

CONSTANTS Writers, None

VARIABLES
    oldest, newest, \* the records oldest..newest are there
    frozen,         \* the log is evidence of a write that failed
    writing,        \* the writer of the newest record, until it has its answer
    record,         \* the record each writer may act on, 0 for none
    acting          \* the writers that have begun to act

log == <<oldest, newest, frozen>>
aheadVars == <<log, writing, record, acting>>

AheadInit ==
    /\ oldest = 1 /\ newest = 0 /\ frozen = FALSE
    /\ writing = None /\ record = [w \in Writers |-> 0] /\ acting = {}

Add(w) ==
    /\ ~frozen /\ writing = None
    /\ newest' = newest + 1
    /\ writing' = w
    /\ UNCHANGED <<oldest, frozen, record, acting>>

Cut ==
    /\ ~frozen /\ writing = None
    /\ oldest' \in (oldest + 1)..(newest + 1)
    /\ UNCHANGED <<newest, frozen, writing, record, acting>>

\* The writer hears that its record is on disk.
Acknowledge(w) ==
    /\ writing = w /\ ~frozen
    /\ writing' = None
    /\ record' = [record EXCEPT ![w] = newest]
    /\ UNCHANGED <<log, acting>>

\* It does not hear it, or acts already, or never will.
Forget(w) ==
    /\ writing = w
    /\ writing' = None
    /\ UNCHANGED <<log, record, acting>>

Act(w) ==
    /\ record[w] \in 1..newest
    /\ acting' = acting \cup {w}
    /\ UNCHANGED <<log, writing, record>>

Gone(w) ==
    /\ record' = [record EXCEPT ![w] = 0]
    /\ acting' = acting \ {w}

End(w) ==
    /\ Gone(w)
    /\ writing' = IF writing = w THEN None ELSE writing
    /\ UNCHANGED log

\* A record of which only a part was written, and whose writer may have died.
Freeze(w) ==
    /\ ~frozen /\ writing = None
    /\ frozen' = TRUE
    /\ Gone(w) \/ UNCHANGED <<record, acting>>
    /\ UNCHANGED <<oldest, newest, writing>>

AheadNext ==
    \/ Cut
    \/ \E w \in Writers :
        Add(w) \/ Acknowledge(w) \/ Forget(w) \/ Act(w) \/ End(w) \/ Freeze(w)

AheadSpec == AheadInit /\ [][AheadNext]_aheadVars
=============================================================================
