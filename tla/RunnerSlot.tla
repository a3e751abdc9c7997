----------------------------- MODULE RunnerSlot -----------------------------
(* What the lifecycle ledger promises of one runner slot, without records,    *)
(* inodes or disks: the slot is free, or exactly one cycle holds it, and a    *)
(* cycle that gave the slot back never holds it again.                        *)
CONSTANTS Cycles, None

VARIABLES
    phase,      \* "free", "creating", "live" or "removing"
    holder,     \* the cycle that holds the slot, or held it last
    spent       \* every cycle that ever held it

slotVars == <<phase, holder, spent>>

SlotInit == phase = "free" /\ holder = None /\ spent = {}

\* A new cycle takes the free slot.
Open(c) ==
    /\ phase = "free"
    /\ c \notin spent
    /\ phase' = "creating"
    /\ holder' = c
    /\ spent' = spent \cup {c}

\* A runner older than the ledger takes a slot nothing ever held.
Adopt(c) ==
    /\ phase = "free"
    /\ spent = {}
    /\ phase' = "live"
    /\ holder' = c
    /\ spent' = {c}

Finish ==
    /\ phase = "creating"
    /\ phase' = "live"
    /\ UNCHANGED <<holder, spent>>

\* From "live" by an ordinary Remove, from "creating" by a reconciliation.
BeginRemove ==
    /\ phase \in {"creating", "live"}
    /\ phase' = "removing"
    /\ UNCHANGED <<holder, spent>>

Release ==
    /\ phase = "removing"
    /\ phase' = "free"
    /\ UNCHANGED <<holder, spent>>

SlotNext ==
    \/ \E c \in Cycles : Open(c) \/ Adopt(c)
    \/ Finish
    \/ BeginRemove
    \/ Release

SlotSpec == SlotInit /\ [][SlotNext]_slotVars
=============================================================================
