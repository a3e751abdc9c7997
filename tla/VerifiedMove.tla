------------------------------ MODULE VerifiedMove ------------------------------
(* What the migration promises of each artifact, without runs, directories or *)
(* manifests being written: it is copied once, its copy is certified when it  *)
(* is sound, and only what is certified is deleted at GitHub.  A certificate  *)
(* may get lost when the artifact is no longer there, never before.           *)
CONSTANT Items

VARIABLES
    remote,     \* at GitHub: "present", "deleted" by us, or "gone"
    copy,       \* "none", "unchecked" or "sound"
    claim       \* what the archive says: "none", "kept" (sound), or "moved"

moveVars == <<remote, copy, claim>>

MoveInit ==
    /\ remote = [a \in Items |-> "present"]
    /\ copy = [a \in Items |-> "none"] /\ claim = [a \in Items |-> "none"]

Copy(a, quality) ==
    /\ copy[a] = "none" /\ remote[a] # "deleted"
    /\ copy' = [copy EXCEPT ![a] = quality]
    /\ UNCHANGED <<remote, claim>>

Certify(a) ==
    /\ copy[a] = "sound" /\ claim[a] = "none"
    /\ claim' = [claim EXCEPT ![a] = "kept"]
    /\ UNCHANGED <<remote, copy>>

Delete(a) ==
    /\ remote[a] = "present" /\ claim[a] = "kept"
    /\ remote' = [remote EXCEPT ![a] = "deleted"]
    /\ UNCHANGED <<copy, claim>>

Lapse(a) ==
    /\ remote[a] # "present" /\ claim[a] = "kept"
    /\ claim' = [claim EXCEPT ![a] = "none"]
    /\ UNCHANGED <<remote, copy>>

Conclude(a) ==
    /\ remote[a] # "present" /\ copy[a] = "sound" /\ claim[a] # "moved"
    /\ claim' = [claim EXCEPT ![a] = "moved"]
    /\ UNCHANGED <<remote, copy>>

Expire(a) ==
    /\ remote[a] = "present"
    /\ remote' = [remote EXCEPT ![a] = "gone"]
    /\ UNCHANGED <<copy, claim>>

MoveNext ==
    \E a \in Items :
        \/ \E quality \in {"unchecked", "sound"} : Copy(a, quality)
        \/ Certify(a) \/ Delete(a) \/ Lapse(a) \/ Conclude(a) \/ Expire(a)

MoveSpec == MoveInit /\ [][MoveNext]_moveVars
=============================================================================
