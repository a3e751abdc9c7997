---------------------------- MODULE OneTimeConsent ----------------------------
(* What the confirmations of a Remove promise, without threads, cookies or    *)
(* tables: a consent is offered once, for one subject and to one session; it  *)
(* is claimed at most once, in time, and acted upon at most once after that,  *)
(* in that session and on that subject; one that was given up stays so.       *)
EXTENDS Naturals, Sequences

CONSTANTS Tokens, Owners, Subjects, Lifetime, None

VARIABLES
    now,
    given,      \* what a consent is about, or None
    stage,      \* "new", "offered", "claimed", "used" or "void"
    acts        \* what was done in its name: sessions and subjects

consentVars == <<now, given, stage, acts>>

ConsentInit ==
    /\ now = 0
    /\ given = [t \in Tokens |-> None]
    /\ stage = [t \in Tokens |-> "new"] /\ acts = [t \in Tokens |-> <<>>]

Offer(t, owner, subject) ==
    /\ stage[t] = "new"
    /\ given' = [given EXCEPT ![t] =
                   [sid |-> owner, target |-> subject, expires |-> now + Lifetime]]
    /\ stage' = [stage EXCEPT ![t] = "offered"]
    /\ UNCHANGED <<now, acts>>

Claim(t) ==
    /\ stage[t] = "offered" /\ now <= given[t].expires
    /\ stage' = [stage EXCEPT ![t] = "claimed"]
    /\ UNCHANGED <<now, given, acts>>

Act(t) ==
    /\ stage[t] = "claimed"
    /\ stage' = [stage EXCEPT ![t] = "used"]
    /\ acts' = [acts EXCEPT ![t] = <<[sid |-> given[t].sid, target |-> given[t].target]>>]
    /\ UNCHANGED <<now, given>>

GiveUp(dropped) ==
    /\ \A t \in dropped : stage[t] \in {"offered", "claimed"}
    /\ UNCHANGED <<now, given, acts>>
    /\ stage' = [t \in Tokens |-> IF t \in dropped THEN "void" ELSE stage[t]]

Pass ==
    /\ now' = now + 1
    /\ UNCHANGED <<given, stage, acts>>

ConsentNext ==
    \/ Pass
    \/ \E dropped \in SUBSET Tokens : GiveUp(dropped)
    \/ \E t \in Tokens :
        \/ \E owner \in Owners, subject \in Subjects : Offer(t, owner, subject)
        \/ Claim(t) \/ Act(t)

ConsentSpec == ConsentInit /\ [][ConsentNext]_consentVars
=============================================================================
