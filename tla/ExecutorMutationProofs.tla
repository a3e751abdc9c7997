------------------------ MODULE ExecutorMutationProofs ------------------------
(* What ExecutorMutation promises, for any number of clients and any lengths  *)
(* of the deadline, of their patience and of the backlog.  It rests on three  *)
(* layers: who is where in the queue and who holds the lock (Base); whose     *)
(* cycle the journal, the CLI and the replies speak of (Cycle); and how long  *)
(* a client that is first has waited (Prompt).  With a fourth, what is in     *)
(* nobody's name (Innocent), every step is one of MutationService.            *)
EXTENDS ExecutorMutation, SequenceTheorems, FiniteSetTheorems, TLAPS

Queued == {queue[k] : k \in DOMAIN queue}
Distinct == \A i, j \in DOMAIN queue : queue[i] = queue[j] => i = j
Running == phase \in {"run", "judge"}

\* The Executor works on one request under the lock, and every request it has
\* or will get is of a client that waits, or has given up waiting.
LockHeld ==
    /\ lock = "executor" <=> Running
    /\ operator <=> lock = "cli"
    /\ serving = None <=> phase \in {"idle", "down"}
    /\ Running => client[serving].op = "create"
    /\ ~Running => elapsed = 0
    /\ leader \in Alive => phase \in {"run", "down"}
    /\ leader # "none" => Running \/ phase = "down"

Pending(c) == c = serving \/ c \in Queued
QueueInv ==
    /\ phase = "down" => queue = <<>>
    /\ Distinct /\ serving \notin Queued
    /\ \A c \in Clients : Pending(c) => client[c].state \in {"waiting", "gaveup"}
    /\ \A c \in Clients : client[c].state = "waiting" => Pending(c)

Base == TypeOK /\ LockHeld /\ QueueInv

-----------------------------------------------------------------------------
(* Sequences.                                                                 *)

LEMMA AppendToQueue ==
  ASSUME queue \in Seq(Clients), Distinct, NEW c \in Clients, c \notin Queued,
         queue' = Append(queue, c)
  PROVE  /\ queue' \in Seq(Clients) /\ Len(queue') = Len(queue) + 1 /\ Distinct'
         /\ Queued' = Queued \cup {c}
         /\ queue = <<>> => Head(queue') = c
         /\ queue # <<>> => Head(queue') = Head(queue)
<1>1. /\ queue' \in Seq(Clients) /\ Len(queue) \in Nat /\ Len(queue') = Len(queue) + 1
      /\ DOMAIN queue = 1..Len(queue) /\ DOMAIN queue' = 1..(Len(queue) + 1)
      /\ \A i \in 1..Len(queue) : queue'[i] = queue[i]
      /\ queue'[Len(queue) + 1] = c
  BY AppendProperties, LenProperties
<1>2. Queued' = Queued \cup {c}
  <2>1. \A x \in Queued' : x \in Queued \cup {c}
    BY <1>1 DEF Queued
  <2>2. \A x \in Queued \cup {c} : x \in Queued'
    BY <1>1 DEF Queued
  <2> QED
    BY <2>1, <2>2
<1>3. Distinct'
  BY <1>1 DEF Distinct, Queued
<1>4. queue = <<>> => Head(queue') = c
  BY <1>1
<1>5. queue # <<>> => Head(queue') = Head(queue)
  BY <1>1
<1> QED
  BY <1>1, <1>2, <1>3, <1>4, <1>5

LEMMA TailOfQueue ==
  ASSUME queue \in Seq(Clients), Distinct, queue # <<>>, queue' = Tail(queue)
  PROVE  /\ queue' \in Seq(Clients) /\ Len(queue') = Len(queue) - 1 /\ Distinct'
         /\ Head(queue) \in Queued /\ Head(queue) \in Clients
         /\ Queued' = Queued \ {Head(queue)}
<1>1. /\ queue' \in Seq(Clients) /\ Len(queue) \in Nat \ {0} /\ Len(queue') = Len(queue) - 1
      /\ DOMAIN queue = 1..Len(queue) /\ DOMAIN queue' = 1..(Len(queue) - 1)
      /\ Head(queue) = queue[1] /\ Head(queue) \in Clients
      /\ \A i \in 1..(Len(queue) - 1) : queue'[i] = queue[i + 1]
  BY HeadTailProperties, LenProperties, EmptySeq
<1>2. Distinct'
  BY <1>1 DEF Distinct
<1>3. Head(queue) \in Queued
  BY <1>1 DEF Queued
<1>4. Queued' = Queued \ {Head(queue)}
  <2>1. \A x \in Queued' : x \in Queued \ {Head(queue)}
    BY <1>1 DEF Queued, Distinct
  <2>2. \A x \in Queued \ {Head(queue)} : x \in Queued'
    <3> SUFFICES ASSUME NEW i \in DOMAIN queue, queue[i] # Head(queue)
                 PROVE  queue[i] \in Queued'
      BY DEF Queued
    <3>1. i - 1 \in DOMAIN queue' /\ queue'[i - 1] = queue[i]
      BY <1>1
    <3> QED
      BY <3>1 DEF Queued
  <2> QED
    BY <2>1, <2>2
<1> QED
  BY <1>1, <1>2, <1>3, <1>4

LEMMA EmptyQueue ==
  ASSUME queue = <<>>
  PROVE  queue \in Seq(Clients) /\ Len(queue) = 0 /\ Distinct /\ Queued = {}
BY DEF Distinct, Queued

-----------------------------------------------------------------------------
LEMMA InitBase == Init => Base
<1> SUFFICES ASSUME Init PROVE Base
  OBVIOUS
<1>1. TypeOK
  <2>1. NoReply \in Reply
    BY DEF NoReply, Reply, Errors, Outcomes
  <2>2. 0 \in 0..(MutationPatience + StatusPatience) /\ 0 \in 0..Deadline
    BY TimesAssumption
  <2>3. client \in [Clients -> Client]
    BY <2>1, <2>2 DEF Init, Client, Ops, ClientStates
  <2>4. queue \in Seq(Clients) /\ Len(queue) <= Backlog
    BY EmptyQueue, TimesAssumption DEF Init
  <2> QED
    BY <2>1, <2>2, <2>3, <2>4 DEF Init, TypeOK, Stages, Leaders
<1>2. LockHeld
  BY ClientsAssumption DEF Init, LockHeld, Running, Alive
<1>3. QueueInv
  BY EmptyQueue, ClientsAssumption DEF Init, QueueInv, Pending
<1> QED
  BY <1>1, <1>2, <1>3 DEF Base

LEMMA ClientRecords ==
  ASSUME NEW r \in Client
  PROVE  /\ \A st \in ClientStates, o \in Ops, b \in BOOLEAN, t \in Clients \cup {"cli", None} :
                [r EXCEPT !.state = st, !.op = o, !.behind = b, !.target = t] \in Client
         /\ \A st \in ClientStates, o \in Ops : [r EXCEPT !.state = st, !.op = o] \in Client
         /\ \A st \in ClientStates : [r EXCEPT !.state = st, !.waited = 0] \in Client
         /\ \A st \in ClientStates, a \in Reply :
                [r EXCEPT !.state = st, !.waited = 0, !.answer = a] \in Client
         /\ \A w \in 0..(MutationPatience + StatusPatience) : [r EXCEPT !.waited = w] \in Client
<1>1. \A st \in ClientStates, o \in Ops, b \in BOOLEAN, t \in Clients \cup {"cli", None} :
          [r EXCEPT !.state = st, !.op = o, !.behind = b, !.target = t] \in Client
  BY DEF Client
<1>2. \A st \in ClientStates, o \in Ops : [r EXCEPT !.state = st, !.op = o] \in Client
  BY DEF Client
<1>3. 0 \in 0..(MutationPatience + StatusPatience)
  BY TimesAssumption
<1>4. \A st \in ClientStates : [r EXCEPT !.state = st, !.waited = 0] \in Client
  BY <1>3 DEF Client
<1>5. \A st \in ClientStates, a \in Reply :
          [r EXCEPT !.state = st, !.waited = 0, !.answer = a] \in Client
  BY <1>3 DEF Client
<1>6. \A w \in 0..(MutationPatience + StatusPatience) : [r EXCEPT !.waited = w] \in Client
  BY DEF Client
<1> QED
  BY <1>1, <1>2, <1>4, <1>5, <1>6

LEMMA TypeStep ==
  ASSUME Base, [Next]_vars
  PROVE  TypeOK'
<1> USE TimesAssumption, ClientsAssumption DEF Base, QueueInv, TypeOK, LockHeld, Running,
   Client, Reply, NoReply, Ops, Stages, Errors, Outcomes, ClientStates, Leaders, Alive
<1>1. ASSUME NEW c \in Clients, GiveUp(c) PROVE TypeOK'
  BY <1>1 DEF GiveUp, Patience, web, child, rest
<1>2. ASSUME NEW c \in Clients, NEW op \in Ops, SendRequest(c, op) PROVE TypeOK'
  <2> DEFINE t == IF op = "remove" /\ Completed THEN journal.by ELSE None
             b == serving # None \/ queue # <<>>
  <2>1. t \in Clients \cup {"cli", None} /\ b \in BOOLEAN /\ "waiting" \in ClientStates
    OBVIOUS
  <2>2. client' = [client EXCEPT ![c] = [client[c] EXCEPT
                      !.state = "waiting", !.op = op, !.behind = b, !.target = t]]
    BY <1>2 DEF SendRequest
  <2>3. queue' \in Seq(Clients) /\ Len(queue') <= Backlog
    BY <1>2, AppendProperties, LenProperties DEF SendRequest, BacklogHasRoom
  <2> HIDE DEF t, b, Client
  <2>4. [client[c] EXCEPT !.state = "waiting", !.op = op, !.behind = b, !.target = t] \in Client
    BY <2>1, ClientRecords
  <2>5. client' \in [Clients -> Client]
    BY <2>2, <2>4
  <2> QED
    BY <1>2, <2>3, <2>5 DEF SendRequest, child, rest
<1>3. ASSUME NEW c \in Clients, NEW op \in Ops, SendRefused(c, op) PROVE TypeOK'
  <2>1. "refused" \in ClientStates
    OBVIOUS
  <2> HIDE DEF Client
  <2>2. [client[c] EXCEPT !.state = "refused", !.op = op] \in Client
    BY <2>1, ClientRecords
  <2>3. client' \in [Clients -> Client]
    BY <1>3, <2>2 DEF SendRefused
  <2> QED
    BY <1>3, <2>3 DEF SendRefused, child, rest
<1>4. CASE Accept
  BY <1>4 DEF Accept, web, child, rest
<1>5. CASE ServeStatus
  BY <1>5 DEF ServeStatus, Finish, web, child, rest
<1>6. CASE Busy
  BY <1>6 DEF Busy, Finish, Plain, LockFree, web, child, rest
<1>7. CASE RejectRemove
  BY <1>7 DEF RejectRemove, Finish, Plain, LockFree, web, child, rest
<1>8. CASE SpawnFails
  BY <1>8 DEF SpawnFails, Finish, Plain, LockFree, web, child, rest
<1>9. CASE SpawnCli
  BY <1>9 DEF SpawnCli, LockFree, web, child, rest
<1>10. CASE PumpReturns
  BY <1>10 DEF PumpReturns, web, child, rest
<1>11. CASE Judge
  BY <1>11 DEF Judge, Finish, Verdict, Diagnostic, ExitedWithZero, Completed, RecordFound, web,
     child, rest
<1>12. CASE SendReply
  <2>1. serving \in Clients /\ NoReply \in Reply /\ "answered" \in ClientStates
    BY <1>12 DEF SendReply
  <2> HIDE DEF Client, Reply, NoReply
  <2>2. [client[serving] EXCEPT !.state = "answered", !.waited = 0, !.answer = reply] \in Client
    BY <2>1, ClientRecords
  <2>3. client' \in [Clients -> Client]
    BY <1>12, <2>1, <2>2 DEF SendReply
  <2> QED
    BY <1>12, <2>1, <2>3 DEF SendReply, child, rest
<1>13. CASE CheckpointPre
  BY <1>13 DEF CheckpointPre, SlotFree, web, child, rest
<1>14. CASE StartConfig
  BY <1>14 DEF StartConfig, web, child, rest
<1>15. CASE CheckpointRegistered
  BY <1>15 DEF CheckpointRegistered, web, child, rest
<1>16. CASE CheckpointUnknown
  BY <1>16 DEF CheckpointUnknown, web, child, rest
<1>17. CASE CheckpointComplete
  BY <1>17 DEF CheckpointComplete, web, child, rest
<1>18. CASE CliExits
  BY <1>18 DEF CliExits, web, child, rest
<1>19. CASE CliFails
  BY <1>19 DEF CliFails, web, child, rest
<1>20. CASE CliKilled
  BY <1>20 DEF CliKilled, web, child, rest
<1>21. CASE ConfigEnds
  BY <1>21 DEF ConfigEnds, web, child, rest
<1>22. CASE PumpTimesOut
  BY <1>22 DEF PumpTimesOut, DeadlinePassed, web, child, rest
<1>23. CASE ExecutorDies
  <2>1. NoReply \in Reply /\ "reset" \in ClientStates
    OBVIOUS
  <2> HIDE DEF Client, Reply, NoReply
  <2>2. \A c \in Clients : [client[c] EXCEPT !.state = "reset", !.waited = 0] \in Client
    BY <2>1, ClientRecords
  <2>3. client' \in [Clients -> Client]
    BY <1>23, <2>2 DEF ExecutorDies
  <2>4. queue' = <<>>
    BY <1>23 DEF ExecutorDies
  <2>5. queue' \in Seq(Clients) /\ Len(queue') <= Backlog
    BY <2>4
  <2>6. lock' = (IF lock = "executor" THEN None ELSE lock) /\ elapsed' = 0 /\ reply' = NoReply
    BY <1>23 DEF ExecutorDies
  <2>7. phase' = "down" /\ serving' = None /\ UNCHANGED <<leader, group, requested, operator, journal, closed>>
    BY <1>23 DEF ExecutorDies, child, rest
  <2> QED
    BY <2>1, <2>3, <2>5, <2>6, <2>7
<1>24. CASE ExecutorRestarts
  BY <1>24 DEF ExecutorRestarts, web, child, rest
<1>25. CASE OperatorBegins
  BY <1>25 DEF OperatorBegins, web, child, rest
<1>26. CASE OperatorEnds
  <2>1. /\ journal' \in [by : Clients \cup {"cli", None}, stage : Stages, removed : BOOLEAN]
        /\ closed' \subseteq Clients
    <3>1. CASE UNCHANGED <<journal, closed>>
      BY <3>1
    <3>2. CASE \E s \in {"PRE", "REGISTERED", "UNKNOWN", "COMPLETE"} :
                   journal' = [by |-> "cli", stage |-> s, removed |-> FALSE] /\ UNCHANGED closed
      BY <3>2
    <3>3. CASE /\ journal' = [journal EXCEPT !.removed = TRUE,
                                  !.stage = IF @ = "REGISTERED" THEN "ABORTED" ELSE @]
               /\ closed' = closed \cup ({journal.by} \cap Clients)
      <4>1. journal.by \in Clients \cup {"cli", None} /\ journal.stage \in Stages
        OBVIOUS
      <4>2. journal' = [by |-> journal.by, removed |-> TRUE,
                        stage |-> IF journal.stage = "REGISTERED" THEN "ABORTED" ELSE journal.stage]
        BY <3>3
      <4> QED
        BY <3>3, <4>1, <4>2
    <3> QED
      BY <1>26, <3>1, <3>2, <3>3 DEF OperatorEnds
  <2>2. lock' \in {None, "executor", "cli"}
    BY <1>26 DEF OperatorEnds
  <2> HIDE DEF Stages, Client
  <2> QED
    BY <1>26, <2>1, <2>2 DEF OperatorEnds, web, child
<1>27. CASE Tick
  <2>1. ASSUME NEW c \in Clients, client[c].state = "waiting"
        PROVE  client[c] \in Client /\ client[c].waited + 1 \in 0..(MutationPatience + StatusPatience)
    BY <1>27, <2>1 DEF Tick, Patience
  <2>2. elapsed' \in 0..Deadline
    BY <1>27 DEF Tick
  <2> HIDE DEF Client
  <2>3. \A c \in Clients : client[c].state = "waiting" =>
                [client[c] EXCEPT !.waited = client[c].waited + 1] \in Client
    BY <2>1, ClientRecords
  <2>4. client' \in [Clients -> Client]
    BY <1>27, <2>3 DEF Tick
  <2> QED
    BY <1>27, <2>2, <2>4 DEF Tick, child, rest
<1>28. CASE UNCHANGED vars
  BY <1>28 DEF vars, web, child, rest
<1>29. CASE RejectRequest
  BY <1>29 DEF RejectRequest, Finish, Plain, web, child, rest
<1>30. CASE StateUnavailable
  BY <1>30 DEF StateUnavailable, Finish, Plain, web, child, rest
<1>31. CASE PumpRaises
  BY <1>31 DEF PumpRaises, Finish, Plain, web, child, rest
<1>32. CASE CliCutOff
  BY <1>32 DEF CliCutOff, web, child, rest
<1> QED
  BY <1>1, <1>2, <1>3, <1>4, <1>5, <1>6, <1>7, <1>8, <1>9, <1>10, <1>11, <1>12, <1>13, <1>14,
     <1>15, <1>16, <1>17, <1>18, <1>19, <1>20, <1>21, <1>22, <1>23, <1>24, <1>25, <1>26, <1>27,
     <1>28, <1>29, <1>30, <1>31, <1>32 DEF Next, WebStep, ExecutorStep, CliStep

LEMMA LockStep ==
  ASSUME Base, TypeOK', [Next]_vars
  PROVE  LockHeld'
<1> USE TimesAssumption, ClientsAssumption DEF Base, TypeOK, LockHeld, Running, Client, Reply,
   NoReply, Ops, Stages, Errors, Outcomes, ClientStates, Leaders, Alive
<1>1. ASSUME NEW c \in Clients, GiveUp(c) PROVE LockHeld'
  BY <1>1 DEF GiveUp, Patience, web, child, rest
<1>2. ASSUME NEW c \in Clients, NEW op \in Ops, SendRequest(c, op) PROVE LockHeld'
  BY <1>2 DEF SendRequest, BacklogHasRoom, Completed, web, child, rest
<1>3. ASSUME NEW c \in Clients, NEW op \in Ops, SendRefused(c, op) PROVE LockHeld'
  BY <1>3 DEF SendRefused, BacklogHasRoom, web, child, rest
<1>4. CASE Accept
  BY <1>4 DEF Accept, web, child, rest
<1>5. CASE ServeStatus
  BY <1>5 DEF ServeStatus, Finish, web, child, rest
<1>6. CASE Busy
  BY <1>6 DEF Busy, Finish, Plain, LockFree, web, child, rest
<1>7. CASE RejectRemove
  BY <1>7 DEF RejectRemove, Finish, Plain, LockFree, web, child, rest
<1>8. CASE SpawnFails
  BY <1>8 DEF SpawnFails, Finish, Plain, LockFree, web, child, rest
<1>9. CASE SpawnCli
  BY <1>9 DEF SpawnCli, LockFree, web, child, rest
<1>10. CASE PumpReturns
  BY <1>10 DEF PumpReturns, web, child, rest
<1>11. CASE Judge
  BY <1>11 DEF Judge, Finish, Verdict, Diagnostic, ExitedWithZero, Completed, RecordFound, web,
     child, rest
<1>12. CASE SendReply
  BY <1>12 DEF SendReply, web, child, rest
<1>13. CASE CheckpointPre
  BY <1>13 DEF CheckpointPre, SlotFree, web, child, rest
<1>14. CASE StartConfig
  BY <1>14 DEF StartConfig, web, child, rest
<1>15. CASE CheckpointRegistered
  BY <1>15 DEF CheckpointRegistered, web, child, rest
<1>16. CASE CheckpointUnknown
  BY <1>16 DEF CheckpointUnknown, web, child, rest
<1>17. CASE CheckpointComplete
  BY <1>17 DEF CheckpointComplete, web, child, rest
<1>18. CASE CliExits
  BY <1>18 DEF CliExits, web, child, rest
<1>19. CASE CliFails
  BY <1>19 DEF CliFails, web, child, rest
<1>20. CASE CliKilled
  BY <1>20 DEF CliKilled, web, child, rest
<1>21. CASE ConfigEnds
  BY <1>21 DEF ConfigEnds, web, child, rest
<1>22. CASE PumpTimesOut
  BY <1>22 DEF PumpTimesOut, DeadlinePassed, web, child, rest
<1>23. CASE ExecutorDies
  BY <1>23 DEF ExecutorDies, web, child, rest
<1>24. CASE ExecutorRestarts
  BY <1>24 DEF ExecutorRestarts, web, child, rest
<1>25. CASE OperatorBegins
  BY <1>25 DEF OperatorBegins, web, child, rest
<1>26. CASE OperatorEnds
  BY <1>26 DEF OperatorEnds, SlotFree, web, child, rest
<1>27. CASE Tick
  BY <1>27 DEF Tick, Patience, web, child, rest
<1>28. CASE UNCHANGED vars
  BY <1>28 DEF vars, web, child, rest
<1>29. CASE RejectRequest
  BY <1>29 DEF RejectRequest, Finish, Plain, web, child, rest
<1>30. CASE StateUnavailable
  BY <1>30 DEF StateUnavailable, Finish, Plain, web, child, rest
<1>31. CASE PumpRaises
  BY <1>31 DEF PumpRaises, Finish, Plain, web, child, rest
<1>32. CASE CliCutOff
  BY <1>32 DEF CliCutOff, web, child, rest
<1> QED
  BY <1>1, <1>2, <1>3, <1>4, <1>5, <1>6, <1>7, <1>8, <1>9, <1>10, <1>11, <1>12, <1>13, <1>14,
     <1>15, <1>16, <1>17, <1>18, <1>19, <1>20, <1>21, <1>22, <1>23, <1>24, <1>25, <1>26, <1>27,
     <1>28, <1>29, <1>30, <1>31, <1>32 DEF Next, WebStep, ExecutorStep, CliStep

LEMMA QueueStep ==
  ASSUME Base, TypeOK', LockHeld', [Next]_vars
  PROVE  QueueInv'
<1> USE ClientsAssumption DEF Base, QueueInv, Pending, TypeOK, LockHeld, Running
<1>0. UNCHANGED queue => UNCHANGED <<Distinct, Queued>>
  BY DEF Distinct, Queued
<1>00. Queued \subseteq Clients
  BY LenProperties, ElementOfSeq DEF Queued
<1>1. ASSUME NEW c \in Clients, GiveUp(c) PROVE QueueInv'
  BY <1>0, <1>1 DEF GiveUp
<1>2. ASSUME NEW c \in Clients, NEW op \in Ops, SendRequest(c, op) PROVE QueueInv'
  <2>1. c \notin Queued
    BY <1>2 DEF SendRequest
  <2>2. /\ queue' = Append(queue, c) /\ phase # "down" /\ c # serving
        /\ client' = [client EXCEPT ![c].state = "waiting", ![c].op = op,
                        ![c].behind = serving # None \/ queue # <<>>,
                        ![c].target = IF op = "remove" /\ Completed THEN journal.by ELSE None]
        /\ UNCHANGED <<phase, serving>>
    BY <1>2 DEF SendRequest
  <2>3. Distinct' /\ Queued' = Queued \cup {c}
    BY <2>1, <2>2, AppendToQueue
  <2>4. client'[c].state = "waiting" /\ \A d \in Clients \ {c} : client'[d] = client[d]
    BY <2>2
  <2> QED
    BY <2>2, <2>3, <2>4
<1>3. ASSUME NEW c \in Clients, NEW op \in Ops, SendRefused(c, op) PROVE QueueInv'
  BY <1>0, <1>3 DEF SendRefused
<1>4. CASE Accept
  <2>1. queue # <<>> /\ queue' = Tail(queue) /\ serving' = Head(queue) /\ UNCHANGED client
        /\ phase = "idle" /\ phase' = "admit"
    BY <1>4 DEF Accept
  <2>2. /\ Distinct' /\ Head(queue) \in Queued /\ Head(queue) \in Clients
        /\ Queued' = Queued \ {Head(queue)}
    BY <2>1, TailOfQueue
  <2> QED
    BY <2>1, <2>2
<1>5. CASE SendReply
  <2>1. serving \in Clients /\ serving' = None /\ UNCHANGED <<queue, Queued, Distinct>>
        /\ phase' = "idle"
    BY <1>0, <1>5 DEF SendReply
  <2>2. /\ \A c \in Clients \ {serving} : client'[c] = client[c]
        /\ client'[serving].state # "waiting"
    BY <1>5, <2>1 DEF SendReply, Client
  <2> QED
    BY <1>00, <2>1, <2>2
<1>6. CASE ExecutorDies
  <2>0. ASSUME NEW c \in Clients PROVE client'[c].state # "waiting"
    <3>1. client[c] \in Client
      OBVIOUS
    <3>2. client'[c] = IF client[c].state = "waiting"
                       THEN [client[c] EXCEPT !.state = "reset", !.waited = 0] ELSE client[c]
      BY <1>6 DEF ExecutorDies
    <3> QED
      BY <3>1, <3>2 DEF Client
  <2>1. queue' = <<>> /\ serving' = None
    BY <1>6 DEF ExecutorDies
  <2>2. Distinct' /\ Queued' = {}
    BY <2>1, EmptyQueue DEF Distinct, Queued
  <2> QED
    BY <2>0, <2>1, <2>2
<1>7. CASE ExecutorRestarts
  BY <1>0, <1>7 DEF ExecutorRestarts, web
<1>8. CASE Tick
  BY <1>0, <1>8 DEF Tick
<1>9. CASE UNCHANGED <<client, queue, serving>> /\ phase' # "down"
  BY <1>0, <1>9
<1>10. CASE UNCHANGED <<client, queue, serving, phase>>
  BY <1>0, <1>10
<1>11. CASE ServeStatus \/ RejectRequest \/ Busy \/ StateUnavailable \/ RejectRemove
             \/ SpawnFails \/ SpawnCli \/ PumpReturns \/ PumpRaises \/ CliCutOff
             \/ Judge \/ CheckpointPre \/ StartConfig \/ CheckpointRegistered \/ CheckpointUnknown
             \/ CheckpointComplete \/ CliExits \/ CliFails \/ CliKilled \/ ConfigEnds
             \/ PumpTimesOut \/ OperatorBegins \/ OperatorEnds
  BY <1>9, <1>10, <1>11 DEF ServeStatus, RejectRequest, Busy, StateUnavailable,
     RejectRemove, SpawnFails, SpawnCli, PumpReturns, PumpRaises, CliCutOff, Judge, CheckpointPre, StartConfig, CheckpointRegistered, CheckpointUnknown,
     CheckpointComplete, CliExits, CliFails, CliKilled, ConfigEnds, PumpTimesOut, OperatorBegins,
     OperatorEnds, Finish, web, child, rest
<1>12. CASE UNCHANGED vars
  BY <1>10, <1>12 DEF vars, web
<1> QED
  BY <1>1, <1>2, <1>3, <1>4, <1>5, <1>6, <1>7, <1>8, <1>9, <1>10, <1>11, <1>12 DEF Next,
     WebStep, ExecutorStep, CliStep

LEMMA StepBase == Base /\ [Next]_vars => Base'
BY TypeStep, LockStep, QueueStep DEF Base

-----------------------------------------------------------------------------
(* Whose cycle it is.                                                         *)

\* The CLI of a request that is queued or was not sent has not run.
Unspawned ==
    \A c \in Clients :
        client[c].state = "idle" \/ c \in Queued \/ (c = serving /\ phase = "admit") =>
            c \notin requested /\ journal.by # c

\* How far the CLI is says what is in the journal, even when the Executor
\* that spawned it is gone.
CliInv ==
    /\ leader \in {"pre", "configuring"} =>
        /\ journal.by \in Clients /\ journal.stage = "PRE" /\ ~journal.removed
        /\ client[journal.by].state \notin {"idle", "answered"}
        /\ phase # "down" => journal.by = serving
    /\ leader = "configuring" => journal.by \in requested
    /\ phase # "down" /\ leader \in {"registered", "complete", "exit0"} =>
        /\ journal = [by |-> serving, removed |-> FALSE,
                      stage |-> IF leader = "registered" THEN "REGISTERED" ELSE "COMPLETE"]
        /\ serving \in requested

\* While it runs, the journal of a request it has asked GitHub for is there.
RunInv ==
    Running /\ (serving \in requested \/ journal.by = serving) =>
        /\ journal.by = serving /\ ~journal.removed
        /\ journal.stage \notin {"ABSENT", "ABORTED"}

\* A registration that no Remove has closed is the one of the journal.
Unclosed == \A c \in requested \ closed : journal.by = c /\ ~journal.removed

Own(c) ==
    /\ c \in requested
    /\ journal = [by |-> c, stage |-> "COMPLETE", removed |-> FALSE] \/ c \in closed
Truthful(c, r) ==
    client[c].op # "status" =>
        /\ r.error = "ok" => Own(c)
        /\ r.error # "ok" /\ ~LeavesOpen(r) => c \notin requested
RepliesTrue ==
    /\ phase = "reply" => Truthful(serving, reply)
    /\ \A c \in Clients : client[c].state = "answered" => Truthful(c, client[c].answer)

Cycle == Unspawned /\ CliInv /\ RunInv /\ Unclosed /\ RepliesTrue

LEMMA CycleStep ==
  ASSUME Base, Base', Cycle, [Next]_vars
  PROVE  Cycle'
<1> USE ClientsAssumption DEF Base, QueueInv, Pending, TypeOK, LockHeld, Running, Client, Cycle,
        Unspawned, CliInv, RunInv, Unclosed, RepliesTrue, Own, Truthful, Alive
<1>0. /\ UNCHANGED queue => UNCHANGED Queued
      /\ Queued \subseteq Clients
  BY LenProperties, ElementOfSeq DEF Queued
<1>1. ASSUME NEW c \in Clients, GiveUp(c) PROVE Cycle'
  BY <1>0, <1>1 DEF GiveUp, Patience, web, child, rest
<1>2. ASSUME NEW c \in Clients, NEW op \in Ops, SendRequest(c, op) PROVE Cycle'
  <2>1. c \notin Queued /\ client[c].state = "idle"
    BY <1>2 DEF SendRequest
  <2>2. queue' = Append(queue, c)
    BY <1>2 DEF SendRequest
  <2>3. Queued' = Queued \cup {c}
    BY <2>1, <2>2, AppendToQueue
  <2>4. /\ client'[c].state = "waiting" /\ \A d \in Clients \ {c} : client'[d] = client[d]
        /\ UNCHANGED <<phase, serving, reply, journal, leader, requested, closed>>
    BY <1>2 DEF SendRequest, child, rest
  <2>5. serving # c /\ (leader \in {"pre", "configuring"} => journal.by # c)
    BY <2>1
  <2> HIDE DEF Own
  <2>6. \A d \in Clients : Own(d)' <=> Own(d)
    BY <2>4 DEF Own
  <2>7. Unspawned' /\ RunInv' /\ Unclosed'
    BY <2>1, <2>3, <2>4, <2>5
  <2>8. CliInv'
    BY <2>4, <2>5
  <2>9. RepliesTrue'
    BY <2>1, <2>4, <2>5, <2>6
  <2> QED
    BY <2>7, <2>8, <2>9
<1>3. ASSUME NEW c \in Clients, NEW op \in Ops, SendRefused(c, op) PROVE Cycle'
  BY <1>0, <1>3 DEF SendRefused, BacklogHasRoom, web, child, rest
<1>4. CASE Accept
  <2>1. queue # <<>> /\ queue' = Tail(queue) /\ serving' = Head(queue)
        /\ phase = "idle" /\ phase' = "admit"
    BY <1>4 DEF Accept
  <2>2. /\ Head(queue) \in Queued /\ Head(queue) \in Clients
        /\ Queued' = Queued \ {Head(queue)}
    BY <2>1, TailOfQueue
  <2>3. UNCHANGED <<client, reply, journal, leader, requested, closed>>
    BY <1>4 DEF Accept, child, rest
  <2> QED
    BY <2>1, <2>2, <2>3
<1>5. CASE ServeStatus
  BY <1>0, <1>5 DEF ServeStatus, Finish, web, child, rest
<1>6. CASE Busy
  BY <1>0, <1>6 DEF Busy, Finish, Plain, LockFree, web, child, rest
<1>7. CASE RejectRemove
  BY <1>0, <1>7 DEF RejectRemove, Finish, Plain, LockFree, web, child, rest
<1>8. CASE SpawnFails
  BY <1>0, <1>8 DEF SpawnFails, Finish, Plain, LockFree, web, child, rest
<1>9. CASE SpawnCli
  BY <1>0, <1>9 DEF SpawnCli, LockFree, web, child, rest
<1>10. CASE PumpReturns
  BY <1>0, <1>10 DEF PumpReturns, web, child, rest
<1>11. CASE Judge
  <2>1. /\ phase = "judge" /\ phase' = "reply" /\ reply' = Verdict /\ leader' = "none"
        /\ UNCHANGED <<client, queue, serving, journal, requested, closed>>
    BY <1>11 DEF Judge, Finish, web, child, rest
  <2>2. Truthful(serving, Verdict)
    <3>1. CASE leader \in {"none", "signaled", "unread"}
      BY <3>1 DEF Verdict, Diagnostic, LeavesOpen
    <3>2. CASE leader = "failed"
      BY <2>1, <3>2 DEF Verdict, Diagnostic, RecordFound, ExitedWithZero, LeavesOpen
    <3>3. CASE leader = "exit0"
      BY <2>1, <3>3 DEF Verdict, Diagnostic, ExitedWithZero, Completed, NoReply
    <3> QED
      BY <2>1, <3>1, <3>2, <3>3 DEF Leaders
  <2> HIDE DEF Truthful
  <2>3. Truthful(serving, reply)'
    BY <2>1, <2>2 DEF Truthful
  <2>4. \A c \in Clients : client'[c].state = "answered" => Truthful(c, client[c].answer)'
    BY <2>1 DEF Truthful
  <2> QED
    BY <1>0, <2>1, <2>3, <2>4
<1>12. CASE SendReply
  BY <1>0, <1>12 DEF SendReply, web, child, rest
<1>13. CASE CheckpointPre
  <2>1. /\ phase = "run" /\ leader = "start" /\ leader' = "pre"
        /\ journal.by = None \/ journal.removed
        /\ journal' = [by |-> serving, stage |-> "PRE", removed |-> FALSE]
        /\ UNCHANGED <<client, queue, serving, phase, reply, closed, requested>>
    BY <1>13 DEF CheckpointPre, SlotFree, web, child, rest
  <2>2. Running \/ phase = "down"
    BY <2>1
  <2>3. \A c \in Clients : client[c].state = "answered" =>
            (Own(c) => Own(c)') /\ (c \notin requested => c \notin requested')
    BY <2>1, <2>2
  <2>4. Unspawned'
    BY <1>0, <2>1, <2>2
  <2>5. CliInv'
    BY <2>1, <2>2
  <2>6. RunInv' /\ Unclosed'
    BY <2>1, <2>2
  <2> HIDE DEF Own
  <2>7. RepliesTrue'
    BY <2>1, <2>2, <2>3
  <2> QED
    BY <2>4, <2>5, <2>6, <2>7
<1>14. CASE StartConfig
  <2>1. /\ leader = "pre" /\ leader' = "configuring" /\ journal.by \in Clients
        /\ requested' = requested \cup {journal.by} /\ UNCHANGED journal
        /\ UNCHANGED <<client, queue, serving, phase, reply, closed>>
    BY <1>14 DEF StartConfig, web, child, rest
  <2>2. Running \/ phase = "down"
    BY <2>1
  <2>3. \A c \in Clients : client[c].state = "answered" =>
            (Own(c) => Own(c)') /\ (c \notin requested => c \notin requested')
    BY <2>1, <2>2
  <2>4. Unspawned'
    BY <1>0, <2>1, <2>2
  <2>5. CliInv'
    BY <2>1, <2>2
  <2>6. RunInv' /\ Unclosed'
    BY <2>1, <2>2
  <2> HIDE DEF Own
  <2>7. RepliesTrue'
    BY <2>1, <2>2, <2>3
  <2> QED
    BY <2>4, <2>5, <2>6, <2>7
<1>15. CASE CheckpointRegistered
  <2>1. /\ phase = "run" /\ leader = "configuring" /\ leader' = "registered"
        /\ journal' = [journal EXCEPT !.stage = "REGISTERED"]
        /\ UNCHANGED <<client, queue, serving, phase, reply, closed, requested>>
    BY <1>15 DEF CheckpointRegistered, web, child, rest
  <2>2. Running \/ phase = "down"
    BY <2>1
  <2>3. \A c \in Clients : client[c].state = "answered" =>
            (Own(c) => Own(c)') /\ (c \notin requested => c \notin requested')
    BY <2>1, <2>2
  <2>4. Unspawned'
    BY <1>0, <2>1, <2>2
  <2>5. CliInv'
    BY <2>1, <2>2
  <2>6. RunInv' /\ Unclosed'
    BY <2>1, <2>2
  <2> HIDE DEF Own
  <2>7. RepliesTrue'
    BY <2>1, <2>2, <2>3
  <2> QED
    BY <2>4, <2>5, <2>6, <2>7
<1>16. CASE CheckpointUnknown
  <2>1. /\ phase = "run" /\ leader = "configuring" /\ leader' \in {"failed", "unread"}
        /\ journal' = [journal EXCEPT !.stage = "UNKNOWN"]
        /\ UNCHANGED <<client, queue, serving, phase, reply, closed, requested>>
    BY <1>16 DEF CheckpointUnknown, web, child, rest
  <2>2. Running \/ phase = "down"
    BY <2>1
  <2>3. \A c \in Clients : client[c].state = "answered" =>
            (Own(c) => Own(c)') /\ (c \notin requested => c \notin requested')
    BY <2>1, <2>2
  <2>4. Unspawned'
    BY <1>0, <2>1, <2>2
  <2>5. CliInv'
    BY <2>1, <2>2
  <2>6. RunInv' /\ Unclosed'
    BY <2>1, <2>2
  <2> HIDE DEF Own
  <2>7. RepliesTrue'
    BY <2>1, <2>2, <2>3
  <2> QED
    BY <2>4, <2>5, <2>6, <2>7
<1>17. CASE CheckpointComplete
  <2>1. /\ phase = "run" /\ leader = "registered" /\ leader' = "complete"
        /\ journal' = [journal EXCEPT !.stage = "COMPLETE"]
        /\ UNCHANGED <<client, queue, serving, phase, reply, closed, requested>>
    BY <1>17 DEF CheckpointComplete, web, child, rest
  <2>2. Running \/ phase = "down"
    BY <2>1
  <2>3. \A c \in Clients : client[c].state = "answered" =>
            (Own(c) => Own(c)') /\ (c \notin requested => c \notin requested')
    BY <2>1, <2>2
  <2>4. Unspawned'
    BY <1>0, <2>1, <2>2
  <2>5. CliInv'
    BY <2>1, <2>2
  <2>6. RunInv' /\ Unclosed'
    BY <2>1, <2>2
  <2> HIDE DEF Own
  <2>7. RepliesTrue'
    BY <2>1, <2>2, <2>3
  <2> QED
    BY <2>4, <2>5, <2>6, <2>7
<1>18. CASE CliExits
  BY <1>0, <1>18 DEF CliExits, web, child, rest
<1>19. CASE CliFails
  BY <1>0, <1>19 DEF CliFails, web, child, rest
<1>20. CASE CliKilled
  BY <1>0, <1>20 DEF CliKilled, web, child, rest
<1>21. CASE ConfigEnds
  BY <1>0, <1>21 DEF ConfigEnds, web, child, rest
<1>22. CASE PumpTimesOut
  BY <1>0, <1>22 DEF PumpTimesOut, DeadlinePassed, web, child, rest
<1>23. CASE ExecutorDies
  <2>1. \A c \in Clients : /\ client'[c].state = IF client[c].state = "waiting" THEN "reset"
                                                   ELSE client[c].state
                          /\ client'[c].op = client[c].op /\ client'[c].answer = client[c].answer
    <3> SUFFICES ASSUME NEW c \in Clients
                 PROVE  /\ client'[c].state = IF client[c].state = "waiting" THEN "reset"
                                               ELSE client[c].state
                        /\ client'[c].op = client[c].op /\ client'[c].answer = client[c].answer
      OBVIOUS
    <3>1. client[c] \in Client
      OBVIOUS
    <3>2. client'[c] = IF client[c].state = "waiting"
                       THEN [client[c] EXCEPT !.state = "reset", !.waited = 0] ELSE client[c]
      BY <1>23 DEF ExecutorDies
    <3> QED
      BY <3>1, <3>2 DEF Client
  <2>2. queue' = <<>> /\ serving' = None /\ phase' = "down"
        /\ UNCHANGED <<leader, requested, journal, closed>>
    BY <1>23 DEF ExecutorDies, child, rest
  <2>3. Queued' = {}
    BY <2>2, EmptyQueue DEF Queued
  <2>4. Unspawned' /\ CliInv' /\ RunInv' /\ Unclosed'
    BY <2>1, <2>2, <2>3
  <2>5. \A c \in Clients : Own(c)' <=> Own(c)
    BY <2>2 DEF Own
  <2> HIDE DEF Own
  <2>6. RepliesTrue'
    BY <2>1, <2>2, <2>5
  <2> QED
    BY <2>4, <2>6
<1>24. CASE ExecutorRestarts
  BY <1>0, <1>24 DEF ExecutorRestarts, web, child, rest
<1>25. CASE OperatorBegins
  BY <1>0, <1>25 DEF OperatorBegins, web, child, rest
<1>26. CASE OperatorEnds
  <2>1. /\ ~Running /\ ~Running' /\ phase' = phase /\ lock = "cli"
        /\ UNCHANGED <<client, queue, serving, reply, leader, requested>>
    BY <1>26 DEF OperatorEnds, web, child
  <2>2. CASE UNCHANGED <<journal, closed>>
    BY <1>0, <2>1, <2>2
  <2>3. CASE /\ SlotFree /\ UNCHANGED closed
             /\ \E s \in {"PRE", "REGISTERED", "UNKNOWN", "COMPLETE"} :
                   journal' = [by |-> "cli", stage |-> s, removed |-> FALSE]
    <3>1. leader \notin {"pre", "configuring"} /\ requested \subseteq closed
      BY <2>3 DEF SlotFree
    <3>2. journal'.by = "cli" /\ "cli" \notin Clients
      BY <2>3
    <3> QED
      BY <1>0, <2>1, <2>3, <3>1, <3>2
  <2>4. CASE /\ journal.stage \in {"COMPLETE", "REGISTERED"} /\ ~journal.removed
             /\ journal' = [journal EXCEPT !.removed = TRUE,
                                !.stage = IF @ = "REGISTERED" THEN "ABORTED" ELSE @]
             /\ closed' = closed \cup ({journal.by} \cap Clients)
    <3>1. leader \notin {"pre", "configuring"} /\ journal'.by = journal.by
      BY <2>4
    <3> QED
      BY <1>0, <2>1, <2>4, <3>1
  <2> QED
    BY <1>26, <2>2, <2>3, <2>4 DEF OperatorEnds
<1>27. CASE Tick
  BY <1>0, <1>27 DEF Tick, Patience, web, child, rest
<1>28. CASE UNCHANGED vars
  BY <1>0, <1>28 DEF vars, web, child, rest
<1>29. CASE RejectRequest
  BY <1>0, <1>29 DEF RejectRequest, Finish, Plain, web, child, rest
<1>30. CASE StateUnavailable
  BY <1>0, <1>30 DEF StateUnavailable, Finish, Plain, web, child, rest
<1>31. CASE PumpRaises
  <2>1. /\ phase = "run" /\ phase' = "reply" /\ reply' = Plain("rejected") /\ leader' = "none"
        /\ UNCHANGED <<client, queue, serving, journal, requested, closed>>
    BY <1>31 DEF PumpRaises, Finish, web, child, rest
  <2>2. Truthful(serving, reply)'
    BY <2>1 DEF Plain, NoReply, LeavesOpen
  <2> HIDE DEF Truthful
  <2>3. \A c \in Clients : client'[c].state = "answered" => Truthful(c, client[c].answer)'
    BY <2>1 DEF Truthful
  <2> QED
    BY <1>0, <2>1, <2>2, <2>3
<1>32. CASE CliCutOff
  BY <1>0, <1>32 DEF CliCutOff, web, child, rest
<1> QED
  BY <1>1, <1>2, <1>3, <1>4, <1>5, <1>6, <1>7, <1>8, <1>9, <1>10, <1>11, <1>12, <1>13, <1>14,
     <1>15, <1>16, <1>17, <1>18, <1>19, <1>20, <1>21, <1>22, <1>23, <1>24, <1>25, <1>26, <1>27,
     <1>28, <1>29, <1>30, <1>31, <1>32 DEF Next, WebStep, ExecutorStep, CliStep

-----------------------------------------------------------------------------
(* How long a client waits that was not behind another one.                   *)

First(c) == client[c].state = "waiting" /\ client[c].op # "status" /\ ~client[c].behind
Prompt ==
    \A c \in Clients :
        /\ client[c].state = "idle" => client[c].waited = 0
        /\ First(c) /\ c \in Queued =>
              serving = None /\ queue # <<>> /\ Head(queue) = c /\ client[c].waited = 0
        /\ First(c) /\ c = serving =>
              /\ phase = "admit" => client[c].waited = 0
              /\ phase = "run" => client[c].waited = elapsed
              /\ client[c].waited <= Deadline
        /\ client[c].state = "gaveup" /\ client[c].op # "status" => client[c].behind

LEMMA PromptStep ==
  ASSUME Base, Base', Prompt, [Next]_vars
  PROVE  Prompt'
<1> USE ClientsAssumption, TimesAssumption DEF Base, QueueInv, Pending, TypeOK, LockHeld,
   Running, Client,
        Prompt, First, Alive
<1>0. /\ UNCHANGED queue => UNCHANGED Queued
      /\ Queued \subseteq Clients
  BY LenProperties, ElementOfSeq DEF Queued
<1>1. ASSUME NEW c \in Clients, GiveUp(c) PROVE Prompt'
  BY <1>0, <1>1 DEF GiveUp, Patience, web, child, rest
<1>2. ASSUME NEW c \in Clients, NEW op \in Ops, SendRequest(c, op) PROVE Prompt'
  BY <1>0, <1>2 DEF SendRequest, BacklogHasRoom, Completed, web, child, rest
<1>3. ASSUME NEW c \in Clients, NEW op \in Ops, SendRefused(c, op) PROVE Prompt'
  BY <1>0, <1>3 DEF SendRefused, BacklogHasRoom, web, child, rest
<1>4. CASE Accept
  BY <1>0, <1>4 DEF Accept, web, child, rest
<1>5. CASE ServeStatus
  BY <1>0, <1>5 DEF ServeStatus, Finish, web, child, rest
<1>6. CASE Busy
  BY <1>0, <1>6 DEF Busy, Finish, Plain, LockFree, web, child, rest
<1>7. CASE RejectRemove
  BY <1>0, <1>7 DEF RejectRemove, Finish, Plain, LockFree, web, child, rest
<1>8. CASE SpawnFails
  BY <1>0, <1>8 DEF SpawnFails, Finish, Plain, LockFree, web, child, rest
<1>9. CASE SpawnCli
  BY <1>0, <1>9 DEF SpawnCli, LockFree, web, child, rest
<1>10. CASE PumpReturns
  BY <1>0, <1>10 DEF PumpReturns, web, child, rest
<1>11. CASE Judge
  BY <1>0, <1>11 DEF Judge, Finish, Verdict, Diagnostic, ExitedWithZero, Completed, RecordFound,
     web, child, rest
<1>12. CASE SendReply
  BY <1>0, <1>12 DEF SendReply, web, child, rest
<1>13. CASE CheckpointPre
  BY <1>0, <1>13 DEF CheckpointPre, SlotFree, web, child, rest
<1>14. CASE StartConfig
  BY <1>0, <1>14 DEF StartConfig, web, child, rest
<1>15. CASE CheckpointRegistered
  BY <1>0, <1>15 DEF CheckpointRegistered, web, child, rest
<1>16. CASE CheckpointUnknown
  BY <1>0, <1>16 DEF CheckpointUnknown, web, child, rest
<1>17. CASE CheckpointComplete
  BY <1>0, <1>17 DEF CheckpointComplete, web, child, rest
<1>18. CASE CliExits
  BY <1>0, <1>18 DEF CliExits, web, child, rest
<1>19. CASE CliFails
  BY <1>0, <1>19 DEF CliFails, web, child, rest
<1>20. CASE CliKilled
  BY <1>0, <1>20 DEF CliKilled, web, child, rest
<1>21. CASE ConfigEnds
  BY <1>0, <1>21 DEF ConfigEnds, web, child, rest
<1>22. CASE PumpTimesOut
  BY <1>0, <1>22 DEF PumpTimesOut, DeadlinePassed, web, child, rest
<1>23. CASE ExecutorDies
  <2> SUFFICES ASSUME NEW c \in Clients
               PROVE  client'[c].state # "waiting" /\ (client'[c].state \in {"idle", "gaveup"} =>
                          client'[c] = client[c])
    OBVIOUS
  <2>1. client[c] \in Client
    OBVIOUS
  <2>2. client'[c] = IF client[c].state = "waiting"
                     THEN [client[c] EXCEPT !.state = "reset", !.waited = 0] ELSE client[c]
    BY <1>23 DEF ExecutorDies
  <2> QED
    BY <2>1, <2>2 DEF Client
<1>24. CASE ExecutorRestarts
  BY <1>0, <1>24 DEF ExecutorRestarts, web, child, rest
<1>25. CASE OperatorBegins
  BY <1>0, <1>25 DEF OperatorBegins, web, child, rest
<1>26. CASE OperatorEnds
  BY <1>0, <1>26 DEF OperatorEnds, SlotFree, web, child, rest
<1>27. CASE Tick
  BY <1>0, <1>27 DEF Tick, Patience, web, child, rest
<1>28. CASE UNCHANGED vars
  BY <1>0, <1>28 DEF vars, web, child, rest
<1>29. CASE RejectRequest
  BY <1>0, <1>29 DEF RejectRequest, Finish, Plain, web, child, rest
<1>30. CASE StateUnavailable
  BY <1>0, <1>30 DEF StateUnavailable, Finish, Plain, web, child, rest
<1>31. CASE PumpRaises
  BY <1>0, <1>31 DEF PumpRaises, Finish, Plain, web, child, rest
<1>32. CASE CliCutOff
  BY <1>0, <1>32 DEF CliCutOff, web, child, rest
<1> QED
  BY <1>1, <1>2, <1>3, <1>4, <1>5, <1>6, <1>7, <1>8, <1>9, <1>10, <1>11, <1>12, <1>13, <1>14,
     <1>15, <1>16, <1>17, <1>18, <1>19, <1>20, <1>21, <1>22, <1>23, <1>24, <1>25, <1>26, <1>27,
     <1>28, <1>29, <1>30, <1>31, <1>32 DEF Next, WebStep, ExecutorStep, CliStep

-----------------------------------------------------------------------------
(* The properties of the run.                                                 *)

EInv == Base /\ Cycle /\ Prompt

LEMMA InitEInv == Init => EInv
<1> SUFFICES ASSUME Init PROVE EInv
  OBVIOUS
<1>1. Base /\ Queued = {}
  BY InitBase, EmptyQueue DEF Init
<1>2. Cycle
  BY <1>1, ClientsAssumption DEF Init, Cycle, Unspawned, CliInv, RunInv, Unclosed, RepliesTrue,
     Running
<1>3. Prompt
  BY <1>1 DEF Init, Prompt, First
<1> QED
  BY <1>1, <1>2, <1>3 DEF EInv

\* The strengthening the other theorems rest on, for any number of Web
\* requests: v2_executor.serve to v2_closeout, their clients, the CLI and an
\* operator.
THEOREM ExecutorInductive == Spec => []EInv
<1>1. EInv /\ [Next]_vars => EInv'
  BY StepBase, CycleStep, PromptStep DEF EInv
<1> QED
  BY InitEInv, <1>1, PTL DEF Spec

\* Retries never register twice: what config.sh was asked for and no Remove
\* has closed is the registration of the one active cycle.
THEOREM RegisteredOnce == Spec => []NoDuplicateRegistration
<1>1. EInv => NoDuplicateRegistration
  <2> SUFFICES ASSUME EInv PROVE Cardinality(requested \ closed) <= 1
    BY DEF NoDuplicateRegistration
  <2>1. requested \ closed \subseteq {journal.by}
    BY DEF EInv, Cycle, Unclosed
  <2>2. IsFiniteSet({journal.by}) /\ Cardinality({journal.by}) = 1
    BY FS_Singleton
  <2> QED
    BY <2>1, <2>2, FS_Subset, FS_CardinalityType
<1> QED
  BY <1>1, ExecutorInductive, PTL

\* A failure that is neither UNKNOWN_RECONCILIATION_REQUIRED (v2_failure) nor a
\* bare `rejected` (service_one) is one: config.sh of the request was not
\* started, and what is left of its CLI cannot start it.
THEOREM FailuresAreDefinitive == Spec => []DefinitiveFailureIsTrue
<1>1. EInv => DefinitiveFailureIsTrue
  BY DEF EInv, Cycle, RepliesTrue, Truthful, DefinitiveFailureIsTrue, Definitive
<1> QED
  BY <1>1, ExecutorInductive, PTL

\* v2_closeout reports success of the cycle this very request has opened and
\* completed.
THEOREM SuccessesAreOwn == Spec => []SuccessIsOwn
<1>1. EInv => SuccessIsOwn
  BY DEF EInv, Cycle, RepliesTrue, Truthful, Own, SuccessIsOwn
<1> QED
  BY <1>1, ExecutorInductive, PTL

\* The 930 seconds of the client outlast the 900 of the pump: only who was
\* behind another request gives up on a mutation.
THEOREM LoneClientsAreAnswered == Spec => []LoneClientHearsOutcome
<1>1. EInv => LoneClientHearsOutcome
  BY DEF EInv, Prompt, LoneClientHearsOutcome
<1> QED
  BY <1>1, ExecutorInductive, PTL

\* Whoever writes the ledger holds the host mutation lock; the CLI of an
\* Executor that died, or gave up on it, no longer can.
THEOREM LedgerIsLocked ==
    Spec => [][journal' # journal =>
                  \/ lock = "executor" /\ leader \in Alive /\ ~operator
                  \/ lock = "cli" /\ operator]_vars
<1> DEFINE Locked == journal' # journal =>
                        \/ lock = "executor" /\ leader \in Alive /\ ~operator
                        \/ lock = "cli" /\ operator
<1>1. EInv /\ [Next]_vars => [Locked]_vars
  <2> SUFFICES ASSUME EInv, Next PROVE Locked
    OBVIOUS
  <2> USE DEF EInv, Base, TypeOK, LockHeld, Running, Alive
  <2>1. CASE CheckpointPre \/ CheckpointRegistered \/ CheckpointUnknown \/ CheckpointComplete
    BY <2>1 DEF CheckpointPre, CheckpointRegistered, CheckpointUnknown, CheckpointComplete
  <2>2. CASE OperatorEnds
    BY <2>2 DEF OperatorEnds
  <2>3. CASE UNCHANGED journal
    BY <2>3
  <2> QED
    BY <2>1, <2>2, <2>3 DEF Next, WebStep, GiveUp, SendRequest, SendRefused, ExecutorStep, Accept,
       ServeStatus, RejectRequest, Busy, StateUnavailable, RejectRemove, SpawnFails, SpawnCli,
       PumpReturns, PumpRaises, Judge, SendReply,
       CliStep, StartConfig, CliExits, CliFails, CliKilled, CliCutOff, ConfigEnds, PumpTimesOut, ExecutorDies,
       ExecutorRestarts, OperatorBegins, Tick, child, rest
<1> QED
  BY <1>1, ExecutorInductive, PTL DEF Spec

-----------------------------------------------------------------------------
(* The Executor implements MutationService.                                   *)

Nothing(r) == r.error # "ok" /\ ~LeavesOpen(r)

\* A journal is of a Create, and not of one that was answered definitively.
Innocent ==
    /\ \A c \in Clients : c \in requested \/ journal.by = c => client[c].op = "create"
    /\ phase = "reply" /\ client[serving].op # "status" /\ Nothing(reply) => journal.by # serving
    /\ \A c \in Clients :
          client[c].state = "answered" /\ Nothing(client[c].answer) => journal.by # c
    /\ journal.by = None => journal.stage = "ABSENT"

LEMMA InnocentStep ==
  ASSUME EInv, Innocent, [Next]_vars
  PROVE  Innocent'
<1> USE ClientsAssumption DEF EInv, Base, QueueInv, Pending, TypeOK, LockHeld, Running, Client,
        Cycle, Innocent
<1>1. CASE UNCHANGED <<client, phase, serving, reply, journal, requested>>
  BY <1>1
<1>2. ASSUME NEW c \in Clients, GiveUp(c) PROVE Innocent'
  BY <1>2 DEF GiveUp, child, rest
<1>3. ASSUME NEW c \in Clients, NEW op \in Ops, SendRequest(c, op) \/ SendRefused(c, op)
      PROVE  Innocent'
  <2>1. /\ client[c].state = "idle" /\ c # serving
        /\ client'[c].state \in {"waiting", "refused"}
        /\ \A d \in Clients \ {c} : client'[d] = client[d]
        /\ UNCHANGED <<phase, serving, reply, journal, requested>>
    BY <1>3 DEF SendRequest, SendRefused, child, rest
  <2>2. c \notin requested /\ journal.by # c
    BY <2>1 DEF Unspawned
  <2> QED
    BY <2>1, <2>2
<1>4. CASE Accept
  BY <1>4 DEF Accept, child, rest
<1>5. CASE ServeStatus
  BY <1>5 DEF ServeStatus, Finish, web, child, rest
<1>6. CASE RejectRequest \/ Busy \/ StateUnavailable \/ RejectRemove \/ SpawnFails
  <2>1. serving \in Clients /\ phase = "admit"
    BY <1>6 DEF RejectRequest, Busy, StateUnavailable, RejectRemove, SpawnFails
  <2>2. journal.by # serving
    BY <2>1 DEF Unspawned
  <2>3. UNCHANGED <<client, serving, journal, requested>>
    BY <1>6 DEF RejectRequest, Busy, StateUnavailable, RejectRemove, SpawnFails, web, child, rest
  <2> QED
    BY <2>2, <2>3
<1>7. CASE Judge
  <2>1. /\ phase = "judge" /\ phase' = "reply" /\ reply' = Verdict
        /\ UNCHANGED <<client, serving, journal, requested>>
    BY <1>7 DEF Judge, Finish, web, child, rest
  <2>2. Nothing(Verdict) => ~RecordFound
    BY DEF Nothing, LeavesOpen, Verdict, Diagnostic, NoReply
  <2>3. ~RecordFound => journal.by # serving
    BY <2>1 DEF RecordFound, RunInv
  <2> QED
    BY <2>1, <2>2, <2>3 DEF Nothing
<1>8. CASE SendReply
  <2>1. /\ phase = "reply" /\ phase' = "idle" /\ UNCHANGED <<journal, requested>>
        /\ \A c \in Clients \ {serving} : client'[c] = client[c]
        /\ client'[serving].op = client[serving].op
        /\ client'[serving] = client[serving] \/ client'[serving].answer = reply
    BY <1>8 DEF SendReply, child, rest
  <2>2. serving \in Clients
    BY <2>1
  <2>3. client[serving].op = "status" => journal.by # serving
    BY <2>2
  <2> HIDE DEF Client
  <2> QED
    BY <2>1, <2>2, <2>3 DEF Nothing
<1>9. CASE CheckpointPre
  <2>1. /\ phase = "run" /\ journal'.by = serving /\ UNCHANGED <<client, serving, phase, requested>>
    BY <1>9 DEF CheckpointPre, web, child, rest
  <2> QED
    BY <2>1
<1>10. CASE StartConfig
  <2>1. /\ journal.by \in Clients /\ requested' = requested \cup {journal.by}
        /\ UNCHANGED <<client, serving, phase, reply, journal>>
    BY <1>10 DEF StartConfig, web, child, rest
  <2> QED
    BY <2>1
<1>11. CASE CheckpointRegistered \/ CheckpointUnknown \/ CheckpointComplete
  <2>1. /\ journal'.by = journal.by /\ journal.by # None
        /\ UNCHANGED <<client, serving, phase, reply, requested>>
    BY <1>11 DEF CheckpointRegistered, CheckpointUnknown, CheckpointComplete, CliInv, web, child, rest
  <2> QED
    BY <2>1
<1>12. CASE ExecutorDies
  <2>1. \A c \in Clients : /\ client'[c].state = "answered" => client[c].state = "answered"
                          /\ client'[c].op = client[c].op /\ client'[c].answer = client[c].answer
    <3> SUFFICES ASSUME NEW c \in Clients
                 PROVE  /\ client'[c].state = "answered" => client[c].state = "answered"
                        /\ client'[c].op = client[c].op /\ client'[c].answer = client[c].answer
      OBVIOUS
    <3>1. client[c] \in Client
      OBVIOUS
    <3>2. client'[c] = IF client[c].state = "waiting"
                       THEN [client[c] EXCEPT !.state = "reset", !.waited = 0] ELSE client[c]
      BY <1>12 DEF ExecutorDies
    <3> QED
      BY <3>1, <3>2 DEF Client
  <2>2. phase' = "down" /\ UNCHANGED <<requested, journal>>
    BY <1>12 DEF ExecutorDies, child, rest
  <2> QED
    BY <2>1, <2>2 DEF Nothing
<1>13. CASE OperatorEnds
  <2>1. UNCHANGED <<client, serving, phase, reply, requested>>
    BY <1>13 DEF OperatorEnds, web, child
  <2>2. \/ UNCHANGED journal
        \/ journal'.by = "cli"
        \/ journal'.by = journal.by /\ journal.stage \in {"COMPLETE", "REGISTERED"}
    <3>1. CASE UNCHANGED journal
      BY <3>1
    <3>2. CASE \E s \in Stages : journal' = [by |-> "cli", stage |-> s, removed |-> FALSE]
      BY <3>2
    <3>3. CASE /\ journal.stage \in {"COMPLETE", "REGISTERED"}
               /\ journal' = [journal EXCEPT !.removed = TRUE,
                                  !.stage = IF @ = "REGISTERED" THEN "ABORTED" ELSE @]
      BY <3>3
    <3> QED
      BY <1>13, <3>1, <3>2, <3>3 DEF OperatorEnds, Stages
  <2>3. "cli" # None /\ "cli" \notin Clients
    OBVIOUS
  <2>4. serving \in Clients \/ serving = None
    OBVIOUS
  <2> QED
    BY <2>1, <2>2, <2>3, <2>4
<1>14. CASE Tick
  BY <1>14 DEF Tick, child, rest, Nothing
<1>15. CASE SpawnCli \/ PumpReturns \/ PumpTimesOut \/ ExecutorRestarts
  BY <1>15 DEF SpawnCli, PumpReturns, PumpTimesOut, ExecutorRestarts, web, child, rest
<1>16. CASE PumpRaises
  <2>1. reply' = Plain("rejected") /\ UNCHANGED <<client, serving, journal, requested>>
    BY <1>16 DEF PumpRaises, Finish, web, child, rest
  <2>2. ~Nothing(reply)'
    BY <2>1 DEF Nothing, LeavesOpen, Plain, NoReply
  <2> QED
    BY <2>1, <2>2 DEF Nothing
<1> QED
  BY <1>1, <1>2, <1>3, <1>4, <1>5, <1>6, <1>7, <1>8, <1>9, <1>10, <1>11, <1>12, <1>13, <1>14, <1>15,
     <1>16 DEF Next, WebStep, ExecutorStep, CliStep, CliExits, CliFails, CliKilled, CliCutOff, ConfigEnds,
     OperatorBegins, vars, web, child, rest

-----------------------------------------------------------------------------
LEMMA InitService == Init => Service!ServiceInit
<1> SUFFICES ASSUME Init PROVE Service!ServiceInit
  OBVIOUS
<1>1. Knowledge = [c \in Clients |-> "none"]
  <2>1. \A c \in Clients : Knows(c) = "none"
    BY DEF Init, Knows
  <2> QED
    BY <2>1 DEF Knowledge
<1>2. Taken = {}
  BY DEF Init, Taken
<1>3. Turn = None /\ Holder = None /\ ~Completed /\ requested = {} /\ closed = {}
  BY DEF Init, Turn, Holder, SlotFree, Completed
<1> QED
  BY <1>1, <1>2, <1>3 DEF Service!ServiceInit, Completed

\* The abstract variables before and after a step, from the concrete ones.
LEMMA Views ==
  ASSUME Base
  PROVE  /\ \A c \in Clients : Undecided(c) <=> c \in Queued \/ (c = serving /\ phase = "admit")
         /\ (\A c \in Clients : Undecided(c)' <=> c \in Queued' \/ (c = serving' /\ phase' = "admit"))
         /\ UNCHANGED client => UNCHANGED Knowledge
         /\ UNCHANGED queue => UNCHANGED Queued
         /\ UNCHANGED journal => UNCHANGED Holder /\ UNCHANGED Completed
         /\ UNCHANGED lock /\ UNCHANGED serving => UNCHANGED Turn
         /\ UNCHANGED <<client, queue, serving, phase>> => UNCHANGED Taken
<1> QED
  BY DEF Undecided, Queued, Knowledge, Knows, Holder, SlotFree, Completed, Turn, Taken

LEMMA KnowsOne ==
  ASSUME NEW c \in Clients, NEW st, Knowledge'[c] = st,
         \A d \in Clients \ {c} : client'[d] = client[d]
  PROVE  Knowledge' = [Knowledge EXCEPT ![c] = st]
<1>1. \A d \in Clients \ {c} : Knows(d)' = Knows(d)
  BY DEF Knows
<1>2. Knows(c)' = st
  BY DEF Knowledge
<1> QED
  BY <1>1, <1>2 DEF Knowledge

LEMMA WebImplements ==
  ASSUME Base, Base', NEW c \in Clients, NEW op \in Ops,
         GiveUp(c) \/ SendRequest(c, op) \/ SendRefused(c, op)
  PROVE  Service!Send(c) \/ Service!Refuse(c) \/ Service!Leave(c)
<1> USE ClientsAssumption DEF Base, QueueInv, Pending, TypeOK
<1>0. Queued \subseteq Clients
  BY LenProperties, ElementOfSeq DEF Queued
<1>1. \A d \in Clients \ {c} : client'[d] = client[d]
  BY DEF GiveUp, SendRequest, SendRefused
<1>2. UNCHANGED <<serving, phase, lock, journal, requested, closed>>
  BY DEF GiveUp, SendRequest, SendRefused, child, rest
<1>3. UNCHANGED Turn /\ UNCHANGED Holder /\ UNCHANGED Completed
  BY <1>2, Views
<1>4. Knowledge[c] = Knows(c) /\ Knowledge'[c] = Knows(c)'
  BY DEF Knowledge
<1>5. CASE GiveUp(c)
  <2>1. client[c].state = "waiting" /\ client'[c].state = "gaveup" /\ UNCHANGED queue
    BY <1>5 DEF GiveUp, Client
  <2>2. Knowledge[c] = "open" /\ Knowledge'[c] = "lost"
    BY <1>4, <2>1 DEF Knows
  <2>3. \A d \in Clients : client'[d].state = "idle" <=> client[d].state = "idle"
    BY <1>1, <2>1
  <2>4. UNCHANGED Taken
    BY <1>2, <2>1, <2>3 DEF Taken, Undecided
  <2> QED
    BY <1>1, <1>2, <1>3, <2>2, <2>4, KnowsOne DEF Service!Leave, Service!slot
<1>6. CASE SendRequest(c, op)
  <2>1. /\ client[c].state = "idle" /\ client'[c].state = "waiting"
        /\ queue' = Append(queue, c)
    BY <1>6 DEF SendRequest, Client
  <2>2. Knowledge[c] = "none" /\ Knowledge'[c] = "open"
    BY <1>4, <2>1 DEF Knows
  <2>3. c \notin Queued /\ c # serving /\ Queued' = Queued \cup {c}
    BY <2>1, AppendToQueue
  <2>4. \A d \in Clients : d \in Taken' <=> d \in Taken
    <3> SUFFICES ASSUME NEW d \in Clients PROVE d \in Taken' <=> d \in Taken
      OBVIOUS
    <3>1. CASE d = c
      BY <2>1, <2>3, <3>1, Views DEF Taken
    <3>2. CASE d # c
      BY <1>1, <1>2, <2>3, <3>2, Views DEF Taken
    <3> QED
      BY <3>1, <3>2
  <2>5. UNCHANGED Taken
    BY <2>4 DEF Taken
  <2> QED
    BY <1>1, <1>2, <1>3, <2>2, <2>5, KnowsOne DEF Service!Send, Service!slot
<1>7. CASE SendRefused(c, op)
  <2>1. client[c].state = "idle" /\ client'[c].state = "refused" /\ UNCHANGED queue
    BY <1>7 DEF SendRefused, Client
  <2>2. Knowledge[c] = "none" /\ Knowledge'[c] = "lost"
    BY <1>4, <2>1 DEF Knows
  <2>3. c \notin Queued /\ c # serving
    BY <2>1
  <2>4. Taken' = Taken \cup {c}
    <3>1. \A d \in Clients : d \in Taken' <=> d \in Taken \/ d = c
      BY <1>1, <1>2, <2>1, <2>3, Views DEF Taken
    <3> QED
      BY <3>1 DEF Taken
  <2> QED
    BY <1>1, <1>2, <1>3, <2>2, <2>4, KnowsOne DEF Service!Refuse, Service!slot
<1> QED
  BY <1>5, <1>6, <1>7

LEMMA ExecutorImplements ==
  ASSUME EInv, EInv', Innocent, ExecutorStep
  PROVE  [Service!ServiceNext]_Service!serviceVars
<1> USE ClientsAssumption DEF EInv, Base, QueueInv, Pending, TypeOK, LockHeld, Running
<1>0. /\ Queued \subseteq Clients
      /\ UNCHANGED queue => UNCHANGED Queued
  BY LenProperties, ElementOfSeq DEF Queued
<1>1. UNCHANGED <<journal, requested, closed>> /\ UNCHANGED Holder /\ UNCHANGED Completed
  <2>1. UNCHANGED <<journal, requested, closed>>
    BY DEF ExecutorStep, Accept, ServeStatus, RejectRequest, Busy, StateUnavailable, RejectRemove,
       SpawnFails, SpawnCli, PumpReturns, PumpRaises, Judge, SendReply, child, rest
  <2> QED
    BY <2>1, Views
<1>2. CASE Accept
  <2>1. /\ UNCHANGED <<client, lock>> /\ phase = "idle" /\ phase' = "admit"
        /\ queue # <<>> /\ serving' = Head(queue) /\ queue' = Tail(queue)
    BY <1>2 DEF Accept
  <2>2. Head(queue) \in Queued /\ Queued' = Queued \ {Head(queue)}
    BY <2>1, TailOfQueue
  <2>3. \A c \in Clients : Undecided(c)' <=> Undecided(c)
    BY <2>1, <2>2, Views
  <2>4. UNCHANGED Taken /\ UNCHANGED Turn /\ UNCHANGED Knowledge
    BY <2>1, <2>3, Views DEF Taken, Turn
  <2> QED
    BY <1>1, <2>4 DEF Service!serviceVars, Service!slot
<1>3. CASE ServeStatus \/ RejectRequest \/ Busy \/ StateUnavailable \/ RejectRemove \/ SpawnFails
           \/ SpawnCli
  <2>1. /\ UNCHANGED <<client, queue, serving>> /\ phase = "admit" /\ phase' \in {"reply", "run"}
        /\ \/ phase' = "reply" /\ UNCHANGED lock
           \/ phase' = "run" /\ lock = None /\ lock' = "executor"
    BY <1>3 DEF ServeStatus, RejectRequest, Busy, StateUnavailable, RejectRemove, SpawnFails,
       SpawnCli, LockFree, Finish, web
  <2>2. serving \in Clients /\ client[serving].state \in {"waiting", "gaveup"}
        /\ serving \notin Queued
    BY <2>1
  <2>3. serving \notin Taken /\ Taken' = Taken \cup {serving}
    <3>1. \A c \in Clients : c \in Taken <=> client[c].state # "idle" /\ c \notin Queued /\ c # serving
      BY <2>1, Views DEF Taken
    <3>2. \A c \in Clients : c \in Taken' <=> client[c].state # "idle" /\ c \notin Queued
      BY <1>0, <2>1, Views DEF Taken
    <3>3. Taken \subseteq Clients /\ Taken' \subseteq Clients
      BY DEF Taken
    <3> QED
      BY <2>2, <3>1, <3>2, <3>3
  <2>4. Knowledge[serving] # "none" /\ UNCHANGED Knowledge
    BY <2>1, <2>2, Views DEF Knowledge, Knows
  <2>5. Service!Take(serving)
    BY <1>1, <2>3, <2>4 DEF Service!Take, Service!slot
  <2>6. CASE UNCHANGED lock
    BY <2>1, <2>2, <2>5, <2>6, Views DEF Service!ServiceNext, Service!Decline
  <2>7. CASE phase' = "run" /\ lock = None /\ lock' = "executor"
    <3>1. Turn = None /\ Turn' = serving
      BY <2>1, <2>7 DEF Turn
    <3> QED
      BY <2>2, <2>5, <3>1 DEF Service!ServiceNext, Service!Begin
  <2> QED
    BY <2>1, <2>6, <2>7
<1>4. CASE PumpReturns
  <2>1. UNCHANGED <<client, queue, serving, lock>> /\ phase = "run" /\ phase' = "judge"
    BY <1>4 DEF PumpReturns, web
  <2>2. \A c \in Clients : Undecided(c)' <=> Undecided(c)
    BY <1>0, <2>1, Views
  <2>3. UNCHANGED Taken /\ UNCHANGED Turn /\ UNCHANGED Knowledge
    BY <2>1, <2>2, Views DEF Taken
  <2> QED
    BY <1>1, <2>3 DEF Service!serviceVars, Service!slot
<1>5. CASE Judge \/ PumpRaises
  <2>1. /\ UNCHANGED <<client, queue, serving>> /\ phase \in {"run", "judge"} /\ phase' = "reply"
        /\ lock' = None
    BY <1>5 DEF Judge, PumpRaises, Finish, web
  <2>2. \A c \in Clients : Undecided(c)' <=> Undecided(c)
    BY <1>0, <2>1, Views
  <2>3. UNCHANGED Taken /\ UNCHANGED Knowledge
    BY <2>1, <2>2, Views DEF Taken
  <2>4. lock = "executor" /\ serving \in Clients /\ Turn = serving /\ Turn' = None
    BY <2>1 DEF Turn
  <2> QED
    BY <1>1, <2>3, <2>4 DEF Service!ServiceNext, Service!EndTurn, Service!slot
<1>6. CASE SendReply
  <2>1. /\ UNCHANGED <<queue, lock>> /\ phase = "reply" /\ phase' = "idle" /\ serving' = None
        /\ \A c \in Clients \ {serving} : client'[c] = client[c]
    BY <1>6 DEF SendReply
  <2>2. serving \in Clients /\ lock # "executor" /\ serving \notin Queued
    BY <2>1
  <2>3. UNCHANGED Turn /\ Turn # serving
    BY <2>1, <2>2 DEF Turn
  <2>4. CASE client[serving].state = "waiting"
    <3>1. client'[serving] = [client[serving] EXCEPT !.state = "answered", !.waited = 0,
                                                    !.answer = reply]
      BY <1>6, <2>2, <2>4 DEF SendReply
    <3>2. /\ client'[serving].state = "answered" /\ client'[serving].op = client[serving].op
          /\ client'[serving].answer = reply
      BY <2>2, <3>1 DEF Client
    <3> DEFINE answer == Meaning(client[serving].op, reply)
    <3>3. Knowledge[serving] = "open" /\ Knowledge'[serving] = answer
      BY <2>2, <2>4, <3>2 DEF Knowledge, Knows
    <3>4. \A c \in Clients : client'[c].state = "idle" <=> client[c].state = "idle"
      BY <2>1, <2>4, <3>2
    <3>5. UNCHANGED Taken /\ serving \in Taken
      <4>1. \A c \in Clients : Undecided(c)' <=> Undecided(c)
        BY <1>0, <2>1, Views
      <4> QED
        BY <2>1, <2>2, <2>4, <3>4, <4>1, Views DEF Taken
    <3>6. answer \in {"done", "nothing", "unknown"} /\ Service!True(answer, serving)
      <4>1. CASE client[serving].op = "status"
        BY <1>1, <2>2, <4>1 DEF Meaning, Service!True, Innocent, Holder
      <4>2. CASE client[serving].op # "status" /\ reply.error = "ok"
        <5>1. Own(serving)
          BY <2>1, <4>2 DEF Cycle, RepliesTrue, Truthful
        <5>2. answer = "done"
          BY <4>2 DEF Meaning
        <5>3. journal = [by |-> serving, stage |-> "COMPLETE", removed |-> FALSE] =>
                  Holder = serving /\ Completed
          BY <2>2 DEF Holder, SlotFree, Completed
        <5> QED
          BY <5>1, <5>2, <5>3 DEF Own, Service!True
      <4>3. CASE client[serving].op # "status" /\ Nothing(reply)
        <5>1. serving \notin requested /\ journal.by # serving
          BY <2>1, <4>3 DEF Cycle, RepliesTrue, Truthful, Innocent, Nothing
        <5>2. answer = "nothing"
          BY <4>3 DEF Meaning, Nothing
        <5>3. Holder # serving
          BY <2>2, <5>1 DEF Holder
        <5> QED
          BY <5>1, <5>2, <5>3 DEF Service!True
      <4>4. CASE /\ client[serving].op # "status" /\ reply.error # "ok"
                 /\ LeavesOpen(reply)
        BY <4>4 DEF Meaning, Service!True
      <4> QED
        BY <4>1, <4>2, <4>3, <4>4 DEF Nothing
    <3> HIDE DEF answer
    <3>7. Knowledge' = [Knowledge EXCEPT ![serving] = answer]
      BY <2>1, <2>2, <3>3, KnowsOne
    <3>8. Service!Answer(serving)
      BY <1>1, <2>3, <3>3, <3>5, <3>6, <3>7 DEF Service!Answer, Service!slot
    <3> QED
      BY <2>2, <3>8 DEF Service!ServiceNext
  <2>5. CASE client[serving].state # "waiting"
    <3>1. UNCHANGED client
      BY <1>6, <2>5 DEF SendReply
    <3>2. \A c \in Clients : Undecided(c)' <=> Undecided(c)
      BY <1>0, <2>1, Views
    <3>3. UNCHANGED Taken /\ UNCHANGED Knowledge
      BY <3>1, <3>2, Views DEF Taken
    <3> QED
      BY <1>1, <2>3, <3>3 DEF Service!serviceVars, Service!slot
  <2> QED
    BY <2>4, <2>5
<1> QED
  BY <1>2, <1>3, <1>4, <1>5, <1>6 DEF ExecutorStep

LEMMA CliImplements ==
  ASSUME EInv, EInv', Innocent, CliStep
  PROVE  [Service!ServiceNext]_Service!serviceVars
<1> USE ClientsAssumption DEF EInv, Base, TypeOK, LockHeld, Running, Cycle, CliInv
<1>1. /\ UNCHANGED <<client, queue, serving, phase, lock, closed>>
      /\ UNCHANGED Knowledge /\ UNCHANGED Taken /\ UNCHANGED Turn
  <2>1. UNCHANGED <<client, queue, serving, phase, lock, closed>>
    BY DEF CliStep, CheckpointPre, StartConfig, CheckpointRegistered, CheckpointUnknown,
       CheckpointComplete, CliExits, CliFails, CliKilled, CliCutOff, ConfigEnds, web, rest
  <2> QED
    BY <2>1, Views
<1>2. phase = "run" => Turn = serving /\ serving \in Clients
  BY DEF Turn
<1>3. CASE CheckpointPre
  <2>1. /\ phase = "run" /\ SlotFree
        /\ journal' = [by |-> serving, stage |-> "PRE", removed |-> FALSE] /\ UNCHANGED requested
    BY <1>3 DEF CheckpointPre
  <2>2. Holder = None /\ Holder' = serving
    BY <1>1, <1>2, <2>1 DEF Holder, SlotFree
  <2>3. ~Completed /\ ~Completed'
    BY <2>1 DEF SlotFree, Completed, Innocent
  <2>4. Completed \in BOOLEAN /\ UNCHANGED Completed
    BY <2>3 DEF Completed
  <2> QED
    BY <1>1, <1>2, <2>1, <2>2, <2>4 DEF Service!ServiceNext, Service!Open
<1>4. CASE StartConfig
  <2>1. /\ journal.by \in Clients /\ journal.stage = "PRE" /\ ~journal.removed
        /\ requested' = requested \cup {journal.by} /\ UNCHANGED journal
    BY <1>4 DEF StartConfig, rest
  <2>2. Holder = journal.by /\ ~Completed
    BY <2>1 DEF Holder, SlotFree, Completed
  <2> QED
    BY <1>1, <2>1, <2>2, Views DEF Service!ServiceNext, Service!Ask
<1>5. CASE CheckpointRegistered \/ CheckpointUnknown
  <2>1. /\ journal.stage = "PRE" /\ journal'.stage # "COMPLETE" /\ journal'.by = journal.by
        /\ journal'.removed = journal.removed /\ UNCHANGED requested
    BY <1>5 DEF CheckpointRegistered, CheckpointUnknown
  <2>2. UNCHANGED Holder /\ UNCHANGED Completed
    BY <2>1 DEF Holder, SlotFree, Completed
  <2> QED
    BY <1>1, <2>1, <2>2 DEF Service!serviceVars, Service!slot
<1>6. CASE CheckpointComplete
  <2>1. /\ phase = "run" /\ leader = "registered" /\ UNCHANGED requested
        /\ journal' = [journal EXCEPT !.stage = "COMPLETE"]
    BY <1>6 DEF CheckpointComplete
  <2>2. /\ journal.by = serving /\ ~journal.removed /\ serving \in requested
        /\ journal'.by = journal.by /\ ~journal'.removed /\ journal'.stage = "COMPLETE"
    BY <2>1
  <2>3. Holder = serving /\ UNCHANGED Holder /\ Completed'
    BY <1>2, <2>2 DEF Holder, SlotFree, Completed
  <2>4. Completed' = TRUE
    BY <2>3 DEF Completed
  <2> QED
    BY <1>1, <1>2, <2>1, <2>2, <2>3, <2>4 DEF Service!ServiceNext, Service!Complete
<1>7. CASE CliExits \/ CliFails \/ CliKilled \/ CliCutOff \/ ConfigEnds
  <2>1. UNCHANGED <<journal, requested>>
    BY <1>7 DEF CliExits, CliFails, CliKilled, CliCutOff, ConfigEnds, rest
  <2> QED
    BY <1>1, <2>1, Views DEF Service!serviceVars, Service!slot
<1> QED
  BY <1>3, <1>4, <1>5, <1>6, <1>7 DEF CliStep

LEMMA OthersImplement ==
  ASSUME EInv, EInv', Innocent,
         \/ PumpTimesOut \/ ExecutorDies \/ ExecutorRestarts
         \/ OperatorBegins \/ OperatorEnds \/ Tick \/ UNCHANGED vars
  PROVE  [Service!ServiceNext]_Service!serviceVars
<1> USE ClientsAssumption DEF EInv, Base, QueueInv, Pending, TypeOK, LockHeld, Running
<1>0. /\ Queued \subseteq Clients
      /\ UNCHANGED queue => UNCHANGED Queued
  BY LenProperties, ElementOfSeq DEF Queued
<1>1. ASSUME UNCHANGED <<queue, serving, lock, journal, requested, closed>>,
             phase' = phase \/ {phase, phase'} \subseteq {"run", "judge", "down", "idle"},
             \A c \in Clients : /\ client'[c].state = client[c].state /\ client'[c].op = client[c].op
                                /\ client'[c].answer = client[c].answer
      PROVE  [Service!ServiceNext]_Service!serviceVars
  <2>1. \A c \in Clients : Knows(c)' = Knows(c)
    BY <1>1 DEF Knows
  <2>2. \A c \in Clients : Undecided(c)' <=> Undecided(c)
    BY <1>0, <1>1, Views
  <2>3. UNCHANGED Taken /\ UNCHANGED Knowledge
    BY <1>1, <2>1, <2>2 DEF Taken, Knowledge
  <2> QED
    BY <1>1, <2>3, Views DEF Service!serviceVars, Service!slot
<1>2. CASE PumpTimesOut
  BY <1>1, <1>2 DEF PumpTimesOut, web, rest
<1>3. CASE ExecutorRestarts
  BY <1>1, <1>3 DEF ExecutorRestarts, web, rest
<1>4. CASE Tick
  <2>1. ASSUME NEW c \in Clients
        PROVE  /\ client'[c].state = client[c].state /\ client'[c].op = client[c].op
               /\ client'[c].answer = client[c].answer
    <3>1. client[c] \in Client
      OBVIOUS
    <3>2. client'[c] = IF client[c].state = "waiting"
                       THEN [client[c] EXCEPT !.waited = @ + 1] ELSE client[c]
      BY <1>4 DEF Tick
    <3> QED
      BY <3>1, <3>2 DEF Client
  <2> QED
    BY <1>1, <1>4, <2>1 DEF Tick, rest, child
<1>5. CASE ExecutorDies
  <2>1. ASSUME NEW c \in Clients
        PROVE  /\ client'[c].state = IF client[c].state = "waiting" THEN "reset" ELSE client[c].state
               /\ client'[c].op = client[c].op /\ client'[c].answer = client[c].answer
    <3>1. client[c] \in Client
      OBVIOUS
    <3>2. client'[c] = IF client[c].state = "waiting"
                       THEN [client[c] EXCEPT !.state = "reset", !.waited = 0] ELSE client[c]
      BY <1>5 DEF ExecutorDies
    <3> QED
      BY <3>1, <3>2 DEF Client
  <2>2. /\ queue' = <<>> /\ serving' = None /\ phase' = "down"
        /\ lock' = IF lock = "executor" THEN None ELSE lock
        /\ UNCHANGED <<journal, requested, closed>>
    BY <1>5 DEF ExecutorDies, child, rest
  <2>3. Knowledge' = [c \in Clients |-> IF Knowledge[c] = "open" THEN "lost" ELSE Knowledge[c]]
    <3>1. \A c \in Clients : Knows(c)' = IF Knows(c) = "open" THEN "lost" ELSE Knows(c)
      BY <2>1 DEF Knows, Meaning
    <3> QED
      BY <3>1 DEF Knowledge
  <2>4. Taken' = {c \in Clients : Knowledge[c] # "none"}
    <3>1. Queued' = {}
      BY <2>2, EmptyQueue DEF Queued
    <3>2. \A c \in Clients : ~Undecided(c)'
      BY <2>2, <3>1, Views
    <3>3. \A c \in Clients : client'[c].state # "idle" <=> Knowledge[c] # "none"
      BY <2>1 DEF Knowledge, Knows, Meaning
    <3> QED
      BY <3>2, <3>3 DEF Taken
  <2>5. Turn' = IF Turn = "cli" THEN Turn ELSE None
    BY <2>2 DEF Turn
  <2> QED
    BY <2>2, <2>3, <2>4, <2>5, Views DEF Service!ServiceNext, Service!Crash, Service!slot
<1>6. CASE OperatorBegins
  <2>1. lock = None /\ lock' = "cli"
        /\ UNCHANGED <<client, queue, serving, phase, journal, requested, closed>>
    BY <1>6 DEF OperatorBegins, web, child
  <2>2. Turn = None /\ Turn' = "cli"
    BY <2>1 DEF Turn
  <2> QED
    BY <2>1, <2>2, Views DEF Service!ServiceNext, Service!TerminalBegins, Service!slot
<1>7. CASE OperatorEnds
  <2>1. lock = "cli" /\ lock' = None /\ UNCHANGED <<client, queue, serving, phase, requested>>
    BY <1>7 DEF OperatorEnds, web, child
  <2>2. Turn = "cli" /\ Turn' = None
    BY <2>1 DEF Turn
  <2>3. CASE UNCHANGED <<journal, closed>>
    BY <2>1, <2>2, <2>3, Views DEF Service!ServiceNext, Service!TerminalEnds
  <2>4. CASE /\ SlotFree /\ UNCHANGED closed
             /\ \E s \in Stages : journal' = [by |-> "cli", stage |-> s, removed |-> FALSE]
    <3>1. Holder = None /\ Holder' = "cli" /\ Completed' \in BOOLEAN
      BY <2>4 DEF Holder, SlotFree, Completed
    <3> QED
      BY <2>1, <2>2, <2>4, <3>1, Views DEF Service!ServiceNext, Service!TerminalEnds
  <2>5. CASE /\ journal.stage \in {"COMPLETE", "REGISTERED"} /\ ~journal.removed
             /\ journal' = [journal EXCEPT !.removed = TRUE,
                                !.stage = IF @ = "REGISTERED" THEN "ABORTED" ELSE @]
             /\ closed' = closed \cup ({journal.by} \cap Clients)
    <3>1. journal.by # None /\ journal'.removed
      BY <2>5 DEF Innocent
    <3>2. Holder = journal.by /\ Holder' = None
      BY <2>5, <3>1 DEF Holder, SlotFree
    <3>3. Completed' = FALSE
      BY <3>1 DEF Completed
    <3> QED
      BY <2>1, <2>2, <2>5, <3>1, <3>2, <3>3, Views DEF Service!ServiceNext, Service!TerminalEnds
  <2> QED
    BY <1>7, <2>3, <2>4, <2>5 DEF OperatorEnds, Stages
<1>8. CASE UNCHANGED vars
  BY <1>1, <1>8 DEF vars, web, rest, child
<1> QED
  BY <1>2, <1>3, <1>4, <1>5, <1>6, <1>7, <1>8

\* Queue, lock, CLI process group, deadline and restart are, for the Web, a
\* service that carries requests out at most once and one at a time, beside an
\* operator, and whose answers are true; one that was lost may still happen.
\* Code: serve to finish_mutation, send_request, lock_transaction.
THEOREM ExecutorIsService == Spec => ImplementsService
<1>1. Init => Innocent
  BY ClientsAssumption DEF Init, Innocent
<1>2. EInv /\ EInv' /\ Innocent /\ [Next]_vars => [Service!ServiceNext]_Service!serviceVars
  <2> SUFFICES ASSUME EInv, EInv', Innocent, [Next]_vars
               PROVE  [Service!ServiceNext]_Service!serviceVars
    OBVIOUS
  <2>1. CASE WebStep
    <3>1. PICK c \in Clients, op \in Ops : GiveUp(c) \/ SendRequest(c, op) \/ SendRefused(c, op)
      BY <2>1 DEF WebStep, Ops
    <3>2. Service!Send(c) \/ Service!Refuse(c) \/ Service!Leave(c)
      BY <3>1, WebImplements DEF EInv
    <3> QED
      BY <3>2 DEF Service!ServiceNext
  <2> QED
    BY <2>1, ExecutorImplements, CliImplements, OthersImplement DEF Next
<1> QED
  BY <1>1, <1>2, InitService, InnocentStep, ExecutorInductive, PTL
     DEF Spec, ImplementsService, Service!ServiceSpec
=============================================================================
