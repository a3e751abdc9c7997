--------------------------- MODULE ExecutorMutation ---------------------------
(* The root Executor (v2_executor, v2_mutation, v2_event_loop, v2_cli_spawn,  *)
(* v2_closeout, v2_failure) between the request threads of the Web server     *)
(* (v2_executor_client) and the CLI process it spawns.                        *)
(*                                                                            *)
(* The Executor serves one connection at a time; the others wait in the       *)
(* listen backlog with their request already sent, and stay there when their  *)
(* client gives up.  A mutation takes the host mutation lock, spawns the CLI  *)
(* as leader of a process group, serves its private requests until it exits   *)
(* or the deadline passes, judges the outcome from exit status and ledger,    *)
(* and releases the lock before it replies.  An error that escapes this way   *)
(* is answered `rejected`, without an outcome.  An operator at a terminal     *)
(* takes the same lock.  The Executor may die; systemd then kills what is left of   *)
(* its control group and restarts it.                                         *)
(*                                                                            *)
(* One runner slot.  Its ledger (LifecycleAuthority) is reduced to the        *)
(* journal of the active cycle, the CLI (RunnerLifecycle) to the stages the   *)
(* Executor can tell apart.  Time is counted in ticks; steps without a        *)
(* waiting time of their own take none.                                       *)
EXTENDS Naturals, Sequences, FiniteSets

CONSTANTS
    Clients,            \* requests, one Web server thread each
    None,
    Deadline,           \* min(runtime.timeout, 900) in ticks
    MutationPatience,   \* the 930 seconds of send_request
    StatusPatience,     \* its 20 seconds for Status
    Backlog             \* server.listen(8)

ASSUME TimesAssumption ==
    /\ Deadline \in Nat \ {0}
    /\ StatusPatience \in Nat \ {0}
    /\ MutationPatience \in Nat
    /\ MutationPatience > Deadline
    /\ Backlog \in Nat \ {0}

ASSUME ClientsAssumption ==
    {None, "cli"} \cap Clients = {} /\ None \notin {"cli", "executor"}

VARIABLES
    client,         \* request of each Web thread and what became of it
    queue,          \* connections in the backlog
    phase,          \* what the Executor does
    serving,        \* the connection it serves
    reply,          \* the result it is about to send
    lock,           \* holder of mutation.lock
    operator,       \* a CLI mutation runs at a terminal
    elapsed,        \* ticks since the CLI was spawned
    leader,         \* the CLI process: where it is, or how it ended
    group,          \* whose config.sh is alive in the CLI's process group
    journal,        \* active cycle: who opened it, its stage, whether closed
    requested,      \* clients whose CLI has started config.sh
    closed          \* clients whose cycle a Remove has closed since

web == <<client, queue>>
child == <<leader, group, requested>>
rest == <<operator, journal, closed>>
vars == <<web, phase, serving, reply, lock, elapsed, child, rest>>

Ops == {"status", "create", "remove"}
Stages == {"ABSENT", "PRE", "REGISTERED", "UNKNOWN", "COMPLETE", "ABORTED"}
Errors == {"ok", "rejected", "operation_in_progress", "state_unavailable",
           "remove_identity_rejected", "launcher_unavailable", "outcome_unknown",
           "lifecycle_failed", "completion_not_verified"}
Outcomes == {"FAILED_PRE_EXTERNAL", "UNKNOWN_RECONCILIATION_REQUIRED"}

Reply == [error : Errors, outcome : Outcomes \cup {None}]
NoReply == [error |-> "ok", outcome |-> None]
Plain(error) == [NoReply EXCEPT !.error = error]

\* "gaveup": the timeout of send_request; "refused": connect fails; "reset":
\* the connection breaks.  The Web thread calls all three request_rejected.
ClientStates == {"idle", "waiting", "answered", "gaveup", "refused", "reset"}
Client == [state : ClientStates, op : Ops, waited : 0..(MutationPatience + StatusPatience),
           behind : BOOLEAN, target : Clients \cup {"cli", None}, answer : Reply]

\* "unread": killed between the Executor's reply to a private request and its
\* own reading of it, so that the control socket is reset, not closed.
Leaders == {"none", "start", "pre", "configuring", "registered", "complete",
            "exit0", "failed", "signaled", "unread"}
Alive == {"start", "pre", "configuring", "registered", "complete"}

TypeOK ==
    /\ client \in [Clients -> Client]
    /\ queue \in Seq(Clients) /\ Len(queue) <= Backlog
    /\ phase \in {"idle", "admit", "run", "judge", "reply", "down"}
    /\ serving \in Clients \cup {None}
    /\ reply \in Reply
    /\ lock \in {None, "executor", "cli"}
    /\ operator \in BOOLEAN
    /\ elapsed \in 0..Deadline
    /\ leader \in Leaders
    /\ group \in Clients \cup {None}
    /\ journal \in [by : Clients \cup {"cli", None}, stage : Stages, removed : BOOLEAN]
    /\ requested \subseteq Clients
    /\ closed \subseteq Clients

Init ==
    /\ client = [c \in Clients |-> [state |-> "idle", op |-> "status", waited |-> 0,
                    behind |-> FALSE, target |-> None, answer |-> NoReply]]
    /\ queue = <<>>
    /\ phase = "idle" /\ serving = None /\ reply = NoReply
    /\ lock = None /\ operator = FALSE /\ elapsed = 0
    /\ leader = "none" /\ group = None
    /\ journal = [by |-> None, stage |-> "ABSENT", removed |-> FALSE]
    /\ requested = {} /\ closed = {}

-----------------------------------------------------------------------------
(* Web threads.                                                               *)

\* completed_mutation of a Create: CREATE_COMPLETE, and the directory exists.
Completed == journal.stage = "COMPLETE" /\ ~journal.removed

\* The kernel queues a connection while the backlog is not full.
BacklogHasRoom == Len(queue) < Backlog

\* connect and sendall; the backlog takes the frame before anybody reads it.
\* A Remove names the completed cycle that Status showed.
SendRequest(c, op) ==
    /\ client[c].state = "idle"
    /\ phase # "down" /\ BacklogHasRoom
    /\ client' = [client EXCEPT ![c].state = "waiting", ![c].op = op,
                     ![c].behind = serving # None \/ queue # <<>>,
                     ![c].target = IF op = "remove" /\ Completed THEN journal.by ELSE None]
    /\ queue' = Append(queue, c)
    /\ UNCHANGED <<phase, serving, reply, lock, elapsed, child, rest>>

\* The Executor is down, or the backlog is full.
SendRefused(c, op) ==
    /\ client[c].state = "idle"
    /\ phase = "down" \/ ~BacklogHasRoom
    /\ client' = [client EXCEPT ![c].state = "refused", ![c].op = op]
    /\ UNCHANGED <<queue, phase, serving, reply, lock, elapsed, child, rest>>

\* sock.settimeout(20 if request.op == "status" else 930)
PatienceUniform(op) == StatusPatience
Patience(op) == IF op = "status" THEN StatusPatience ELSE MutationPatience

\* recv times out: the socket is closed, the request stays where it is.
GiveUp(c) ==
    /\ client[c].state = "waiting"
    /\ client[c].waited = Patience(client[c].op)
    /\ client' = [client EXCEPT ![c].state = "gaveup", ![c].waited = 0]
    /\ UNCHANGED <<queue, phase, serving, reply, lock, elapsed, child, rest>>

-----------------------------------------------------------------------------
(* serve, service_one and execute_mutation up to the pump.                    *)

Accept ==
    /\ phase = "idle" /\ queue # <<>>
    /\ serving' = Head(queue)
    /\ queue' = Tail(queue)
    /\ phase' = "admit"
    /\ UNCHANGED <<client, reply, lock, elapsed, child, rest>>

Finish(answer) == reply' = answer /\ phase' = "reply"

\* An error outside the answers of execute_mutation: the peer, the frame, the
\* status projection, the control socket.  If the lock was taken, it is back.
RejectRequest ==
    /\ phase = "admit"
    /\ Finish(Plain("rejected"))
    /\ UNCHANGED <<web, serving, lock, elapsed, child, rest>>

ServeStatus ==
    /\ phase = "admit" /\ client[serving].op = "status"
    /\ Finish(NoReply)
    /\ UNCHANGED <<web, serving, lock, elapsed, child, rest>>

\* lock_transaction: LOCK_EX | LOCK_NB.
LockIgnored == TRUE
LockFree == lock = None

Busy ==
    /\ phase = "admit" /\ client[serving].op # "status"
    /\ ~LockFree
    /\ Finish(Plain("operation_in_progress"))
    /\ UNCHANGED <<web, serving, lock, elapsed, child, rest>>

\* lock_transaction finds the lock file unfit or cannot open it; it looks at
\* the file before it tries the lock.
StateUnavailable ==
    /\ phase = "admit" /\ client[serving].op # "status"
    /\ Finish(Plain("state_unavailable"))
    /\ UNCHANGED <<web, serving, lock, elapsed, child, rest>>

\* check_remove_target passes allow_legacy to a validate_runner_dir that has
\* no such parameter; its handler turns the TypeError into RemoveGuardError.
RejectRemove ==
    /\ phase = "admit" /\ client[serving].op = "remove"
    /\ LockFree
    /\ Finish(Plain("remove_identity_rejected"))
    /\ UNCHANGED <<web, serving, lock, elapsed, child, rest>>

SpawnFails ==
    /\ phase = "admit" /\ client[serving].op = "create"
    /\ LockFree
    /\ Finish(Plain("launcher_unavailable"))
    /\ UNCHANGED <<web, serving, lock, elapsed, child, rest>>

SpawnCli ==
    /\ phase = "admit" /\ client[serving].op = "create"
    /\ LockFree
    /\ lock' = "executor"
    /\ leader' = "start"
    /\ phase' = "run"
    /\ UNCHANGED <<web, serving, reply, elapsed, group, requested, rest>>

-----------------------------------------------------------------------------
(* The CLI and its private requests, which only the pump serves.              *)

\* create_stage opens a cycle only in a free slot.
SlotAssumedFree == TRUE
SlotFree == journal.by = None \/ journal.removed

CheckpointPre ==
    /\ phase = "run" /\ leader = "start"
    /\ SlotFree
    /\ journal' = [by |-> serving, stage |-> "PRE", removed |-> FALSE]
    /\ leader' = "pre"
    /\ UNCHANGED <<web, phase, serving, reply, lock, elapsed, group, requested, operator, closed>>

\* config.sh starts, and may reach GitHub at any time from now on.  It needs
\* no private request, so the CLI of an Executor that died gets here as well.
StartConfig ==
    /\ leader = "pre" /\ journal.by \in Clients
    /\ leader' = "configuring"
    /\ group' = journal.by
    /\ requested' = requested \cup {journal.by}
    /\ UNCHANGED <<web, phase, serving, reply, lock, elapsed, rest>>

\* config.sh succeeded: REGISTERED_PERMISSION_INCOMPLETE and what follows.
CheckpointRegistered ==
    /\ phase = "run" /\ leader = "configuring"
    /\ group' = None
    /\ journal' = [journal EXCEPT !.stage = "REGISTERED"]
    /\ leader' = "registered"
    /\ UNCHANGED <<web, phase, serving, reply, lock, elapsed, requested, operator, closed>>

\* The script ends with it, whether or not it lives to read the reply.
CheckpointUnknown ==
    /\ phase = "run" /\ leader = "configuring"
    /\ group' = None
    /\ journal' = [journal EXCEPT !.stage = "UNKNOWN"]
    /\ leader' \in {"failed", "unread"}
    /\ UNCHANGED <<web, phase, serving, reply, lock, elapsed, requested, operator, closed>>

CheckpointComplete ==
    /\ phase = "run" /\ leader = "registered"
    /\ journal' = [journal EXCEPT !.stage = "COMPLETE"]
    /\ leader' = "complete"
    /\ UNCHANGED <<web, phase, serving, reply, lock, elapsed, group, requested, operator, closed>>

CliExits ==
    /\ leader = "complete"
    /\ leader' = "exit0"
    /\ UNCHANGED <<web, phase, serving, reply, lock, elapsed, group, requested, rest>>

\* Any error of the script, a rejected private request included; config.sh is
\* a foreground command, so the script does not outrun it.
CliFails ==
    /\ leader \in Alive
    /\ leader' = "failed"
    /\ group' = IF leader = "configuring" THEN None ELSE group
    /\ UNCHANGED <<web, phase, serving, reply, lock, elapsed, requested, rest>>

\* A signal from elsewhere ends the script alone; config.sh lives on.
CliKilled ==
    /\ leader \in Alive
    /\ leader' = "signaled"
    /\ UNCHANGED <<web, phase, serving, reply, lock, elapsed, group, requested, rest>>

\* The script is killed before it reads the reply to a private request, one
\* that was answered `rejected` included.  It asks nothing while config.sh,
\* which does not inherit the socket, is running.
CliCutOff ==
    /\ phase = "run" /\ leader \in Alive
    /\ leader' = "unread"
    /\ group' = IF leader = "configuring" THEN None ELSE group
    /\ UNCHANGED <<web, phase, serving, reply, lock, elapsed, requested, rest>>

ConfigEnds ==
    /\ group # None /\ leader # "configuring"
    /\ group' = None
    /\ UNCHANGED <<web, phase, serving, reply, lock, elapsed, leader, requested, rest>>

-----------------------------------------------------------------------------
(* pump_transaction, terminate_group and the judgement.                       *)

\* The leader is reaped and its output is at end of file: no process of the
\* group holds the pipe.
PumpReturns ==
    /\ phase = "run" /\ leader \in {"exit0", "failed", "signaled", "unread"}
    /\ group # serving
    /\ phase' = "judge"
    /\ UNCHANGED <<web, serving, reply, lock, elapsed, child, rest>>

DeadlineIgnored == FALSE
DeadlinePassed == elapsed = Deadline

\* The deadline, or a reply that the CLI did not take.  terminate_group sends TERM
\* to the group and returns as soon as the leader is reaped, so KILL reaches
\* the rest of the group only if the leader outlived the grace period; a
\* leader that was reaped before is not followed by a signal at all.
PumpTimesOut ==
    /\ phase = "run"
    /\ DeadlinePassed \/ leader \in Alive \ {"configuring"}
    /\ IF leader \in Alive /\ group = serving
       THEN group' \in {group, None}
       ELSE UNCHANGED group
    /\ leader' = "none"
    /\ phase' = "judge"
    /\ UNCHANGED <<web, serving, reply, lock, elapsed, requested, rest>>

\* control.recv of a socket that was reset raises an OSError which the pump
\* does not catch, unless the leader was reaped before.  It leaves the pump and
\* the lock behind and service_one answers `rejected`: nothing is judged.
PumpRaises ==
    /\ phase = "run" /\ leader = "unread"
    /\ Finish(Plain("rejected"))
    /\ lock' = None
    /\ leader' = "none" /\ elapsed' = 0
    /\ UNCHANGED <<web, serving, group, requested, rest>>

\* diagnostic: conservative as soon as the ledger has a record of the slot in
\* one of SAFE_STAGES, whoever wrote it.  The ledger is taken to be readable:
\* diagnostic treats one that is not as one without a record.
NoRecord == FALSE
RecordFound == journal.stage \notin {"ABSENT", "ABORTED"}

Diagnostic(error) ==
    [error |-> error,
     outcome |-> IF error # "lifecycle_failed" \/ RecordFound
                 THEN "UNKNOWN_RECONCILIATION_REQUIRED" ELSE "FAILED_PRE_EXTERNAL"]

ExitedAtAll(status) == status \in {"exit0", "failed"}
ExitedWithZero(status) == status = "exit0"

Verdict ==
    IF leader \in {"none", "signaled", "unread"} THEN Diagnostic("outcome_unknown")
    ELSE IF ~ExitedWithZero(leader) THEN Diagnostic("lifecycle_failed")
    ELSE IF ~Completed THEN Diagnostic("completion_not_verified")
    ELSE NoReply

Judge ==
    /\ phase = "judge"
    /\ Finish(Verdict)
    /\ lock' = None
    /\ leader' = "none" /\ elapsed' = 0
    /\ UNCHANGED <<web, serving, group, requested, rest>>

\* sendall; BrokenPipeError of a client that gave up is ignored.
SendReply ==
    /\ phase = "reply"
    /\ client' = IF client[serving].state = "waiting"
                 THEN [client EXCEPT ![serving].state = "answered", ![serving].waited = 0,
                                     ![serving].answer = reply]
                 ELSE client
    /\ phase' = "idle" /\ serving' = None /\ reply' = NoReply
    /\ UNCHANGED <<queue, lock, elapsed, child, rest>>

-----------------------------------------------------------------------------
(* systemd, the operator and time.                                            *)

\* The Executor dies: flock and connections go with it, the CLI does not.
ExecutorDies ==
    /\ phase # "down"
    /\ phase' = "down" /\ serving' = None /\ reply' = NoReply
    /\ queue' = <<>> /\ elapsed' = 0
    /\ lock' = IF lock = "executor" THEN None ELSE lock
    /\ client' = [c \in Clients |-> IF client[c].state = "waiting"
                                    THEN [client[c] EXCEPT !.state = "reset", !.waited = 0]
                                    ELSE client[c]]
    /\ UNCHANGED <<child, rest>>

\* KillMode=control-group empties the cgroup before Restart=on-failure.
ExecutorRestarts ==
    /\ phase = "down"
    /\ leader' = "none" /\ group' = None
    /\ phase' = "idle"
    /\ UNCHANGED <<web, serving, reply, lock, elapsed, requested, rest>>

OperatorBegins ==
    /\ lock = None /\ ~operator
    /\ lock' = "cli" /\ operator' = TRUE
    /\ UNCHANGED <<web, phase, serving, reply, elapsed, child, journal, closed>>

\* What an operator's Create, Remove or reconciliation leaves of the cycle.
OperatorEnds ==
    /\ operator
    /\ operator' = FALSE
    /\ lock' = IF lock = "cli" THEN None ELSE lock
    /\ \/ UNCHANGED <<journal, closed>>
       \/ /\ SlotFree
          /\ \E s \in {"PRE", "REGISTERED", "UNKNOWN", "COMPLETE"} :
                 journal' = [by |-> "cli", stage |-> s, removed |-> FALSE]
          /\ UNCHANGED closed
       \/ /\ journal.stage \in {"COMPLETE", "REGISTERED"} /\ ~journal.removed
          /\ journal' = [journal EXCEPT !.removed = TRUE,
                            !.stage = IF @ = "REGISTERED" THEN "ABORTED" ELSE @]
          /\ closed' = closed \cup ({journal.by} \cap Clients)
    /\ UNCHANGED <<web, phase, serving, reply, elapsed, child>>

\* A tick passes when nobody has anything to do at once.
Tick ==
    /\ phase \in {"run", "idle", "down"}
    /\ phase = "idle" => queue = <<>>
    /\ phase = "run" => elapsed < Deadline
    /\ phase = "run" \/ \E c \in Clients : client[c].state = "waiting"
    /\ \A c \in Clients : client[c].state = "waiting" =>
           client[c].waited < Patience(client[c].op)
    /\ elapsed' = IF phase = "run" THEN elapsed + 1 ELSE elapsed
    /\ client' = [c \in Clients |-> IF client[c].state = "waiting"
                                    THEN [client[c] EXCEPT !.waited = @ + 1]
                                    ELSE client[c]]
    /\ UNCHANGED <<queue, phase, serving, reply, lock, child, rest>>

WebStep ==
    \E c \in Clients : \/ GiveUp(c)
                       \/ \E op \in Ops : SendRequest(c, op) \/ SendRefused(c, op)

ExecutorStep ==
    \/ Accept \/ ServeStatus \/ RejectRequest \/ Busy \/ StateUnavailable
    \/ RejectRemove \/ SpawnFails \/ SpawnCli
    \/ PumpReturns \/ PumpRaises \/ Judge \/ SendReply

CliStep ==
    \/ CheckpointPre \/ StartConfig \/ CheckpointRegistered \/ CheckpointUnknown
    \/ CheckpointComplete \/ CliExits \/ CliFails \/ CliKilled \/ CliCutOff \/ ConfigEnds

Next ==
    \/ WebStep \/ ExecutorStep \/ PumpTimesOut \/ CliStep
    \/ ExecutorDies \/ ExecutorRestarts
    \/ OperatorBegins \/ OperatorEnds
    \/ Tick

\* The Executor is a loop that does not stop by itself, its deadline fires,
\* systemd restarts it, and time passes.  Nothing is assumed of the CLI, of
\* config.sh or of the operator.
Fairness ==
    /\ WF_vars(ExecutorStep)
    /\ WF_vars(DeadlinePassed /\ PumpTimesOut)
    /\ WF_vars(ExecutorRestarts)
    /\ WF_vars(Tick)
    /\ WF_vars(\E c \in Clients : GiveUp(c))

Spec == Init /\ [][Next]_vars /\ Fairness

-----------------------------------------------------------------------------
(* What the Executor promises.                                                *)

\* An answer that leaves open what became of the request.  A bare `rejected` is
\* one of them: it answers requests that never began as well as pumps that an
\* error ended after config.sh was started, and the Web page says no more than
\* "was not confirmed".
LeavesOpen(answer) ==
    answer.outcome = "UNKNOWN_RECONCILIATION_REQUIRED" \/ answer.error = "rejected"

\* What an answer means: Status never changes anything.
Meaning(op, answer) ==
    IF op # "status" /\ answer.error = "ok" THEN "done"
    ELSE IF op # "status" /\ LeavesOpen(answer) THEN "unknown"
    ELSE "nothing"

Knows(c) ==
    IF client[c].state = "idle" THEN "none"
    ELSE IF client[c].state = "waiting" THEN "open"
    ELSE IF client[c].state = "answered" THEN Meaning(client[c].op, client[c].answer)
    ELSE "lost"

Knowledge == [c \in Clients |-> Knows(c)]

Undecided(c) == (\E k \in DOMAIN queue : queue[k] = c) \/ (c = serving /\ phase = "admit")
Taken == {c \in Clients : client[c].state # "idle" /\ ~Undecided(c)}

Turn == IF lock = "executor" THEN serving ELSE lock
Holder == IF SlotFree THEN None ELSE journal.by

Service == INSTANCE MutationService WITH
    Requests <- Clients, request <- Knowledge, taken <- Taken, turn <- Turn,
    holder <- Holder, complete <- Completed, asked <- requested

\* "Single-operation serialization": requests are carried out at most once and
\* one at a time, terminal commands included, and what their senders are told
\* is true, whoever gives up, dies or is killed, at whichever step.
ImplementsService == Service!ServiceSpec

\* However often a request is repeated after a timeout, a reset or an unknown
\* outcome, at most one registration of the slot has not been closed by a
\* Remove, the ones that late or orphaned config.sh processes make included.
NoDuplicateRegistration == Cardinality(requested \ closed) <= 1

\* "Never describe such an outcome as a definitive failure": every error of a
\* mutation but UNKNOWN_RECONCILIATION_REQUIRED and the bare `rejected`, which
\* tells nothing, means that its config.sh was not started, and never will be.
Definitive(c) ==
    /\ client[c].state = "answered" /\ client[c].op # "status"
    /\ client[c].answer.error # "ok" /\ ~LeavesOpen(client[c].answer)

DefinitiveFailureIsTrue == \A c \in Clients : Definitive(c) => c \notin requested

\* Success is reported only of a cycle that this very Create opened and
\* completed: since it was judged under the lock, nobody but an operator's
\* Remove can have changed that.
SuccessIsOwn ==
    \A c \in Clients :
        client[c].state = "answered" /\ client[c].op # "status"
        /\ client[c].answer.error = "ok" =>
            c \in requested /\ (journal = [by |-> c, stage |-> "COMPLETE", removed |-> FALSE]
                                 \/ c \in closed)

\* The client's 930 seconds outlast a mutation of 900: a client gives up on a
\* mutation only if its request had to wait behind another one.
LoneClientHearsOutcome ==
    \A c \in Clients :
        client[c].state = "gaveup" /\ client[c].op # "status" => client[c].behind

\* The Executor never keeps the lock for ever, whatever the CLI, config.sh
\* and the clients do, because its deadline ends the pump.
LockReleased == lock = "executor" ~> lock # "executor"

\* No request is stuck in the backlog: it is served or dropped.
BacklogDrains ==
    \A c \in Clients :
        (\E k \in DOMAIN queue : queue[k] = c) ~> ~(\E k \in DOMAIN queue : queue[k] = c)

-----------------------------------------------------------------------------
(* What documents and comments say and the code does not do.                  *)

\* The Executor authorises a Remove "solely through" peer, "strict target
\* tuple and current lifecycle attestation checks" and the lock (12.2): one
\* whose tuple matches the active attested cycle is not refused for identity.
MatchingRemoveAdmitted ==
    phase = "reply" /\ reply.error = "remove_identity_rejected" =>
        ~(Completed /\ client[serving].target = journal.by)
=============================================================================
