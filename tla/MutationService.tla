--------------------------- MODULE MutationService ---------------------------
(* What the root Executor promises the Web, without sockets, queues,          *)
(* processes, ledger stages or clocks.  A request is carried out at most      *)
(* once, perhaps after its sender has left; one at a time, commands at a      *)
(* terminal included; GitHub is asked only for the runner that holds the      *)
(* slot; and an answer that it was done, or that nothing was or will be done, *)
(* is true.  A sender that is told nothing may conclude nothing.              *)
CONSTANTS Requests, None

VARIABLES
    request,    \* what the sender of each request knows of it
    taken,      \* requests that nobody will begin (any more)
    turn,       \* who may change the slot: a request, "cli", or nobody
    holder,     \* whose runner holds the slot
    complete,   \* and whether it is complete
    asked,      \* requests for which GitHub was asked for a registration
    closed      \* requests whose runner was removed

slot == <<holder, complete, asked, closed>>
serviceVars == <<request, taken, turn, slot>>

ServiceInit ==
    /\ request = [c \in Requests |-> "none"]
    /\ taken = {} /\ turn = None
    /\ holder = None /\ complete = FALSE /\ asked = {} /\ closed = {}

Send(c) ==
    /\ request[c] = "none"
    /\ request' = [request EXCEPT ![c] = "open"]
    /\ UNCHANGED <<taken, turn, slot>>

Refuse(c) ==
    /\ request[c] = "none"
    /\ request' = [request EXCEPT ![c] = "lost"]
    /\ taken' = taken \cup {c}
    /\ UNCHANGED <<turn, slot>>

\* Its sender leaves; the request stays.
Leave(c) ==
    /\ request[c] = "open"
    /\ request' = [request EXCEPT ![c] = "lost"]
    /\ UNCHANGED <<taken, turn, slot>>

Take(c) ==
    /\ request[c] # "none" /\ c \notin taken
    /\ taken' = taken \cup {c}
    /\ UNCHANGED <<request, slot>>

Begin(c) == Take(c) /\ turn = None /\ turn' = c
Decline(c) == Take(c) /\ UNCHANGED turn

Open(c) ==
    /\ turn = c /\ holder = None
    /\ holder' = c
    /\ UNCHANGED <<request, taken, turn, complete, asked, closed>>

\* What was begun for a runner may reach GitHub after its turn.
Ask ==
    /\ holder \in Requests /\ ~complete
    /\ asked' = asked \cup {holder}
    /\ UNCHANGED <<request, taken, turn, holder, complete, closed>>

Complete(c) ==
    /\ turn = c /\ holder = c /\ c \in asked
    /\ complete' = TRUE
    /\ UNCHANGED <<request, taken, turn, holder, asked, closed>>

EndTurn(c) ==
    /\ turn = c
    /\ turn' = None
    /\ UNCHANGED <<request, taken, slot>>

True(answer, c) ==
    /\ answer = "done" => c \in asked /\ ((holder = c /\ complete) \/ c \in closed)
    /\ answer = "nothing" => c \notin asked /\ holder # c

Answer(c) ==
    /\ request[c] = "open" /\ c \in taken /\ turn # c
    /\ \E answer \in {"done", "nothing", "unknown"} :
           True(answer, c) /\ request' = [request EXCEPT ![c] = answer]
    /\ UNCHANGED <<taken, turn, slot>>

\* The service dies: all it knew of is lost, and will not be begun.
Crash ==
    /\ request' = [c \in Requests |-> IF request[c] = "open" THEN "lost" ELSE request[c]]
    /\ taken' = {c \in Requests : request[c] # "none"}
    /\ turn' = IF turn = "cli" THEN turn ELSE None
    /\ UNCHANGED slot

TerminalBegins ==
    /\ turn = None
    /\ turn' = "cli"
    /\ UNCHANGED <<request, taken, slot>>

TerminalEnds ==
    /\ turn = "cli"
    /\ turn' = None
    /\ \/ UNCHANGED <<holder, complete, closed>>
       \/ /\ holder = None
          /\ holder' = "cli" /\ complete' \in BOOLEAN
          /\ UNCHANGED closed
       \/ /\ holder # None
          /\ holder' = None /\ complete' = FALSE
          /\ closed' = closed \cup ({holder} \cap Requests)
    /\ UNCHANGED <<request, taken, asked>>

ServiceNext ==
    \/ \E c \in Requests :
           \/ Send(c) \/ Refuse(c) \/ Leave(c) \/ Begin(c) \/ Decline(c)
           \/ Open(c) \/ Complete(c) \/ EndTurn(c) \/ Answer(c)
    \/ Ask \/ Crash \/ TerminalBegins \/ TerminalEnds

ServiceSpec == ServiceInit /\ [][ServiceNext]_serviceVars
=============================================================================
