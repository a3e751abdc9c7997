------------------------------ MODULE WebSession ------------------------------
(* The Web server (web/app.py) as request threads of a ThreadingHTTPServer    *)
(* over three tables in memory: SESSIONS, the confirmations of each session,  *)
(* and LOGIN_ATTEMPTS.  A thread may be suspended between any two steps       *)
(* below; one operation on a dict or a list is one step.  Nothing survives a  *)
(* restart.  One repository and one source address; the Executor behind       *)
(* dispatch() may answer anything and may be slow.                            *)
EXTENDS Integers, Sequences, FiniteSets, FiniteSetsExt

CONSTANTS
    Requests,       \* request threads
    Sids,           \* session ids that secure_random_token may return
    Nonces,         \* and confirmation nonces
    Runners,        \* identities: runner name, GitHub id and instance
    None,
    Idle, Absolute, \* SESSION_IDLE, SESSION_ABSOLUTE, in ticks
    ConfirmTTL,     \* CONFIRM_TTL
    Window,         \* the 300 seconds of the login limiter
    Attempts,       \* and its 8 attempts
    MaxTime         \* bound of the clock

ASSUME SessionTimes ==
    /\ {Idle, Absolute, ConfirmTTL, Window, Attempts} \subseteq Nat \ {0}
    /\ ConfirmTTL <= Idle /\ Idle <= Absolute /\ MaxTime \in Nat

ASSUME NoneIsNoName == None \notin Sids \cup Nonces \cup Runners

VARIABLES
    clock,
    listed,     \* keys of SESSIONS
    session,    \* the session objects; a thread may hold one that was dropped
    page,       \* the confirmation a nonce stands for, as its page showed it
    attempts,   \* LOGIN_ATTEMPTS of the source: how many of each time
    req,        \* the request each thread serves and how far it is
    sent,       \* Removes sent to the Executor for each nonce
    lastUse,    \* when a request of the session was last accepted
    tries       \* login attempts recorded at each time of the window

tables == <<listed, session, page, attempts>>
history == <<sent, lastUse, tries>>
vars == <<clock, tables, req, history>>

Times == 0..MaxTime
Steps == {"idle", "trim", "limit", "count", "record", "verify", "session",
          "touch", "handle", "recheck"}

\* Attempts by the time they were made.  The limiter only asks whether there
\* are at least Attempts of them, so that more at one time count as Attempts.
Record == [Times -> 0..Attempts]
NoAttempts == [t \in Times |-> 0]
WithOne(record, t) == [record EXCEPT ![t] = Min({@ + 1, Attempts})]

Session == [created : Times, last : Times, confirm : SUBSET Nonces]
Page == [sid : Sids, target : Runners, expires : 0..(MaxTime + ConfirmTTL)]
ASSUME NoneIsNoRecord == None \notin Session \cup Page

Remove == [target : Runners, answer : SUBSET Runners, sid : Sids, at : Times]
Request == [pc : Steps, sid : Sids \cup {None}, nonce : Nonces \cup {None},
            at : Times, copy : Record, late : BOOLEAN]

NoRequest == [pc |-> "idle", sid |-> None, nonce |-> None, at |-> 0,
              copy |-> NoAttempts, late |-> FALSE]

\* The types of the variables.
SessionTypeOK ==
    /\ clock \in Times
    /\ session \in [Sids -> Session \cup {None}]
    /\ page \in [Nonces -> Page \cup {None}]
    /\ listed \subseteq {s \in Sids : session[s] # None}
    /\ attempts \in Record
    /\ req \in [Requests -> Request]
    /\ sent \in [Nonces -> Seq(Remove)]
    /\ lastUse \in [Sids -> Times] /\ tries \in Record

SessionInit ==
    /\ clock = 0 /\ listed = {} /\ attempts = NoAttempts
    /\ session = [s \in Sids |-> None] /\ page = [n \in Nonces |-> None]
    /\ req = [r \in Requests |-> NoRequest]
    /\ sent = [n \in Nonces |-> <<>>] /\ lastUse = [s \in Sids |-> 0]
    /\ tries = NoAttempts

At(r, step) == req[r].pc = step
GoTo(r, step) == req' = [req EXCEPT ![r].pc = step]
\* The thread has answered, or dropped the connection.
End(r) == req' = [req EXCEPT ![r] = NoRequest]

-----------------------------------------------------------------------------
(* Every request: the tables are pruned, then the session is looked up.       *)

\* SESSIONS.pop: of the object that threads may still hold only the
\* confirmations can matter again, so its times are forgotten.
DropSessions(gone) ==
    /\ listed' = listed \ gone
    /\ session' = [s \in Sids |-> IF s \in listed \cap gone
                      THEN [created |-> 0, last |-> 0, confirm |-> session[s].confirm]
                      ELSE session[s]]
    /\ lastUse' = [s \in Sids |-> IF s \in gone THEN 0 ELSE lastUse[s]]

SessionIsValid(s, t) ==
    /\ t - session[s].last <= Idle
    /\ t - session[s].created <= Absolute

AllTimes(record, t) == record
Recent(record, t) == [x \in Times |-> IF t - x < Window THEN record[x] ELSE 0]

\* Without a session one can only log in.
AfterPrune(s) == IF s = None THEN "limit" ELSE "session"

\* A browser sends the cookie of any session it was ever given, or none.  In
\* prune() stale sessions go; the attempts, if there are any, are copied
\* without the old ones, and the copy is stored a step later.
Arrive(r, s) ==
    /\ At(r, "idle")
    /\ s # None => session[s] # None
    /\ DropSessions({x \in listed : ~SessionIsValid(x, clock)})
    /\ req' = [req EXCEPT ![r] = [NoRequest EXCEPT
                  !.pc = IF attempts # NoAttempts THEN "trim" ELSE AfterPrune(s),
                  !.sid = s, !.late = s \notin listed, !.copy = Recent(attempts, clock)]]
    /\ UNCHANGED <<clock, page, attempts, sent, tries>>

TrimAttempts(r) ==
    /\ At(r, "trim")
    /\ attempts' = req[r].copy
    /\ req' = [req EXCEPT ![r].pc = AfterPrune(req[r].sid), ![r].copy = NoAttempts]
    /\ UNCHANGED <<clock, listed, session, page, history>>

\* Another thread changed a table under the iteration, or deleted the source:
\* RuntimeError or KeyError, and the request goes unanswered.
PruneRaises(r) ==
    /\ At(r, "trim")
    /\ \E other \in Requests \ {r} : ~At(other, "idle")
    /\ End(r)
    /\ UNCHANGED <<clock, tables, history>>

\* _session: without a cookie, or with that of an unknown or stale session, a
\* request is redirected to the login page.
NoSession(r) ==
    /\ At(r, "session") \/ At(r, "limit")
    /\ LET s == req[r].sid IN
        /\ s \in listed => ~SessionIsValid(s, clock)
        /\ DropSessions({s})
    /\ End(r)
    /\ UNCHANGED <<clock, page, attempts, sent, tries>>

AcceptSession(r) ==
    /\ At(r, "session")
    /\ LET s == req[r].sid IN
        /\ s \in listed /\ SessionIsValid(s, clock)
        /\ lastUse' = [lastUse EXCEPT ![s] = clock]
    /\ req' = [req EXCEPT ![r].pc = "touch", ![r].at = clock, ![r].late = FALSE]
    /\ UNCHANGED <<clock, tables, sent, tries>>

\* The new time of last use is the one that was judged, not that of the write.
TimeOfWrite(r) == clock
TimeJudged(r) == req[r].at
Touch(r) ==
    /\ At(r, "touch")
    /\ session' = [session EXCEPT ![req[r].sid].last =
                      IF req[r].sid \in listed THEN TimeJudged(r) ELSE @]
    /\ req' = [req EXCEPT ![r].pc = "handle", ![r].at = 0]
    /\ UNCHANGED <<clock, listed, page, attempts, history>>

-----------------------------------------------------------------------------
(* Login.                                                                     *)

ReadAttempts(r) ==
    /\ At(r, "limit")
    /\ req' = [req EXCEPT ![r].pc = "count", ![r].copy = Recent(attempts, clock)]
    /\ UNCHANGED <<clock, tables, history>>

\* The attempts of a list, told apart.
Made(record) == UNION {{t} \X (1..record[t]) : t \in Times}
UnderLimit(record) == Cardinality(Made(record)) < Attempts

AllowAttempt(r) ==
    /\ At(r, "count")
    /\ UnderLimit(req[r].copy)
    /\ attempts' = req[r].copy
    /\ req' = [req EXCEPT ![r].pc = "record", ![r].copy = NoAttempts]
    /\ UNCHANGED <<clock, listed, session, page, history>>

RefuseAttempt(r) ==
    /\ At(r, "count")
    /\ ~UnderLimit(req[r].copy)
    /\ attempts' = req[r].copy
    /\ End(r)
    /\ UNCHANGED <<clock, listed, session, page, history>>

RecordAttempt(r) ==
    /\ At(r, "record")
    /\ attempts' = WithOne(attempts, clock)
    /\ tries' = WithOne(tries, clock)
    /\ GoTo(r, "verify")
    /\ UNCHANGED <<clock, listed, session, page, sent, lastUse>>

WrongPassword(r) ==
    /\ At(r, "verify")
    /\ End(r)
    /\ UNCHANGED <<clock, tables, history>>

OpenSession(r) ==
    /\ At(r, "verify")
    /\ attempts' = NoAttempts
    /\ \E s \in Sids :
        /\ session[s] = None
        /\ session' = [session EXCEPT ![s] = [created |-> clock, last |-> clock, confirm |-> {}]]
        /\ listed' = listed \cup {s}
        /\ lastUse' = [lastUse EXCEPT ![s] = clock]
    /\ End(r)
    /\ UNCHANGED <<clock, page, sent, tries>>

-----------------------------------------------------------------------------
(* The handlers behind a session.  The path and the form of a request matter  *)
(* only here: any handler may follow, with the nonce of any page that was     *)
(* ever shown, in this session or in another.                                 *)

\* A form without the session's CSRF token or with a bad field, no candidate
\* for a Remove or no longer the one of the page, or nothing to change.
Answer(r) ==
    /\ At(r, "handle") \/ At(r, "recheck")
    /\ End(r)
    /\ UNCHANGED <<clock, tables, history>>

Logout(r) ==
    /\ At(r, "handle")
    /\ DropSessions({req[r].sid})
    /\ End(r)
    /\ UNCHANGED <<clock, page, attempts, sent, tries>>

\* /remove/prepare asks twice for the runners that can be removed: is there
\* one, and which is it.  The host may have changed in between, so that either
\* answer is any set of runners; two candidates are as bad as none.
Prepare(r) ==
    /\ At(r, "handle")
    /\ \E n \in Nonces, x \in Runners :
        /\ page[n] = None
        /\ page' = [page EXCEPT ![n] = [sid |-> req[r].sid, target |-> x,
                                        expires |-> clock + ConfirmTTL]]
        /\ session' = [session EXCEPT ![req[r].sid].confirm = @ \cup {n}]
    /\ End(r)
    /\ UNCHANGED <<clock, listed, attempts, history>>

KeepConfirmation(confirm, n) == confirm
PopConfirmation(confirm, n) == confirm \ {n}

\* consume_confirmation: the nonce is spent even if it is then found expired,
\* was meant for the other operation, or comes with a malformed token.
ClaimRejected(r, n) ==
    /\ At(r, "handle")
    /\ session' = [session EXCEPT ![req[r].sid].confirm = PopConfirmation(@, n)]
    /\ End(r)
    /\ UNCHANGED <<clock, listed, page, attempts, history>>

ClaimConfirmation(r, n) ==
    /\ At(r, "handle")
    /\ n \in session[req[r].sid].confirm
    /\ page[n].expires >= clock
    /\ session' = [session EXCEPT ![req[r].sid].confirm = PopConfirmation(@, n)]
    /\ req' = [req EXCEPT ![r].pc = "recheck", ![r].nonce = n, ![r].at = clock]
    /\ UNCHANGED <<clock, listed, page, attempts, history>>

AnyCandidate(answer, x) == answer # {}
OnlyCandidate(answer, x) == answer = {x}

\* The runner of the page must still be the only candidate for the Remove that
\* is then sent; the Executor's reply changes nothing here.
SendRemove(r) ==
    /\ At(r, "recheck")
    /\ LET n == req[r].nonce IN
        \E answer \in SUBSET Runners :
            /\ OnlyCandidate(answer, page[n].target)
            /\ sent' = [sent EXCEPT ![n] = Append(@, [target |-> page[n].target,
                           answer |-> answer, sid |-> req[r].sid, at |-> req[r].at])]
    /\ End(r)
    /\ UNCHANGED <<clock, tables, lastUse, tries>>

-----------------------------------------------------------------------------
(* The rest of the world.                                                     *)

Tick ==
    /\ clock < MaxTime
    /\ clock' = clock + 1
    /\ tries' = [t \in Times |-> IF clock' - t < Window THEN tries[t] ELSE 0]
    /\ UNCHANGED <<tables, req, sent, lastUse>>

\* The server is restarted: its threads and tables are gone, the browsers
\* keep their cookies and pages.
Restart ==
    /\ DropSessions(listed) /\ attempts' = NoAttempts
    /\ req' = [r \in Requests |-> NoRequest]
    /\ UNCHANGED <<clock, page, sent, tries>>

Serve(r) ==
    \/ \E s \in Sids \cup {None} : Arrive(r, s)
    \/ TrimAttempts(r) \/ PruneRaises(r)
    \/ NoSession(r) \/ AcceptSession(r) \/ Touch(r)
    \/ ReadAttempts(r) \/ AllowAttempt(r) \/ RefuseAttempt(r) \/ RecordAttempt(r)
    \/ WrongPassword(r) \/ OpenSession(r)
    \/ Answer(r) \/ Logout(r) \/ Prepare(r)
    \/ \E n \in Nonces : ClaimRejected(r, n) \/ ClaimConfirmation(r, n)
    \/ SendRemove(r)

SessionNext ==
    \/ \E r \in Requests : Serve(r)
    \/ Tick \/ Restart

SessionSpec == SessionInit /\ [][SessionNext]_vars

-----------------------------------------------------------------------------
(* Properties.                                                                *)

\* How far a confirmation is, for any reader of the tables and threads.
Offers(s, n) == session[s] # None /\ n \in session[s].confirm

StageOf(n) ==
    IF page[n] = None THEN "new" ELSE IF sent[n] # <<>> THEN "used"
    ELSE IF \E s \in Sids : Offers(s, n) THEN "offered"
    ELSE IF \E r \in Requests : At(r, "recheck") /\ req[r].nonce = n THEN "claimed"
    ELSE "void"

ActsOf(n) == [i \in DOMAIN sent[n] |-> [sid |-> sent[n][i].sid, target |-> sent[n][i].target]]

Consent == INSTANCE OneTimeConsent WITH
    Tokens <- Nonces, Owners <- Sids, Subjects <- Runners, Lifetime <- ConfirmTTL,
    now <- clock, given <- page, stage <- [n \in Nonces |-> StageOf(n)],
    acts <- [n \in Nonces |-> ActsOf(n)]

\* However often and from however many threads a confirmation is submitted,
\* it is claimed by one of them, in time and in its session, and at most one
\* Remove of the runner it showed is sent for it, restarts included.
\* Code: the pop of consume_confirmation, the nonces of /remove/prepare.
ImplementsConsent == Consent!ConsentSpec

\* A Remove names the runner of the page that was confirmed, in the session
\* that page was made for, before it expired, and the runner was the only
\* candidate in an answer of Status after the confirmation was claimed.
\* Code: consume_confirmation, _v2_remove_target and the comparison in
\* /remove/confirm.
RemovalIsConfirmed ==
    \A n \in Nonces : \A i \in DOMAIN sent[n] :
        LET remove == sent[n][i] IN
        /\ remove.target = page[n].target /\ remove.answer = {page[n].target}
        /\ remove.sid = page[n].sid /\ remove.at <= page[n].expires

\* A session that was logged out, pruned or lost in a restart, that is older
\* than its limit, or of which no request was accepted for the idle time, is
\* never accepted again, whatever late writes to its time of last use there are.
\* Code: _session, session_is_valid, prune, logout.
SessionEnds ==
    [][\A r \in Requests :
        (At(r, "session") /\ req'[r].pc = "touch") =>
            LET s == req[r].sid IN
            /\ ~req[r].late
            /\ clock - session[s].created <= Absolute
            /\ clock - lastUse[s] <= Idle]_vars

\* A login is found over the limit only if as many attempts were recorded in
\* the window before it: neither refusals nor stale copies of the list count.
\* Code: login_attempt_allowed, record_login_attempt, prune.
NoFalseLockout ==
    [][\A r \in Requests :
        (At(r, "limit") /\ req'[r].pc = "count" /\ ~UnderLimit(req'[r].copy)) =>
            Cardinality(Made(tries)) >= Attempts]_vars
=============================================================================
