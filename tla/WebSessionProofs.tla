---------------------------- MODULE WebSessionProofs ----------------------------
(* What WebSession promises of confirmations, of the end of a session and of  *)
(* the login limiter, for any number of request threads, sessions and nonces. *)
EXTENDS WebSession, FiniteSetTheorems, TLAPS

LEMMA MinOfTwo ==
  ASSUME NEW a \in Nat, NEW b \in Nat
  PROVE  Min({a, b}) \in 0..b
<1>1. \E x \in {a, b} : \A y \in {a, b} : x <= y
  <2>1. CASE a <= b
    BY <2>1
  <2>2. CASE ~(a <= b)
    BY <2>2
  <2> QED
    BY <2>1, <2>2
<1>2. Min({a, b}) \in {a, b} /\ \A y \in {a, b} : Min({a, b}) <= y
  BY <1>1 DEF Min
<1> QED
  BY <1>2

LEMMA RecordTypes ==
  ASSUME NEW record \in Record, NEW t \in Times
  PROVE  WithOne(record, t) \in Record /\ Recent(record, t) \in Record /\ NoAttempts \in Record
<1>1. Attempts \in Nat
  BY SessionTimes
<1>2. Min({record[t] + 1, Attempts}) \in 0..Attempts
  BY <1>1, MinOfTwo DEF Record
<1> QED
  BY <1>1, <1>2 DEF WithOne, Recent, NoAttempts, Record

\* However often and from however many threads a confirmation is submitted,
\* at most one Remove is sent for it, restarts included.
OneRemovalPerConfirmation == \A n \in Nonces : Len(sent[n]) <= 1

\* A thread behind the session check has a session, listed or not.
ThreadsHaveSessions ==
    \A r \in Requests :
        /\ req[r].sid # None => session[req[r].sid] # None
        /\ req[r].pc \in {"session", "touch", "handle", "recheck"} => req[r].sid # None

\* A confirmation that can still be claimed is one of its own session, and
\* nothing was sent for it yet.
OfferedIsUnused ==
    \A s \in Sids, n \in Nonces :
        session[s] # None /\ n \in session[s].confirm =>
            page[n] # None /\ page[n].sid = s /\ sent[n] = <<>>

\* A thread that has claimed one is the only thread that has, no session
\* offers it any more, and it was claimed in time.
ClaimIsExclusive ==
    \A r \in Requests : At(r, "recheck") =>
        LET n == req[r].nonce IN
        /\ n # None /\ page[n] # None /\ sent[n] = <<>>
        /\ page[n].sid = req[r].sid /\ req[r].at <= page[n].expires
        /\ \A q \in Requests \ {r} : At(q, "recheck") => req[q].nonce # n
        /\ \A s \in Sids : session[s] # None => n \notin session[s].confirm

NewNonceIsUnused == \A n \in Nonces : page[n] = None => sent[n] = <<>>

SInv ==
    /\ SessionTypeOK /\ ThreadsHaveSessions /\ OfferedIsUnused /\ ClaimIsExclusive
    /\ NewNonceIsUnused /\ OneRemovalPerConfirmation /\ RemovalIsConfirmed

-----------------------------------------------------------------------------

LEMMA TimesAreTypes ==
  /\ MaxTime \in Nat /\ 0 \in Times /\ NoRequest \in Request
  /\ None \notin Sids \cup Nonces \cup Runners
  /\ \A x \in Session \cup Page : x # None
<1>1. NoAttempts \in Record
  BY SessionTimes DEF NoAttempts, Record
<1>2. NoRequest \in Request
  BY <1>1, SessionTimes DEF NoRequest, Request, Steps, Times
<1> QED
  BY <1>2, SessionTimes, NoneIsNoName, NoneIsNoRecord DEF Times

LEMMA InitSInv == SessionInit => SInv
<1> SUFFICES ASSUME SessionInit PROVE SInv
  OBVIOUS
<1>1. SessionTypeOK
  <2>1. NoAttempts \in Record
    BY SessionTimes DEF NoAttempts, Record
  <2> QED
    BY <2>1, TimesAreTypes DEF SessionInit, SessionTypeOK
<1> QED
  BY <1>1, TimesAreTypes DEF SessionInit, SInv, ThreadsHaveSessions, OfferedIsUnused,
     ClaimIsExclusive, NewNonceIsUnused, OneRemovalPerConfirmation, RemovalIsConfirmed,
     NoRequest, At

\* The steps that neither offer, claim nor use a confirmation.
QuietStep(r, s) ==
    \/ Arrive(r, s) \/ TrimAttempts(r) \/ PruneRaises(r)
    \/ NoSession(r) \/ AcceptSession(r) \/ Touch(r)
    \/ ReadAttempts(r) \/ AllowAttempt(r) \/ RefuseAttempt(r) \/ RecordAttempt(r)
    \/ WrongPassword(r) \/ OpenSession(r) \/ Answer(r) \/ Logout(r)

\* What such a step leaves as it is.
Quiet ==
    /\ UNCHANGED <<page, sent>>
    /\ \A s \in Sids :
        /\ session[s] # None => session'[s] # None /\ session'[s].confirm = session[s].confirm
        /\ session[s] = None => session'[s] = None \/ session'[s].confirm = {}
    /\ \A q \in Requests :
        /\ req'[q].pc = "recheck" => req'[q] = req[q]
        /\ req'[q].sid \in {None, req[q].sid} \/ session[req'[q].sid] # None
        /\ req'[q].pc \in {"session", "touch", "handle", "recheck"} => req'[q].sid # None

LEMMA QuietKeepsSInv == SInv /\ Quiet /\ SessionTypeOK' => SInv'
<1> SUFFICES ASSUME SInv, Quiet, SessionTypeOK' PROVE SInv'
  OBVIOUS
<1> USE DEF SInv, Quiet, At
<1>0. \A q \in Requests : /\ req[q] \in Request /\ req'[q] \in Request
                          /\ req[q].sid \in Sids \cup {None} /\ req'[q].sid \in Sids \cup {None}
                          /\ req[q].nonce \in Nonces \cup {None}
  BY DEF SessionTypeOK, Request
<1>1. ThreadsHaveSessions'
  BY <1>0 DEF ThreadsHaveSessions
<1>2. OfferedIsUnused'
  BY DEF OfferedIsUnused
<1>3. ClaimIsExclusive'
  BY <1>0 DEF ClaimIsExclusive
<1>4. NewNonceIsUnused' /\ OneRemovalPerConfirmation' /\ RemovalIsConfirmed'
  BY DEF NewNonceIsUnused, OneRemovalPerConfirmation, RemovalIsConfirmed
<1> QED
  BY <1>1, <1>2, <1>3, <1>4

LEMMA QuietStepTypes ==
  ASSUME SInv, NEW r \in Requests, NEW s \in Sids \cup {None}, QuietStep(r, s)
  PROVE  SessionTypeOK'
<1> USE DEF SInv, SessionTypeOK, At, GoTo, End, tables, history
<1>1. /\ req[r] \in Request /\ req[r].sid \in Sids \cup {None} /\ req[r].at \in Times
      /\ req[r].copy \in Record /\ attempts \in Record /\ tries \in Record
      /\ NoRequest \in Request /\ clock \in Times /\ 0 \in Times
      /\ \A x \in Sids : session[x] # None => session[x] \in Session
      /\ \A record \in Record, t \in Times : WithOne(record, t) \in Record /\ Recent(record, t) \in Record
      /\ NoAttempts \in Record
  BY TimesAreTypes, RecordTypes DEF Request
<1>2. CASE Arrive(r, s)
  <2>1. req' \in [Requests -> Request]
    BY <1>1, <1>2 DEF Arrive, DropSessions, AfterPrune, NoRequest, Request, Steps
  <2>2. session' \in [Sids -> Session \cup {None}] /\ listed' \subseteq {x \in Sids : session'[x] # None}
    BY <1>1, <1>2, TimesAreTypes DEF Arrive, DropSessions, AfterPrune, NoRequest, Session
  <2> QED
    BY <1>1, <2>1, <2>2, <1>2 DEF Arrive, DropSessions, AfterPrune, NoRequest
<1>3. CASE TrimAttempts(r)
  <2>1. req' \in [Requests -> Request]
    BY <1>1, <1>3 DEF TrimAttempts, AfterPrune, Request, Steps
  <2>2. session' \in [Sids -> Session \cup {None}] /\ listed' \subseteq {x \in Sids : session'[x] # None}
    BY <1>1, <1>3, TimesAreTypes DEF TrimAttempts, AfterPrune, Session
  <2> QED
    BY <1>1, <2>1, <2>2, <1>3 DEF TrimAttempts, AfterPrune
<1>4. CASE PruneRaises(r)
  <2>1. req' \in [Requests -> Request]
    BY <1>1, <1>4 DEF PruneRaises, Request, Steps
  <2>2. session' \in [Sids -> Session \cup {None}] /\ listed' \subseteq {x \in Sids : session'[x] # None}
    BY <1>1, <1>4, TimesAreTypes DEF PruneRaises, Session
  <2> QED
    BY <1>1, <2>1, <2>2, <1>4 DEF PruneRaises
<1>5. CASE NoSession(r)
  <2>1. req' \in [Requests -> Request]
    BY <1>1, <1>5 DEF NoSession, DropSessions, Request, Steps
  <2>2. session' \in [Sids -> Session \cup {None}] /\ listed' \subseteq {x \in Sids : session'[x] # None}
    BY <1>1, <1>5, TimesAreTypes DEF NoSession, DropSessions, Session
  <2> QED
    BY <1>1, <2>1, <2>2, <1>5 DEF NoSession, DropSessions
<1>6. CASE AcceptSession(r)
  <2>1. req' \in [Requests -> Request]
    BY <1>1, <1>6 DEF AcceptSession, Request, Steps
  <2>2. session' \in [Sids -> Session \cup {None}] /\ listed' \subseteq {x \in Sids : session'[x] # None}
    BY <1>1, <1>6, TimesAreTypes DEF AcceptSession, Session
  <2> QED
    BY <1>1, <2>1, <2>2, <1>6 DEF AcceptSession
<1>7. CASE Touch(r)
  <2>1. req' \in [Requests -> Request]
    BY <1>1, <1>7 DEF Touch, TimeJudged, Request, Steps
  <2>2. req[r].sid \in Sids /\ session[req[r].sid] \in Session
    BY <1>1, <1>7 DEF Touch, ThreadsHaveSessions
  <2>3. [session[req[r].sid] EXCEPT !.last = req[r].at] \in Session
    BY <1>1, <2>2 DEF Session
  <2>4. session' = [session EXCEPT ![req[r].sid] = [@ EXCEPT !.last = req[r].at]] \/ session' = session
    BY <1>7, <2>2 DEF Touch, TimeJudged, Session
  <2>5. session' \in [Sids -> Session \cup {None}] /\ listed' \subseteq {x \in Sids : session'[x] # None}
    BY <2>2, <2>3, <2>4, <1>7, TimesAreTypes DEF Touch
  <2> QED
    BY <1>1, <2>1, <2>5, <1>7 DEF Touch, TimeJudged
<1>8. CASE ReadAttempts(r)
  <2>1. req' \in [Requests -> Request]
    BY <1>1, <1>8 DEF ReadAttempts, Request, Steps
  <2>2. session' \in [Sids -> Session \cup {None}] /\ listed' \subseteq {x \in Sids : session'[x] # None}
    BY <1>1, <1>8, TimesAreTypes DEF ReadAttempts, Session
  <2> QED
    BY <1>1, <2>1, <2>2, <1>8 DEF ReadAttempts
<1>9. CASE AllowAttempt(r)
  <2>1. req' \in [Requests -> Request]
    BY <1>1, <1>9 DEF AllowAttempt, Request, Steps
  <2>2. session' \in [Sids -> Session \cup {None}] /\ listed' \subseteq {x \in Sids : session'[x] # None}
    BY <1>1, <1>9, TimesAreTypes DEF AllowAttempt, Session
  <2> QED
    BY <1>1, <2>1, <2>2, <1>9 DEF AllowAttempt
<1>10. CASE RefuseAttempt(r)
  <2>1. req' \in [Requests -> Request]
    BY <1>1, <1>10 DEF RefuseAttempt, Request, Steps
  <2>2. session' \in [Sids -> Session \cup {None}] /\ listed' \subseteq {x \in Sids : session'[x] # None}
    BY <1>1, <1>10, TimesAreTypes DEF RefuseAttempt, Session
  <2> QED
    BY <1>1, <2>1, <2>2, <1>10 DEF RefuseAttempt
<1>11. CASE RecordAttempt(r)
  <2>1. req' \in [Requests -> Request]
    BY <1>1, <1>11 DEF RecordAttempt, Request, Steps
  <2>2. session' \in [Sids -> Session \cup {None}] /\ listed' \subseteq {x \in Sids : session'[x] # None}
    BY <1>1, <1>11, TimesAreTypes DEF RecordAttempt, Session
  <2> QED
    BY <1>1, <2>1, <2>2, <1>11 DEF RecordAttempt
<1>12. CASE WrongPassword(r)
  <2>1. req' \in [Requests -> Request]
    BY <1>1, <1>12 DEF WrongPassword, Request, Steps
  <2>2. session' \in [Sids -> Session \cup {None}] /\ listed' \subseteq {x \in Sids : session'[x] # None}
    BY <1>1, <1>12, TimesAreTypes DEF WrongPassword, Session
  <2> QED
    BY <1>1, <2>1, <2>2, <1>12 DEF WrongPassword
<1>13. CASE OpenSession(r)
  <2>1. req' \in [Requests -> Request]
    BY <1>1, <1>13 DEF OpenSession, Request, Steps
  <2> DEFINE opened == [created |-> clock, last |-> clock, confirm |-> {}]
  <2>2. PICK x \in Sids :
          /\ session' = [session EXCEPT ![x] = opened]
          /\ listed' = listed \cup {x}
          /\ lastUse' = [lastUse EXCEPT ![x] = clock]
    BY <1>13 DEF OpenSession
  <2>3. opened \in Session /\ opened # None
    BY <1>1, TimesAreTypes DEF Session
  <2>4. session' \in [Sids -> Session \cup {None}]
    BY <2>2, <2>3
  <2>5. \A y \in listed' : y \in Sids /\ session'[y] # None
    <3> HIDE DEF opened
    <3> QED
      BY <2>2, <2>3
  <2> QED
    BY <1>1, <2>1, <2>2, <2>4, <2>5, <1>13 DEF OpenSession
<1>14. CASE Answer(r)
  <2>1. req' \in [Requests -> Request]
    BY <1>1, <1>14 DEF Answer, Request, Steps
  <2>2. session' \in [Sids -> Session \cup {None}] /\ listed' \subseteq {x \in Sids : session'[x] # None}
    BY <1>1, <1>14, TimesAreTypes DEF Answer, Session
  <2> QED
    BY <1>1, <2>1, <2>2, <1>14 DEF Answer
<1>15. CASE Logout(r)
  <2>1. req' \in [Requests -> Request]
    BY <1>1, <1>15 DEF Logout, DropSessions, Request, Steps
  <2>2. session' \in [Sids -> Session \cup {None}] /\ listed' \subseteq {x \in Sids : session'[x] # None}
    BY <1>1, <1>15, TimesAreTypes DEF Logout, DropSessions, Session
  <2> QED
    BY <1>1, <2>1, <2>2, <1>15 DEF Logout, DropSessions
<1> QED
  BY <1>2, <1>3, <1>4, <1>5, <1>6, <1>7, <1>8, <1>9, <1>10, <1>11, <1>12, <1>13, <1>14, <1>15 DEF QuietStep

LEMMA QuietStepIsQuiet ==
  ASSUME SInv, NEW r \in Requests, NEW s \in Sids \cup {None}, QuietStep(r, s)
  PROVE  Quiet
<1> USE DEF SInv, SessionTypeOK, ThreadsHaveSessions, Quiet, At, GoTo, End, tables, history
<1>1. /\ \A q \in Requests : req[q] \in Request
      /\ \A x \in Sids : session[x] # None => session[x] \in Session
  OBVIOUS
<1>2. CASE Arrive(r, s)
  BY <1>1, <1>2, TimesAreTypes DEF Arrive, DropSessions, AfterPrune, NoRequest, Session, Request
<1>3. CASE TrimAttempts(r)
  BY <1>1, <1>3, TimesAreTypes DEF TrimAttempts, AfterPrune, NoRequest, Session, Request
<1>4. CASE PruneRaises(r)
  BY <1>1, <1>4, TimesAreTypes DEF PruneRaises, NoRequest, Session, Request
<1>5. CASE NoSession(r)
  BY <1>1, <1>5, TimesAreTypes DEF NoSession, DropSessions, NoRequest, Session, Request
<1>6. CASE AcceptSession(r)
  BY <1>1, <1>6, TimesAreTypes DEF AcceptSession, NoRequest, Session, Request
<1>7. CASE Touch(r)
  <2>1. req[r].sid \in Sids /\ session[req[r].sid] \in Session
    BY <1>1, <1>7 DEF Touch, Request
  <2>2. [session[req[r].sid] EXCEPT !.last = req[r].at] \in Session
    BY <1>1, <2>1 DEF Session, Request
  <2>3. session' = [session EXCEPT ![req[r].sid] = [@ EXCEPT !.last = req[r].at]] \/ session' = session
    BY <1>7, <2>1 DEF Touch, TimeJudged, Session
  <2>4. ASSUME NEW x \in Sids, session[x] # None
        PROVE  session'[x] # None /\ session'[x].confirm = session[x].confirm
    <3>1. session \in [Sids -> Session \cup {None}]
      OBVIOUS
    <3> DEFINE touched == [session[req[r].sid] EXCEPT !.last = req[r].at]
    <3>2. touched # None /\ touched.confirm = session[req[r].sid].confirm
      BY <2>1, <2>2, TimesAreTypes DEF Session
    <3>3. session' = [session EXCEPT ![req[r].sid] = touched] \/ session' = session
      BY <2>3
    <3> HIDE DEF touched, SInv, SessionTypeOK, Quiet
    <3> QED
      BY <2>1, <2>4, <3>1, <3>2, <3>3
  <2>5. \A x \in Sids : session[x] = None => session'[x] = None
    BY <2>1, <2>3, TimesAreTypes
  <2> QED
    BY <1>1, <1>7, <2>1, <2>4, <2>5 DEF Touch, Request
<1>8. CASE ReadAttempts(r)
  BY <1>1, <1>8, TimesAreTypes DEF ReadAttempts, NoRequest, Session, Request
<1>9. CASE AllowAttempt(r)
  BY <1>1, <1>9, TimesAreTypes DEF AllowAttempt, NoRequest, Session, Request
<1>10. CASE RefuseAttempt(r)
  BY <1>1, <1>10, TimesAreTypes DEF RefuseAttempt, NoRequest, Session, Request
<1>11. CASE RecordAttempt(r)
  BY <1>1, <1>11, TimesAreTypes DEF RecordAttempt, NoRequest, Session, Request
<1>12. CASE WrongPassword(r)
  BY <1>1, <1>12, TimesAreTypes DEF WrongPassword, NoRequest, Session, Request
<1>13. CASE OpenSession(r)
  BY <1>1, <1>13, TimesAreTypes DEF OpenSession, NoRequest, Session, Request
<1>14. CASE Answer(r)
  BY <1>1, <1>14, TimesAreTypes DEF Answer, NoRequest, Session, Request
<1>15. CASE Logout(r)
  BY <1>1, <1>15, TimesAreTypes DEF Logout, DropSessions, NoRequest, Session, Request
<1> QED
  BY <1>2, <1>3, <1>4, <1>5, <1>6, <1>7, <1>8, <1>9, <1>10, <1>11, <1>12, <1>13, <1>14, <1>15 DEF QuietStep

LEMMA TickKeepsSInv == SInv /\ Tick => SInv'
<1> SUFFICES ASSUME SInv, Tick PROVE SInv'
  OBVIOUS
<1>1. tries' \in Record
  BY TimesAreTypes, SessionTimes DEF SInv, SessionTypeOK, Tick, Record
<1>2. SessionTypeOK'
  BY <1>1, TimesAreTypes DEF SInv, SessionTypeOK, Tick, Times, tables
<1>3. Quiet
  BY DEF SInv, SessionTypeOK, ThreadsHaveSessions, Tick, Quiet, tables, Request
<1> QED
  BY <1>2, <1>3, QuietKeepsSInv

LEMMA RestartKeepsSInv == SInv /\ Restart => SInv'
<1> SUFFICES ASSUME SInv, Restart PROVE SInv'
  OBVIOUS
<1>1. \A x \in Sids : session[x] # None => session[x] \in Session
  BY DEF SInv, SessionTypeOK
<1>2. session' \in [Sids -> Session \cup {None}] /\ listed' = {}
  BY <1>1, TimesAreTypes DEF SInv, SessionTypeOK, Restart, DropSessions, Session
<1>3. SessionTypeOK'
  BY <1>2, TimesAreTypes, RecordTypes DEF SInv, SessionTypeOK, Restart, DropSessions
<1>4. Quiet
  BY <1>1, TimesAreTypes DEF SInv, SessionTypeOK, Restart, DropSessions, Quiet, NoRequest, Session
<1> QED
  BY <1>3, <1>4, QuietKeepsSInv

\* Preparing offers a nonce nobody has used: that is all the steps below need
\* of it, and each of them takes it from one hand to the next.
LEMMA PrepareKeepsSInv == ASSUME SInv, NEW r \in Requests, Prepare(r) PROVE SInv'
<1> USE DEF SInv, At
<1>1. PICK n \in Nonces, x \in Runners :
        /\ page[n] = None
        /\ page' = [page EXCEPT ![n] = [sid |-> req[r].sid, target |-> x,
                                        expires |-> clock + ConfirmTTL]]
        /\ session' = [session EXCEPT ![req[r].sid].confirm = @ \cup {n}]
  BY DEF Prepare
<1>2. /\ \A q \in Requests : req[q] \in Request
      /\ \A y \in Sids : session[y] # None => session[y] \in Session
  BY DEF SessionTypeOK
<1>3. req[r].sid \in Sids /\ session[req[r].sid] \in Session /\ session[req[r].sid] # None
  BY <1>2 DEF Prepare, ThreadsHaveSessions, Request
<1>4. [session[req[r].sid] EXCEPT !.confirm = @ \cup {n}] \in Session
  BY <1>3 DEF Session
<1>5. [sid |-> req[r].sid, target |-> x, expires |-> clock + ConfirmTTL] \in Page
  BY <1>3, SessionTimes DEF SessionTypeOK, Page, Times
<1>6. SessionTypeOK'
  <2>1. req' \in [Requests -> Request]
    BY TimesAreTypes DEF SessionTypeOK, Prepare, End
  <2>2. session' \in [Sids -> Session \cup {None}] /\ page' \in [Nonces -> Page \cup {None}]
    BY <1>1, <1>3, <1>4, <1>5 DEF SessionTypeOK, Session
  <2>3. \A y \in listed' : y \in Sids /\ session'[y] # None
    BY <1>1, <1>3, <1>4, TimesAreTypes DEF SessionTypeOK, Prepare, Session
  <2> QED
    BY <2>1, <2>2, <2>3 DEF SessionTypeOK, Prepare, history
<1>7. /\ \A y \in Sids : session'[y] # None <=> session[y] # None
      /\ session'[req[r].sid].confirm = session[req[r].sid].confirm \cup {n}
      /\ \A y \in Sids \ {req[r].sid} : session'[y] = session[y]
  BY <1>1, <1>3, <1>4, TimesAreTypes DEF SessionTypeOK, Session
<1>8. /\ page'[n].sid = req[r].sid /\ page'[n] # None /\ sent[n] = <<>> /\ sent' = sent
      /\ \A m \in Nonces \ {n} : page'[m] = page[m]
  BY <1>1, <1>5, TimesAreTypes DEF SessionTypeOK, NewNonceIsUnused, Prepare, history
<1>9. \A q \in Requests \ {r} : req'[q] = req[q]
  BY DEF Prepare, End, SessionTypeOK
<1>10. req'[r] = NoRequest
  BY DEF Prepare, End, SessionTypeOK
<1>11. ThreadsHaveSessions'
  BY <1>2, <1>7, <1>9, <1>10 DEF ThreadsHaveSessions, NoRequest, Request
<1>12. OfferedIsUnused'
  BY <1>1, <1>3, <1>7, <1>8 DEF OfferedIsUnused
<1>13. ClaimIsExclusive'
  BY <1>1, <1>2, <1>3, <1>7, <1>8, <1>9, <1>10 DEF ClaimIsExclusive, NoRequest, Request
<1>14. NewNonceIsUnused' /\ OneRemovalPerConfirmation' /\ RemovalIsConfirmed'
  BY <1>8 DEF NewNonceIsUnused, OneRemovalPerConfirmation, RemovalIsConfirmed
<1> QED
  BY <1>6, <1>11, <1>12, <1>13, <1>14

LEMMA ClaimKeepsSInv ==
  ASSUME SInv, NEW r \in Requests, NEW n \in Nonces, ClaimRejected(r, n) \/ ClaimConfirmation(r, n)
  PROVE  SInv'
<1> USE DEF SInv, At
<1>1. /\ \A q \in Requests : req[q] \in Request
      /\ \A y \in Sids : session[y] # None => session[y] \in Session
      /\ clock \in Times
  BY DEF SessionTypeOK
<1>2. req[r].sid \in Sids /\ session[req[r].sid] \in Session /\ session[req[r].sid] # None
  BY <1>1 DEF ClaimRejected, ClaimConfirmation, ThreadsHaveSessions, Request
<1>3. [session[req[r].sid] EXCEPT !.confirm = @ \ {n}] \in Session
  BY <1>2 DEF Session
<1>4. /\ session' = [session EXCEPT ![req[r].sid].confirm = @ \ {n}]
      /\ UNCHANGED <<clock, listed, page, attempts, history>>
  BY DEF ClaimRejected, ClaimConfirmation, PopConfirmation
<1>5. session' \in [Sids -> Session \cup {None}] /\ \A y \in listed' : y \in Sids /\ session'[y] # None
  BY <1>2, <1>3, <1>4, TimesAreTypes DEF SessionTypeOK
<1>6. /\ \A y \in Sids : session'[y] # None <=> session[y] # None
      /\ session'[req[r].sid].confirm = session[req[r].sid].confirm \ {n}
      /\ \A y \in Sids \ {req[r].sid} : session'[y] = session[y]
  BY <1>2, <1>3, <1>4, TimesAreTypes DEF SessionTypeOK, Session
<1>7. UNCHANGED <<page, sent>> /\ \A q \in Requests \ {r} : req'[q] = req[q]
  BY <1>4 DEF ClaimRejected, ClaimConfirmation, End, SessionTypeOK, history
<1>8. OfferedIsUnused' /\ NewNonceIsUnused' /\ OneRemovalPerConfirmation' /\ RemovalIsConfirmed'
  BY <1>2, <1>6, <1>7 DEF OfferedIsUnused, NewNonceIsUnused, OneRemovalPerConfirmation, RemovalIsConfirmed
<1>9. CASE ClaimRejected(r, n)
  <2>1. req'[r] = NoRequest /\ req' \in [Requests -> Request]
    BY <1>9, TimesAreTypes DEF ClaimRejected, End, SessionTypeOK
  <2>2. SessionTypeOK'
    BY <1>4, <1>5, <2>1 DEF SessionTypeOK, history
  <2>3. ThreadsHaveSessions'
    BY <1>1, <1>6, <1>7, <2>1 DEF ThreadsHaveSessions, NoRequest, Request
  <2>4. ClaimIsExclusive'
    BY <1>1, <1>2, <1>6, <1>7, <2>1 DEF ClaimIsExclusive, NoRequest, Request
  <2> QED
    BY <1>8, <2>2, <2>3, <2>4
<1>10. CASE ClaimConfirmation(r, n)
  <2>1. [req[r] EXCEPT !.pc = "recheck", !.nonce = n, !.at = clock] \in Request
    BY <1>1 DEF Request, Steps
  <2>2. req' = [req EXCEPT ![r] = [@ EXCEPT !.pc = "recheck", !.nonce = n, !.at = clock]]
    BY <1>10 DEF ClaimConfirmation
  <2>3. req' \in [Requests -> Request]
    BY <2>1, <2>2 DEF SessionTypeOK
  <2>4. req'[r].pc = "recheck" /\ req'[r].nonce = n /\ req'[r].at = clock /\ req'[r].sid = req[r].sid
    BY <1>1, <2>2 DEF SessionTypeOK, Request
  <2>5. SessionTypeOK'
    BY <1>4, <1>5, <2>3 DEF SessionTypeOK, history
  <2>6. ThreadsHaveSessions'
    BY <1>1, <1>2, <1>6, <1>7, <2>4, TimesAreTypes DEF ThreadsHaveSessions, Request
  <2>7. /\ n \in session[req[r].sid].confirm /\ page[n].expires >= clock
        /\ page[n] # None /\ page[n].sid = req[r].sid /\ sent[n] = <<>>
        /\ page[n].expires \in Int /\ clock \in Int
    BY <1>1, <1>2, <1>10, SessionTimes DEF ClaimConfirmation, OfferedIsUnused, SessionTypeOK, Page, Times
  <2>8. \A q \in Requests : req[q].pc = "recheck" => req[q].nonce # n
    BY <1>2, <2>7 DEF ClaimIsExclusive
  <2>9. \A y \in Sids : session'[y] # None => n \notin session'[y].confirm
    BY <1>2, <1>6, <2>7 DEF OfferedIsUnused
  <2>10. ClaimIsExclusive'
    BY <1>1, <1>2, <1>6, <1>7, <2>4, <2>7, <2>8, <2>9, TimesAreTypes DEF ClaimIsExclusive, Request
  <2> QED
    BY <1>8, <2>5, <2>6, <2>10
<1> QED
  BY <1>9, <1>10

LEMMA SendKeepsSInv == ASSUME SInv, NEW r \in Requests, SendRemove(r) PROVE SInv'
<1> USE DEF SInv, At
<1> DEFINE n == req[r].nonce
<1>1. /\ \A q \in Requests : req[q] \in Request
      /\ req[r].pc = "recheck"
  BY DEF SessionTypeOK, SendRemove
<1>2. /\ n \in Nonces /\ page[n] \in Page /\ page[n] # None /\ sent[n] = <<>>
      /\ page[n].sid = req[r].sid /\ req[r].at <= page[n].expires
  BY <1>1 DEF ClaimIsExclusive, SessionTypeOK, Request
<1> DEFINE remove == [target |-> page[n].target, answer |-> {page[n].target},
                      sid |-> req[r].sid, at |-> req[r].at]
<1>3. sent' = [sent EXCEPT ![n] = <<remove>>]
  BY <1>2 DEF SendRemove, OnlyCandidate, SessionTypeOK
<1>4. remove \in Remove
  BY <1>1, <1>2 DEF Remove, Page, Request
<1>5. /\ req' = [req EXCEPT ![r] = NoRequest]
      /\ UNCHANGED <<clock, listed, session, page, attempts, lastUse, tries>>
  BY DEF SendRemove, End, tables
<1>6. req'[r] = NoRequest /\ \A q \in Requests \ {r} : req'[q] = req[q]
  BY <1>5 DEF SessionTypeOK
<1>7. sent'[n] = <<remove>> /\ \A m \in Nonces \ {n} : sent'[m] = sent[m]
  BY <1>2, <1>3 DEF SessionTypeOK
<1>8. <<remove>> \in Seq(Remove) /\ Len(<<remove>>) = 1 /\ DOMAIN <<remove>> = {1} /\ <<remove>>[1] = remove
  BY <1>4
<1>9. SessionTypeOK'
  <2>1. sent' \in [Nonces -> Seq(Remove)]
    BY <1>3, <1>8 DEF SessionTypeOK
  <2> QED
    BY <1>5, <2>1, TimesAreTypes DEF SessionTypeOK
<1>10. ThreadsHaveSessions'
  BY <1>1, <1>5, <1>6 DEF ThreadsHaveSessions, NoRequest, Request
<1>11. OfferedIsUnused' /\ NewNonceIsUnused'
  BY <1>1, <1>2, <1>5, <1>7 DEF OfferedIsUnused, NewNonceIsUnused, ClaimIsExclusive
<1>12. ClaimIsExclusive'
  BY <1>1, <1>2, <1>5, <1>6, <1>7 DEF ClaimIsExclusive, NoRequest, Request
<1>13. OneRemovalPerConfirmation'
  <2> HIDE DEF n, remove
  <2>1. ASSUME NEW m \in Nonces PROVE Len(sent'[m]) <= 1
    <3>1. CASE m = n
      <4>1. Len(sent'[m]) = Len(<<remove>>)
        BY <1>7, <3>1, Zenon
      <4> QED
        BY <1>8, <4>1
    <3>2. CASE m # n
      BY <1>7, <3>2 DEF OneRemovalPerConfirmation
    <3> QED
      BY <3>1, <3>2
  <2> QED
    BY <2>1 DEF OneRemovalPerConfirmation
<1>14. RemovalIsConfirmed'
  BY <1>2, <1>5, <1>7, <1>8 DEF RemovalIsConfirmed
<1> QED
  BY <1>9, <1>10, <1>11, <1>12, <1>13, <1>14

-----------------------------------------------------------------------------

\* The invariant the other theorems rest on, the types among it.
THEOREM SessionInductive == SessionSpec => []SInv
<1>1. SessionInit => SInv
  BY InitSInv
<1>2. SInv /\ [SessionNext]_vars => SInv'
  <2> SUFFICES ASSUME SInv, [SessionNext]_vars PROVE SInv'
    OBVIOUS
  <2>1. ASSUME NEW r \in Requests, NEW s \in Sids \cup {None}, QuietStep(r, s) PROVE SInv'
    BY <2>1, QuietStepTypes, QuietStepIsQuiet, QuietKeepsSInv
  <2>2. ASSUME NEW r \in Requests, Serve(r) PROVE SInv'
    <3>1. CASE \E n \in Nonces : ClaimRejected(r, n) \/ ClaimConfirmation(r, n)
      BY <3>1, ClaimKeepsSInv
    <3>2. CASE \E s \in Sids \cup {None} : QuietStep(r, s)
      BY <2>1, <3>2
    <3> QED
      BY <2>2, <3>1, <3>2, PrepareKeepsSInv, SendKeepsSInv DEF Serve, QuietStep
  <2>3. CASE UNCHANGED vars
    <3>1. Quiet /\ SessionTypeOK'
      BY <2>3 DEF SInv, SessionTypeOK, ThreadsHaveSessions, Quiet, vars, tables, history, Request
    <3> QED
      BY <3>1, QuietKeepsSInv
  <2> QED
    BY <2>2, <2>3, TickKeepsSInv, RestartKeepsSInv DEF SessionNext
<1> QED
  BY <1>1, <1>2, PTL DEF SessionSpec

\* One Remove for a confirmation, whatever the number of threads that submit it.
\* Code: the pop of consume_confirmation, the nonces of /remove/prepare.
THEOREM ConfirmationsAreUsedOnce == SessionSpec => []OneRemovalPerConfirmation
<1>1. SInv => OneRemovalPerConfirmation
  BY DEF SInv
<1> QED
  BY <1>1, SessionInductive, PTL

\* A Remove is the one that was confirmed, in its session and in time.
\* Code: consume_confirmation, _v2_remove_target, /remove/confirm.
THEOREM RemovalsAreConfirmed == SessionSpec => []RemovalIsConfirmed
<1>1. SInv => RemovalIsConfirmed
  BY DEF SInv
<1> QED
  BY <1>1, SessionInductive, PTL

-----------------------------------------------------------------------------
(* The end of a session.                                                      *)

\* What a listed session, and a thread about to touch it, note as its last use
\* is never after it; a thread that came with a session that was gone has one
\* that is still gone.
LastUseInv ==
    /\ \A s \in Sids : lastUse[s] <= clock
    /\ \A s \in listed : session[s].last <= lastUse[s]
    /\ \A r \in Requests :
        /\ At(r, "touch") /\ req[r].sid \in listed => req[r].at <= lastUse[req[r].sid]
        /\ req[r].late => req[r].sid \notin listed

\* Steps that add no session and neither accept nor touch one.
NoUse ==
    /\ clock' \in Times /\ clock <= clock'
    /\ listed' \subseteq listed
    /\ \A s \in listed' : session'[s].last = session[s].last /\ lastUse'[s] = lastUse[s]
    /\ \A s \in Sids : lastUse'[s] \in {0, lastUse[s]}
    /\ \A q \in Requests :
        /\ req'[q].pc = "touch" => req'[q] = req[q]
        /\ req'[q].late => req'[q].sid \notin listed' \/ (req[q].late /\ req'[q].sid = req[q].sid)

LEMMA UseTypes ==
  ASSUME SInv
  PROVE  /\ clock \in Nat /\ listed \subseteq Sids
         /\ \A s \in Sids : lastUse[s] \in Nat
         /\ \A s \in listed : session[s] \in Session /\ session[s].last \in Nat /\ session[s].created \in Nat
         /\ \A q \in Requests : req[q] \in Request /\ req[q].at \in Nat /\ req[q].at \in Times
<1>1. \A t \in Times : t \in Nat
  BY TimesAreTypes DEF Times
<1>2. /\ \A x \in Session : x.last \in Times /\ x.created \in Times
      /\ \A x \in Request : x.at \in Times
  BY DEF Session, Request
<1> QED
  BY <1>1, <1>2 DEF SInv, SessionTypeOK

LEMMA NoUseKeeps == SInv /\ LastUseInv /\ NoUse => LastUseInv'
<1> SUFFICES ASSUME SInv, LastUseInv, NoUse PROVE LastUseInv'
  OBVIOUS
<1>1. clock' \in Nat /\ clock \in Nat /\ \A s \in Sids : lastUse[s] \in Nat
  BY UseTypes, TimesAreTypes DEF NoUse, Times
<1>2. \A s \in Sids : lastUse'[s] <= clock'
  BY <1>1 DEF NoUse, LastUseInv
<1>3. \A s \in listed' : session'[s].last <= lastUse'[s]
  BY DEF NoUse, LastUseInv
<1>4. \A r \in Requests : req'[r].pc = "touch" /\ req'[r].sid \in listed'
                            => req'[r].at <= lastUse'[req'[r].sid]
  BY DEF NoUse, LastUseInv, At
<1>5. \A r \in Requests : req'[r].late => req'[r].sid \notin listed'
  BY DEF NoUse, LastUseInv
<1> QED
  BY <1>2, <1>3, <1>4, <1>5 DEF LastUseInv, At

\* Steps of a thread that leave the sessions alone but for confirmations.
LEMMA OtherStepsAreNoUse ==
  ASSUME SInv, NEW r \in Requests, NEW n,
         \/ TrimAttempts(r) \/ PruneRaises(r) \/ ReadAttempts(r) \/ AllowAttempt(r)
         \/ RefuseAttempt(r) \/ RecordAttempt(r) \/ WrongPassword(r) \/ Answer(r)
         \/ Prepare(r) \/ ClaimRejected(r, n) \/ ClaimConfirmation(r, n) \/ SendRemove(r)
  PROVE  NoUse
<1>0. /\ clock \in Times /\ clock <= clock /\ req[r] \in Request /\ req \in [Requests -> Request]
      /\ \A s \in listed : session[s] \in Session /\ s \in Sids
      /\ session \in [Sids -> Session \cup {None}]
  BY UseTypes DEF SInv, SessionTypeOK
<1>1. UNCHANGED <<clock, listed, lastUse>>
  BY DEF TrimAttempts, PruneRaises, ReadAttempts, AllowAttempt, RefuseAttempt, RecordAttempt,
     WrongPassword, Answer, Prepare, ClaimRejected, ClaimConfirmation, SendRemove, tables, history
<1>2. /\ \A q \in Requests \ {r} : req'[q] = req[q]
      /\ req'[r].pc # "touch"
      /\ req'[r].late => req[r].late /\ req'[r].sid = req[r].sid
  <2>1. NoRequest.pc # "touch" /\ NoRequest.late = FALSE
    BY DEF NoRequest
  <2>2. CASE End(r)
    BY <1>0, <2>1, <2>2 DEF End
  <2>3. CASE TrimAttempts(r) \/ ReadAttempts(r) \/ AllowAttempt(r) \/ RecordAttempt(r)
    BY <1>0, <2>3 DEF TrimAttempts, ReadAttempts, AllowAttempt, RecordAttempt, AfterPrune, GoTo, Request
  <2>4. CASE ClaimConfirmation(r, n)
    BY <1>0, <2>4 DEF ClaimConfirmation, Request
  <2> QED
    BY <2>2, <2>3, <2>4 DEF PruneRaises, RefuseAttempt, WrongPassword, Answer, Prepare, ClaimRejected,
       SendRemove
<1>3. \A s \in listed : session'[s].last = session[s].last
  <2>1. session' = session \/ \E c : session' = [session EXCEPT ![req[r].sid].confirm = c]
    BY DEF TrimAttempts, PruneRaises, ReadAttempts, AllowAttempt, RefuseAttempt, RecordAttempt,
     WrongPassword, Answer, Prepare, ClaimRejected, ClaimConfirmation, SendRemove, tables
  <2> QED
    BY <1>0, <2>1 DEF Session
<1> QED
  BY <1>0, <1>1, <1>2, <1>3 DEF NoUse

LEMMA DroppingIsNoUse ==
  ASSUME SInv, NEW gone, DropSessions(gone), UNCHANGED clock,
         \A q \in Requests :
            /\ req'[q].pc = "touch" => req'[q] = req[q]
            /\ req'[q].late => req'[q].sid \notin listed \/ (req[q].late /\ req'[q].sid = req[q].sid)
  PROVE  NoUse
<1>1. clock' \in Times /\ clock <= clock'
  BY UseTypes DEF SInv, SessionTypeOK
<1>2. /\ listed' \subseteq listed
      /\ \A s \in listed' : session'[s].last = session[s].last /\ lastUse'[s] = lastUse[s]
      /\ \A s \in Sids : lastUse'[s] \in {0, lastUse[s]}
  BY UseTypes DEF DropSessions
<1> QED
  BY <1>1, <1>2 DEF NoUse

LEMMA LastUseInductive == SessionSpec => [](SInv /\ LastUseInv)
<1>1. SessionInit => LastUseInv
  <2> SUFFICES ASSUME SessionInit PROVE LastUseInv
    OBVIOUS
  <2>1. NoRequest.pc # "touch" /\ NoRequest.late = FALSE
    BY DEF NoRequest
  <2> QED
    BY <2>1, TimesAreTypes DEF SessionInit, LastUseInv, At
<1>2. SInv /\ LastUseInv /\ [SessionNext]_vars => LastUseInv'
  <2> SUFFICES ASSUME SInv, LastUseInv, [SessionNext]_vars PROVE LastUseInv'
    OBVIOUS
  <2>0. /\ req \in [Requests -> Request] /\ session \in [Sids -> Session \cup {None}]
        /\ lastUse \in [Sids -> Times] /\ listed \subseteq Sids /\ clock \in Nat /\ clock \in Times
        /\ NoRequest.pc # "touch" /\ NoRequest.late = FALSE
    BY UseTypes DEF SInv, SessionTypeOK, NoRequest
  <2>1. CASE Tick
    <3>1. clock' \in Times /\ clock <= clock' /\ UNCHANGED <<listed, session, lastUse, req>>
      BY <2>0, <2>1, TimesAreTypes DEF Tick, Times, tables
    <3>2. NoUse
      BY <3>1 DEF NoUse
    <3> QED
      BY <3>2, NoUseKeeps
  <2>2. CASE Restart
    <3>1. NoUse
      BY <2>0, <2>2, DroppingIsNoUse DEF Restart
    <3> QED
      BY <3>1, NoUseKeeps
  <2>3. CASE UNCHANGED vars
    <3>1. NoUse
      BY <2>0, <2>3 DEF NoUse, vars, tables, history
    <3> QED
      BY <3>1, NoUseKeeps
  <2>4. ASSUME NEW r \in Requests, NEW s \in Sids \cup {None}, Arrive(r, s) PROVE LastUseInv'
    <3>1. req' = [req EXCEPT ![r] = req'[r]] /\ req'[r].pc # "touch"
          /\ req'[r].sid = s /\ req'[r].late = (s \notin listed)
      BY <2>0, <2>4 DEF Arrive, NoRequest, AfterPrune
    <3>2. NoUse
      BY <2>0, <2>4, <3>1, DroppingIsNoUse DEF Arrive
    <3> QED
      BY <3>2, NoUseKeeps
  <2>5. ASSUME NEW r \in Requests, NoSession(r) \/ Logout(r) PROVE LastUseInv'
    <3>1. End(r) /\ \E gone : DropSessions(gone) /\ UNCHANGED clock
      BY <2>5 DEF NoSession, Logout
    <3>2. NoUse
      BY <2>0, <3>1, DroppingIsNoUse DEF End
    <3> QED
      BY <3>2, NoUseKeeps
  <2>6. ASSUME NEW r \in Requests, AcceptSession(r) PROVE LastUseInv'
    <3> DEFINE s == req[r].sid
    <3>1. /\ s \in listed /\ lastUse' = [lastUse EXCEPT ![s] = clock]
          /\ UNCHANGED <<clock, listed, session>>
          /\ \A q \in Requests \ {r} : req'[q] = req[q]
          /\ req'[r].at = clock /\ req'[r].late = FALSE /\ req'[r].sid = s
      BY <2>0, <2>6 DEF AcceptSession, tables, Request
    <3>2. s \in Sids /\ lastUse'[s] = clock /\ \A x \in Sids \ {s} : lastUse'[x] = lastUse[x]
      BY <2>0, <3>1
    <3> HIDE DEF s
    <3>3. /\ \A x \in Sids : lastUse'[x] <= clock' /\ lastUse[x] <= lastUse'[x]
          /\ \A x \in listed : session'[x].last <= lastUse'[x]
      BY <2>0, <3>1, <3>2, UseTypes DEF LastUseInv
    <3>4. ASSUME NEW q \in Requests
          PROVE  /\ req'[q].pc = "touch" /\ req'[q].sid \in listed' => req'[q].at <= lastUse'[req'[q].sid]
                 /\ req'[q].late => req'[q].sid \notin listed'
      <4>1. CASE q = r
        BY <2>0, <3>1, <3>2, <4>1
      <4>2. CASE q # r
        BY <2>0, <3>1, <3>2, <4>2, UseTypes DEF LastUseInv, At
      <4> QED
        BY <4>1, <4>2
    <3> QED
      BY <3>1, <3>3, <3>4 DEF LastUseInv, At
  <2>7. ASSUME NEW r \in Requests, Touch(r) PROVE LastUseInv'
    <3> DEFINE s == req[r].sid
    <3>1. /\ UNCHANGED <<clock, listed, lastUse>>
          /\ \A q \in Requests \ {r} : req'[q] = req[q]
          /\ req'[r].pc = "handle" /\ req'[r].late = req[r].late /\ req'[r].sid = s
      BY <2>0, <2>7 DEF Touch, history, Request
    <3>2. \A x \in listed : session'[x].last = IF x = s THEN req[r].at ELSE session[x].last
      BY <2>0, <2>7, UseTypes DEF Touch, TimeJudged, Session
    <3>3. s \in listed => req[r].at <= lastUse[s]
      BY <2>7 DEF Touch, LastUseInv
    <3>4. \A x \in listed' : session'[x].last <= lastUse'[x]
      BY <3>1, <3>2, <3>3 DEF LastUseInv
    <3> QED
      BY <3>1, <3>4 DEF LastUseInv, At
  <2>8. ASSUME NEW r \in Requests, OpenSession(r) PROVE LastUseInv'
    <3>1. PICK s \in Sids :
            /\ session[s] = None
            /\ session' = [session EXCEPT ![s] = [created |-> clock, last |-> clock, confirm |-> {}]]
            /\ listed' = listed \cup {s}
            /\ lastUse' = [lastUse EXCEPT ![s] = clock]
      BY <2>8 DEF OpenSession
    <3>2. /\ clock' = clock
          /\ \A q \in Requests \ {r} : req'[q] = req[q]
          /\ req'[r] = NoRequest
      BY <2>0, <2>8 DEF OpenSession, End
    <3>3. /\ lastUse'[s] = clock /\ \A x \in Sids \ {s} : lastUse'[x] = lastUse[x]
          /\ session'[s].last = clock /\ \A x \in Sids \ {s} : session'[x] = session[x]
      BY <2>0, <3>1
    <3>4. /\ \A x \in Sids : lastUse'[x] <= clock'
          /\ \A x \in listed' : session'[x].last <= lastUse'[x]
      BY <2>0, <3>1, <3>2, <3>3 DEF LastUseInv
    <3>5. \A q \in Requests : req[q].sid # s
      BY <3>1, TimesAreTypes DEF SInv, ThreadsHaveSessions
    <3>6. ASSUME NEW q \in Requests
          PROVE  /\ req'[q].pc = "touch" /\ req'[q].sid \in listed' => req'[q].at <= lastUse'[req'[q].sid]
                 /\ req'[q].late => req'[q].sid \notin listed'
      BY <2>0, <3>1, <3>2, <3>3, <3>5 DEF LastUseInv, At
    <3> QED
      BY <3>4, <3>6 DEF LastUseInv, At
  <2>9. ASSUME NEW r \in Requests, NEW n,
               \/ TrimAttempts(r) \/ PruneRaises(r) \/ ReadAttempts(r) \/ AllowAttempt(r)
               \/ RefuseAttempt(r) \/ RecordAttempt(r) \/ WrongPassword(r) \/ Answer(r)
               \/ Prepare(r) \/ ClaimRejected(r, n) \/ ClaimConfirmation(r, n) \/ SendRemove(r)
        PROVE  LastUseInv'
    BY <2>9, OtherStepsAreNoUse, NoUseKeeps
  <2> QED
    BY <2>1, <2>2, <2>3, <2>4, <2>5, <2>6, <2>7, <2>8, <2>9 DEF SessionNext, Serve
<1> QED
  BY <1>1, <1>2, SessionInductive, PTL DEF SessionSpec

\* A session that has ended is not accepted again: an idle one not because of a
\* late write, and one that was logged out or pruned not at all.
\* Code: _session, session_is_valid, prune, logout.
THEOREM SessionsEnd == SessionSpec => SessionEnds
<1> DEFINE Sound == \A r \in Requests :
              (At(r, "session") /\ req'[r].pc = "touch") =>
                  /\ ~req[r].late
                  /\ clock - session[req[r].sid].created <= Absolute
                  /\ clock - lastUse[req[r].sid] <= Idle
<1>1. SInv /\ LastUseInv /\ [SessionNext]_vars => Sound
  <2> SUFFICES ASSUME SInv, LastUseInv, [SessionNext]_vars, NEW r \in Requests,
                      At(r, "session"), req'[r].pc = "touch"
               PROVE  /\ ~req[r].late
                      /\ clock - session[req[r].sid].created <= Absolute
                      /\ clock - lastUse[req[r].sid] <= Idle
    OBVIOUS
  <2>0. req \in [Requests -> Request] /\ NoRequest.pc # "touch"
    BY DEF SInv, SessionTypeOK, NoRequest
  <2>1. AcceptSession(r)
    <3>1. PICK q \in Requests : Serve(q)
      BY <2>0 DEF SessionNext, Tick, Restart, vars, At
    <3>2. CASE q = r
      BY <2>0, <3>1, <3>2 DEF Serve, Arrive, TrimAttempts, PruneRaises, NoSession, Touch, ReadAttempts,
         AllowAttempt, RefuseAttempt, RecordAttempt, WrongPassword, OpenSession, Answer, Logout,
         Prepare, ClaimRejected, ClaimConfirmation, SendRemove, At, End
    <3>3. CASE q # r
      <4>1. \E x : req' = [req EXCEPT ![q] = x]
        BY <3>1 DEF Serve, Arrive, TrimAttempts, PruneRaises, NoSession, AcceptSession, Touch,
           ReadAttempts, AllowAttempt, RefuseAttempt, RecordAttempt, WrongPassword, OpenSession,
           Answer, Logout, Prepare, ClaimRejected, ClaimConfirmation, SendRemove, End, GoTo
      <4> QED
        BY <2>0, <3>3, <4>1 DEF At
    <3> QED
      BY <3>2, <3>3
  <2>2. /\ req[r].sid \in listed /\ session[req[r].sid].last <= lastUse[req[r].sid]
        /\ clock - session[req[r].sid].last <= Idle
        /\ clock - session[req[r].sid].created <= Absolute
    BY <2>1 DEF AcceptSession, SessionIsValid, LastUseInv
  <2>3. ~req[r].late
    BY <2>2 DEF LastUseInv
  <2> QED
    BY <2>2, <2>3, UseTypes, SessionTimes
<1>2. SInv /\ LastUseInv /\ [SessionNext]_vars => [Sound]_vars
  BY <1>1
<1> QED
  BY <1>2, LastUseInductive, PTL DEF SessionSpec, SessionEnds

-----------------------------------------------------------------------------
(* The login limiter.                                                         *)

\* No list of attempts, and no copy of one, has more recent ones than were made.
AttemptsInv ==
    \A t \in Times :
        /\ clock - t < Window => attempts[t] <= tries[t]
        /\ \A r \in Requests : clock - t < Window => req[r].copy[t] <= tries[t]

\* Steps that make no attempt, and store at most a copy of the list.
NoAttempt ==
    /\ clock <= clock' /\ clock' \in Times
    /\ \A t \in Times : clock' - t < Window => tries'[t] = tries[t]
    /\ attempts' \in {attempts, NoAttempts} \cup {req[r].copy : r \in Requests}
    /\ \A r \in Requests : req'[r].copy \in {req[r].copy, NoAttempts, Recent(attempts, clock)}

LEMMA RecordValues ==
  ASSUME SInv
  PROVE  /\ Attempts \in Nat /\ Window \in Nat /\ clock \in Nat /\ clock \in Times /\ Times \subseteq Nat
         /\ attempts \in Record /\ tries \in Record
         /\ \A t \in Times : attempts[t] \in Nat /\ tries[t] \in Nat /\ tries[t] <= Attempts /\ NoAttempts[t] = 0
         /\ \A r \in Requests : req[r].copy \in Record /\ \A t \in Times : req[r].copy[t] \in Nat
         /\ \A t \in Times : Recent(attempts, clock)[t] = IF clock - t < Window THEN attempts[t] ELSE 0
<1>1. Attempts \in Nat /\ Window \in Nat
  BY SessionTimes
<1>2. \A record \in Record, t \in Times : record[t] \in Nat /\ record[t] <= Attempts
  BY <1>1 DEF Record
<1>3. attempts \in Record /\ tries \in Record /\ \A r \in Requests : req[r].copy \in Record
  BY DEF SInv, SessionTypeOK, Request
<1>4. clock \in Times /\ Times \subseteq Nat
  BY TimesAreTypes DEF SInv, SessionTypeOK, Times
<1> QED
  BY <1>1, <1>2, <1>3, <1>4 DEF NoAttempts, Recent

LEMMA NoAttemptKeeps == SInv /\ AttemptsInv /\ NoAttempt => AttemptsInv'
<1> SUFFICES ASSUME SInv, AttemptsInv, NoAttempt, NEW t \in Times, clock' - t < Window
             PROVE  /\ attempts'[t] <= tries'[t]
                    /\ \A r \in Requests : req'[r].copy[t] <= tries'[t]
  BY DEF AttemptsInv
<1>1. clock' \in Nat /\ clock <= clock' /\ clock - t < Window /\ tries'[t] = tries[t]
  BY RecordValues DEF NoAttempt
<1>2. /\ attempts[t] <= tries[t] /\ NoAttempts[t] <= tries[t]
      /\ Recent(attempts, clock)[t] <= tries[t]
      /\ \A r \in Requests : req[r].copy[t] <= tries[t]
  BY <1>1, RecordValues DEF AttemptsInv
<1>3. attempts'[t] <= tries'[t]
  BY <1>1, <1>2 DEF NoAttempt
<1>4. \A r \in Requests : req'[r].copy[t] <= tries'[t]
  BY <1>1, <1>2 DEF NoAttempt
<1> QED
  BY <1>3, <1>4

LEMMA OneMore ==
  ASSUME NEW a \in Nat, NEW b \in Nat, a <= b, NEW n \in Nat, b <= n
  PROVE  Min({a + 1, n}) <= Min({b + 1, n}) /\ b <= Min({b + 1, n})
<1>1. ASSUME NEW x \in Nat, NEW y \in Nat
      PROVE  Min({x, y}) = IF x <= y THEN x ELSE y
  <2>1. CASE x <= y
    BY <1>1, <2>1 DEF Min
  <2>2. CASE ~(x <= y)
    BY <1>1, <2>2 DEF Min
  <2> QED
    BY <2>1, <2>2
<1>2. /\ Min({a + 1, n}) = IF a + 1 <= n THEN a + 1 ELSE n
      /\ Min({b + 1, n}) = IF b + 1 <= n THEN b + 1 ELSE n
  BY <1>1
<1> QED
  BY <1>2

LEMMA AttemptsInductive == SessionSpec => [](SInv /\ AttemptsInv)
<1>1. SessionInit => AttemptsInv
  BY SessionTimes DEF SessionInit, AttemptsInv, NoRequest, NoAttempts, Times
<1>2. SInv /\ AttemptsInv /\ [SessionNext]_vars => AttemptsInv'
  <2> SUFFICES ASSUME SInv, AttemptsInv, [SessionNext]_vars PROVE AttemptsInv'
    OBVIOUS
  <2>0. /\ req \in [Requests -> Request] /\ clock \in Times /\ clock <= clock
        /\ NoRequest.copy = NoAttempts
        /\ \A r \in Requests : req[r] \in Request
    BY RecordValues DEF SInv, SessionTypeOK, NoRequest
  <2>1. CASE Tick
    <3>1. /\ clock' = clock + 1 /\ clock' \in Times /\ UNCHANGED <<attempts, req>>
          /\ \A t \in Times : clock' - t < Window => tries'[t] = tries[t]
      BY <2>0, <2>1, TimesAreTypes DEF Tick, Times, tables
    <3>2. NoAttempt
      BY <2>0, <3>1, RecordValues DEF NoAttempt
    <3> QED
      BY <3>2, NoAttemptKeeps
  <2>2. CASE Restart \/ UNCHANGED vars
    <3>1. NoAttempt
      BY <2>0, <2>2 DEF Restart, NoAttempt, vars, tables, history
    <3> QED
      BY <3>1, NoAttemptKeeps
  <2>3. ASSUME NEW r \in Requests, RecordAttempt(r) PROVE AttemptsInv'
    <3>1. /\ attempts' = WithOne(attempts, clock) /\ tries' = WithOne(tries, clock)
          /\ clock' = clock /\ \A q \in Requests : req'[q].copy = req[q].copy
      BY <2>0, <2>3 DEF RecordAttempt, GoTo, Request
    <3> SUFFICES ASSUME NEW t \in Times, clock - t < Window
                 PROVE  /\ attempts'[t] <= tries'[t]
                        /\ \A q \in Requests : req[q].copy[t] <= tries'[t]
      BY <3>1 DEF AttemptsInv
    <3>2. attempts[t] <= tries[t] /\ \A q \in Requests : req[q].copy[t] <= tries[t]
      BY DEF AttemptsInv
    <3>3. CASE t # clock
      <4>1. attempts'[t] = attempts[t] /\ tries'[t] = tries[t]
        BY <3>1, <3>3, RecordValues DEF WithOne, Record
      <4> QED
        BY <3>2, <4>1
    <3>4. CASE t = clock
      <4>1. /\ attempts'[t] = Min({attempts[t] + 1, Attempts})
            /\ tries'[t] = Min({tries[t] + 1, Attempts})
        BY <3>1, <3>4, RecordValues DEF WithOne, Record
      <4>2. attempts'[t] <= tries'[t] /\ tries[t] <= tries'[t] /\ tries'[t] \in Nat
        <5>1. tries'[t] \in Nat
          BY <4>1, MinOfTwo, RecordValues
        <5> QED
          BY <3>2, <4>1, <5>1, OneMore, RecordValues
      <4> QED
        BY <3>2, <4>2, RecordValues
    <3> QED
      BY <3>3, <3>4
  <2>4. ASSUME NEW r \in Requests, NEW s \in Sids \cup {None}, NEW n,
               \/ Arrive(r, s) \/ TrimAttempts(r) \/ PruneRaises(r)
               \/ NoSession(r) \/ AcceptSession(r) \/ Touch(r)
               \/ ReadAttempts(r) \/ AllowAttempt(r) \/ RefuseAttempt(r)
               \/ WrongPassword(r) \/ OpenSession(r)
               \/ Answer(r) \/ Logout(r) \/ Prepare(r)
               \/ ClaimRejected(r, n) \/ ClaimConfirmation(r, n) \/ SendRemove(r)
        PROVE  AttemptsInv'
    <3>1. UNCHANGED <<clock, tries>>
      BY <2>4 DEF Arrive, TrimAttempts, PruneRaises, NoSession, AcceptSession, Touch, ReadAttempts,
         AllowAttempt, RefuseAttempt, WrongPassword, OpenSession, Answer, Logout, Prepare,
         ClaimRejected, ClaimConfirmation, SendRemove, tables, history
    <3>2. attempts' \in {attempts, NoAttempts, req[r].copy}
      BY <2>4 DEF Arrive, TrimAttempts, PruneRaises, NoSession, AcceptSession, Touch, ReadAttempts,
         AllowAttempt, RefuseAttempt, WrongPassword, OpenSession, Answer, Logout, Prepare,
         ClaimRejected, ClaimConfirmation, SendRemove, tables, history
    <3>3. \A q \in Requests : req'[q].copy \in {req[q].copy, NoAttempts, Recent(attempts, clock)}
      <4>1. CASE End(r)
        BY <2>0, <4>1 DEF End
      <4>2. CASE Arrive(r, s)
        <5>1. req' = [req EXCEPT ![r] = req'[r]] /\ req'[r].copy = Recent(attempts, clock)
          BY <2>0, <4>2 DEF Arrive, NoRequest
        <5> QED
          BY <2>0, <5>1
      <4>3. CASE \/ TrimAttempts(r) \/ AcceptSession(r) \/ Touch(r) \/ ReadAttempts(r)
                 \/ AllowAttempt(r) \/ ClaimConfirmation(r, n)
        BY <2>0, <4>3 DEF TrimAttempts, AcceptSession, Touch, ReadAttempts, AllowAttempt,
           ClaimConfirmation, Request
      <4> QED
        BY <2>4, <4>1, <4>2, <4>3 DEF PruneRaises, NoSession, RefuseAttempt, WrongPassword,
           OpenSession, Answer, Logout, Prepare, ClaimRejected, SendRemove
    <3>4. NoAttempt
      BY <2>0, <3>1, <3>2, <3>3 DEF NoAttempt
    <3> QED
      BY <3>4, NoAttemptKeeps
  <2> QED
    BY <2>1, <2>2, <2>3, <2>4 DEF SessionNext, Serve
<1> QED
  BY <1>1, <1>2, SessionInductive, PTL DEF SessionSpec

LEMMA FewerWereMade ==
  ASSUME NEW some \in Record, NEW all \in Record, \A t \in Times : some[t] <= all[t]
  PROVE  Cardinality(Made(some)) \in Nat /\ Cardinality(Made(all)) \in Nat
         /\ Cardinality(Made(some)) <= Cardinality(Made(all))
<1>1. MaxTime \in Nat /\ Attempts \in Nat
  BY SessionTimes
<1>2. IsFiniteSet(Times \X (1..Attempts))
  <2> DEFINE Second == 1..Attempts
  <2>1. IsFiniteSet(Times) /\ IsFiniteSet(Second)
    BY <1>1, FS_Interval DEF Times
  <2> HIDE DEF Second
  <2>2. IsFiniteSet(Times \X Second)
    BY <2>1, FS_Product
  <2> QED
    BY <2>2 DEF Second
<1>3. \A t \in Times : some[t] \in 0..Attempts /\ all[t] \in 0..Attempts
  BY DEF Record
<1>4. Made(all) \subseteq Times \X (1..Attempts)
  BY <1>1, <1>3 DEF Made
<1>5. Made(some) \subseteq Made(all)
  <2>1. \A t \in Times : 1..some[t] \subseteq 1..all[t]
    BY <1>1, <1>3
  <2> QED
    BY <2>1 DEF Made
<1>6. IsFiniteSet(Made(all))
  BY <1>2, <1>4, FS_Subset
<1> QED
  BY <1>5, <1>6, FS_Subset, FS_CardinalityType

\* Whoever is told that there were too many attempts was told the truth:
\* neither a refusal nor a list that another thread has copied meanwhile adds
\* to the attempts of the window.
\* Code: login_attempt_allowed, record_login_attempt, prune.
THEOREM LockoutsAreEarned == SessionSpec => NoFalseLockout
<1> DEFINE Earned == \A r \in Requests :
              (At(r, "limit") /\ req'[r].pc = "count" /\ ~UnderLimit(req'[r].copy))
                  => Cardinality(Made(tries)) >= Attempts
<1>1. SInv /\ AttemptsInv /\ [SessionNext]_vars => Earned
  <2> SUFFICES ASSUME SInv, AttemptsInv, [SessionNext]_vars, NEW r \in Requests,
                      At(r, "limit"), req'[r].pc = "count", ~UnderLimit(req'[r].copy)
               PROVE  Cardinality(Made(tries)) >= Attempts
    OBVIOUS
  <2>0. req \in [Requests -> Request] /\ NoRequest.pc # "count" /\ req[r] \in Request
    BY DEF SInv, SessionTypeOK, NoRequest
  <2>1. ReadAttempts(r)
    <3>1. PICK q \in Requests : Serve(q)
      BY <2>0 DEF SessionNext, Tick, Restart, vars, At
    <3>2. CASE q = r
      BY <2>0, <3>1, <3>2 DEF Serve, Arrive, TrimAttempts, PruneRaises, NoSession, AcceptSession, Touch,
         AllowAttempt, RefuseAttempt, RecordAttempt, WrongPassword, OpenSession, Answer, Logout,
         Prepare, ClaimRejected, ClaimConfirmation, SendRemove, At, End
    <3>3. CASE q # r
      <4>1. \E x : req' = [req EXCEPT ![q] = x]
        BY <3>1 DEF Serve, Arrive, TrimAttempts, PruneRaises, NoSession, AcceptSession, Touch,
           ReadAttempts, AllowAttempt, RefuseAttempt, RecordAttempt, WrongPassword, OpenSession,
           Answer, Logout, Prepare, ClaimRejected, ClaimConfirmation, SendRemove, End, GoTo
      <4> QED
        BY <2>0, <3>3, <4>1 DEF At
    <3> QED
      BY <3>2, <3>3
  <2>2. req'[r].copy = Recent(attempts, clock)
    BY <2>0, <2>1 DEF ReadAttempts, Request
  <2>3. \A t \in Times : Recent(attempts, clock)[t] <= tries[t]
    BY RecordValues DEF AttemptsInv
  <2>4. Recent(attempts, clock) \in Record /\ tries \in Record
    BY RecordTypes, RecordValues
  <2>5. /\ Cardinality(Made(Recent(attempts, clock))) <= Cardinality(Made(tries))
        /\ Cardinality(Made(Recent(attempts, clock))) \in Nat /\ Cardinality(Made(tries)) \in Nat
    BY <2>3, <2>4, FewerWereMade
  <2> QED
    BY <2>2, <2>5, RecordValues DEF UnderLimit
<1>2. SInv /\ AttemptsInv /\ [SessionNext]_vars => [Earned]_vars
  BY <1>1
<1> QED
  BY <1>2, AttemptsInductive, PTL DEF SessionSpec, NoFalseLockout

-----------------------------------------------------------------------------
(* The refinement of OneTimeConsent.                                          *)

\* A step after which a confirmation is where it was, or was given up.
GivenUp ==
    \A n \in Nonces : StageOf(n)' # StageOf(n) =>
        StageOf(n) \in {"offered", "claimed"} /\ StageOf(n)' = "void"

LEMMA GivingUp ==
  ASSUME UNCHANGED <<clock, page, sent>>, GivenUp
  PROVE  Consent!ConsentNext
<1> DEFINE stages == [n \in Nonces |-> StageOf(n)]
           actions == [n \in Nonces |-> ActsOf(n)]
           dropped == {n \in Nonces : StageOf(n)' # StageOf(n)}
<1>1. actions' = actions
  BY DEF ActsOf
<1>2. \A n \in dropped : stages[n] \in {"offered", "claimed"}
  BY DEF GivenUp
<1>3. stages' = [n \in Nonces |-> IF n \in dropped THEN "void" ELSE stages[n]]
  BY DEF GivenUp
<1>4. dropped \in SUBSET Nonces
  OBVIOUS
<1> HIDE DEF stages, actions, dropped
<1>5. Consent!GiveUp(dropped)
  BY <1>1, <1>2, <1>3 DEF Consent!GiveUp, stages, actions
<1> QED
  BY <1>4, <1>5 DEF Consent!ConsentNext

\* Who offers or has claimed a confirmation tells its stage.
LEMMA Stages ==
  ASSUME SInv, NEW n \in Nonces
  PROVE  /\ \A s \in Sids : Offers(s, n) => StageOf(n) = "offered"
         /\ \A r \in Requests : At(r, "recheck") /\ req[r].nonce = n => StageOf(n) = "claimed"
<1>1. ASSUME NEW s \in Sids, Offers(s, n) PROVE StageOf(n) = "offered"
  BY <1>1 DEF SInv, OfferedIsUnused, Offers, StageOf
<1>2. ASSUME NEW r \in Requests, At(r, "recheck"), req[r].nonce = n PROVE StageOf(n) = "claimed"
  BY <1>2 DEF SInv, ClaimIsExclusive, Offers, StageOf
<1> QED
  BY <1>1, <1>2

\* A quiet step may take a thread off its claim, and changes nothing else.
LEMMA QuietGivesUp == ASSUME SInv, Quiet PROVE GivenUp
<1> SUFFICES ASSUME NEW n \in Nonces, StageOf(n)' # StageOf(n)
             PROVE  StageOf(n) \in {"offered", "claimed"} /\ StageOf(n)' = "void"
  BY DEF GivenUp
<1>1. UNCHANGED <<page, sent>>
  BY DEF Quiet
<1>2. \A s \in Sids : Offers(s, n)' <=> Offers(s, n)
  BY DEF Quiet, Offers
<1>3. \A r \in Requests : (At(r, "recheck") /\ req[r].nonce = n)'
                            => At(r, "recheck") /\ req[r].nonce = n
  BY DEF Quiet, At
<1> DEFINE offered == \E s \in Sids : Offers(s, n)
           claimed == \E r \in Requests : At(r, "recheck") /\ req[r].nonce = n
<1>4. (offered' <=> offered) /\ (claimed' => claimed)
  BY <1>2, <1>3
<1>5. StageOf(n) = IF page[n] = None THEN "new" ELSE IF sent[n] # <<>> THEN "used"
                   ELSE IF offered THEN "offered" ELSE IF claimed THEN "claimed" ELSE "void"
  BY DEF StageOf
<1>6. StageOf(n)' = IF page[n] = None THEN "new" ELSE IF sent[n] # <<>> THEN "used"
                    ELSE IF offered' THEN "offered" ELSE IF claimed' THEN "claimed" ELSE "void"
  BY <1>1 DEF StageOf
<1> HIDE DEF offered, claimed
<1> QED
  BY <1>4, <1>5, <1>6

LEMMA QuietStepKeepsClock ==
  ASSUME NEW r \in Requests, NEW s \in Sids \cup {None}, QuietStep(r, s)
  PROVE  clock' = clock
BY DEF QuietStep, Arrive, TrimAttempts, PruneRaises, NoSession, AcceptSession, Touch, ReadAttempts,
   AllowAttempt, RefuseAttempt, RecordAttempt, WrongPassword, OpenSession, Answer, Logout

LEMMA QuietConsent ==
  ASSUME SInv, NEW r \in Requests, NEW s \in Sids \cup {None}, QuietStep(r, s)
  PROVE  Consent!ConsentNext
<1>1. Quiet /\ clock' = clock
  BY QuietStepIsQuiet, QuietStepKeepsClock
<1> QED
  BY <1>1, QuietGivesUp, GivingUp DEF Quiet

LEMMA RestartConsent == ASSUME SInv, Restart PROVE Consent!ConsentNext
<1>1. \A x \in Sids : session[x] # None => session[x] \in Session
  BY DEF SInv, SessionTypeOK
<1>2. Quiet /\ clock' = clock
  BY <1>1, TimesAreTypes DEF SInv, SessionTypeOK, Restart, DropSessions, Quiet, NoRequest, Session
<1> QED
  BY <1>2, QuietGivesUp, GivingUp DEF Quiet

LEMMA TickConsent == ASSUME SInv, Tick PROVE Consent!ConsentNext
<1>1. UNCHANGED <<page, session, req, sent>> /\ clock' = clock + 1
  BY DEF Tick, tables
<1>2. \A n \in Nonces : StageOf(n)' = StageOf(n) /\ ActsOf(n)' = ActsOf(n)
  BY <1>1 DEF StageOf, ActsOf, Offers, At
<1>3. Consent!Pass
  BY <1>1, <1>2 DEF Consent!Pass
<1> QED
  BY <1>3 DEF Consent!ConsentNext

LEMMA PrepareConsent == ASSUME SInv, NEW r \in Requests, Prepare(r) PROVE Consent!ConsentNext
<1> DEFINE s == req[r].sid
           stages == [m \in Nonces |-> StageOf(m)]
           actions == [m \in Nonces |-> ActsOf(m)]
<1>1. PICK n \in Nonces, x \in Runners :
        /\ page[n] = None
        /\ page' = [page EXCEPT ![n] = [sid |-> s, target |-> x, expires |-> clock + ConfirmTTL]]
        /\ session' = [session EXCEPT ![s].confirm = @ \cup {n}]
  BY DEF Prepare
<1>2. s \in Sids /\ session[s] # None /\ session[s] \in Session /\ req[r].pc = "handle"
  BY DEF SInv, SessionTypeOK, ThreadsHaveSessions, Prepare, At, Request
<1>3. /\ session'[s] # None /\ session'[s].confirm = session[s].confirm \cup {n}
      /\ \A y \in Sids \ {s} : session'[y] = session[y]
  <2>1. [session[s] EXCEPT !.confirm = @ \cup {n}] \in Session
    BY <1>2 DEF Session
  <2> QED
    BY <1>1, <1>2, <2>1, TimesAreTypes DEF SInv, SessionTypeOK, Session
<1>4. UNCHANGED <<clock, sent>>
  BY DEF Prepare, history
<1>5. req' = [req EXCEPT ![r] = NoRequest]
  BY DEF Prepare, End
<1>6. \A q \in Requests : /\ req'[q].pc = "recheck" => req'[q] = req[q]
                          /\ req[q].pc = "recheck" => req'[q] = req[q]
  BY <1>2, <1>5 DEF SInv, SessionTypeOK, NoRequest
<1>7. page'[n] # None /\ \A m \in Nonces \ {n} : page'[m] = page[m]
  <2>1. [sid |-> s, target |-> x, expires |-> clock + ConfirmTTL] \in Page
    BY <1>2, SessionTimes DEF SInv, SessionTypeOK, Page, Times
  <2> QED
    BY <1>1, <2>1, TimesAreTypes DEF SInv, SessionTypeOK
<1>8. StageOf(n) = "new" /\ StageOf(n)' = "offered"
  <2>1. (\E y \in Sids : Offers(y, n)') /\ sent'[n] = <<>>
    BY <1>1, <1>2, <1>3, <1>4 DEF Offers, SInv, NewNonceIsUnused
  <2> QED
    BY <1>1, <1>2, <1>7, <2>1 DEF StageOf
<1>9. ASSUME NEW m \in Nonces, m # n PROVE StageOf(m)' = StageOf(m)
  <2>1. \A y \in Sids : Offers(y, m)' <=> Offers(y, m)
    BY <1>2, <1>3, <1>9 DEF Offers
  <2>2. \A q \in Requests : (At(q, "recheck") /\ req[q].nonce = m)'
                              <=> At(q, "recheck") /\ req[q].nonce = m
    BY <1>6 DEF At
  <2> QED
    BY <1>4, <1>7, <1>9, <2>1, <2>2 DEF StageOf
<1>10. actions' = actions
  BY <1>4 DEF ActsOf
<1>11. stages[n] = "new" /\ stages' = [stages EXCEPT ![n] = "offered"]
  BY <1>8, <1>9
<1> HIDE DEF stages, actions
<1>12. Consent!Offer(n, s, x)
  BY <1>1, <1>4, <1>10, <1>11 DEF Consent!Offer, stages, actions
<1> QED
  BY <1>2, <1>12 DEF Consent!ConsentNext

LEMMA ClaimConsent ==
  ASSUME SInv, NEW r \in Requests, NEW n \in Nonces, ClaimRejected(r, n) \/ ClaimConfirmation(r, n)
  PROVE  Consent!ConsentNext
<1> DEFINE s == req[r].sid
           stages == [m \in Nonces |-> StageOf(m)]
           actions == [m \in Nonces |-> ActsOf(m)]
<1>1. /\ s \in Sids /\ session[s] # None /\ session[s] \in Session /\ req[r].pc = "handle"
      /\ \A q \in Requests : req[q] \in Request
  BY DEF SInv, SessionTypeOK, ThreadsHaveSessions, ClaimRejected, ClaimConfirmation, At, Request
<1>2. /\ session'[s] # None /\ session'[s].confirm = session[s].confirm \ {n}
      /\ \A y \in Sids \ {s} : session'[y] = session[y]
  <2>1. [session[s] EXCEPT !.confirm = @ \ {n}] \in Session
    BY <1>1 DEF Session
  <2>2. session' = [session EXCEPT ![s].confirm = @ \ {n}]
    BY DEF ClaimRejected, ClaimConfirmation, PopConfirmation
  <2> QED
    BY <1>1, <2>1, <2>2, TimesAreTypes DEF SInv, SessionTypeOK, Session
<1>3. UNCHANGED <<clock, page, sent>>
  BY DEF ClaimRejected, ClaimConfirmation, history
<1>4. \A q \in Requests \ {r} : req'[q] = req[q]
  BY DEF ClaimRejected, ClaimConfirmation, End, SInv, SessionTypeOK
<1>5. \A y \in Sids, m \in Nonces : Offers(y, m)' <=> Offers(y, m) /\ ~(y = s /\ m = n)
  BY <1>1, <1>2 DEF Offers
<1>6. ASSUME NEW m \in Nonces, NEW claimed \in BOOLEAN,
             (\E q \in Requests : At(q, "recheck") /\ req[q].nonce = m)' <=> claimed
      PROVE  StageOf(m)' = IF page[m] = None THEN "new" ELSE IF sent[m] # <<>> THEN "used"
                           ELSE IF \E y \in Sids : Offers(y, m)' THEN "offered"
                           ELSE IF claimed THEN "claimed" ELSE "void"
  BY <1>3, <1>6 DEF StageOf
<1>7. CASE ClaimRejected(r, n)
  <2>1. req'[r].pc = "idle"
    BY <1>7 DEF ClaimRejected, End, NoRequest, SInv, SessionTypeOK
  <2>2. ASSUME NEW m \in Nonces
        PROVE  (\E q \in Requests : At(q, "recheck") /\ req[q].nonce = m)'
                 <=> \E q \in Requests : At(q, "recheck") /\ req[q].nonce = m
    BY <1>1, <1>4, <2>1 DEF At
  <2>3. ASSUME NEW m \in Nonces, ~Offers(s, m) \/ m # n PROVE StageOf(m)' = StageOf(m)
    BY <1>3, <1>5, <2>2, <2>3 DEF StageOf
  <2>4. CASE Offers(s, n)
    <3>1. StageOf(n) = "offered"
      BY <1>1, <2>4, Stages
    <3>2. page[n] # None /\ sent[n] = <<>> /\ page[n].sid = s
      BY <1>1, <2>4 DEF SInv, OfferedIsUnused, Offers
    <3>3. \A y \in Sids : ~Offers(y, n)'
      BY <1>1, <1>5, <3>2 DEF SInv, OfferedIsUnused, Offers
    <3>4. ~\E q \in Requests : At(q, "recheck") /\ req[q].nonce = n
      BY <1>1, <2>4 DEF SInv, ClaimIsExclusive, Offers
    <3>5. StageOf(n)' = "void"
      BY <1>3, <2>2, <3>2, <3>3, <3>4 DEF StageOf
    <3> QED
      BY <1>3, <2>3, <3>1, <3>5, GivingUp DEF GivenUp
  <2> QED
    BY <1>3, <2>3, <2>4, GivingUp DEF GivenUp
<1>8. CASE ClaimConfirmation(r, n)
  <2>1. req'[r].pc = "recheck" /\ req'[r].nonce = n
    BY <1>1, <1>8 DEF ClaimConfirmation, SInv, SessionTypeOK, Request
  <2>2. Offers(s, n) /\ page[n].expires >= clock
    BY <1>1, <1>8 DEF ClaimConfirmation, Offers
  <2>3. page[n] # None /\ sent[n] = <<>> /\ page[n].sid = s /\ StageOf(n) = "offered"
    BY <1>1, <2>2, Stages DEF SInv, OfferedIsUnused, Offers
  <2>4. \A y \in Sids : ~Offers(y, n)'
    BY <1>1, <1>5, <2>3 DEF SInv, OfferedIsUnused, Offers
  <2>5. StageOf(n)' = "claimed"
    BY <1>3, <2>1, <2>3, <2>4 DEF StageOf, At
  <2>6. ASSUME NEW m \in Nonces, m # n PROVE StageOf(m)' = StageOf(m)
    <3>1. (\E q \in Requests : At(q, "recheck") /\ req[q].nonce = m)'
            <=> \E q \in Requests : At(q, "recheck") /\ req[q].nonce = m
      BY <1>1, <1>4, <2>1, <2>6 DEF At
    <3> QED
      BY <1>3, <1>5, <2>6, <3>1 DEF StageOf
  <2>7. actions' = actions
    BY <1>3 DEF ActsOf
  <2>8. stages[n] = "offered" /\ stages' = [stages EXCEPT ![n] = "claimed"]
    BY <2>3, <2>5, <2>6
  <2>9. clock <= page[n].expires
    BY <2>2, <2>3, SessionTimes DEF SInv, SessionTypeOK, Page, Times
  <2> HIDE DEF stages, actions
  <2>10. Consent!Claim(n)
    BY <1>3, <2>7, <2>8, <2>9 DEF Consent!Claim, stages, actions
  <2> QED
    BY <2>10 DEF Consent!ConsentNext
<1> QED
  BY <1>7, <1>8

LEMMA SendConsent == ASSUME SInv, NEW r \in Requests, SendRemove(r) PROVE Consent!ConsentNext
<1>0. PICK n : n = req[r].nonce
  OBVIOUS
<1> DEFINE act == [sid |-> page[n].sid, target |-> page[n].target]
           stages == [m \in Nonces |-> StageOf(m)]
           actions == [m \in Nonces |-> ActsOf(m)]
<1>1. req[r].pc = "recheck" /\ req[r] \in Request
  BY DEF SInv, SessionTypeOK, SendRemove, At
<1>2. /\ n \in Nonces /\ page[n] # None /\ sent[n] = <<>> /\ page[n].sid = req[r].sid
      /\ StageOf(n) = "claimed"
  BY <1>0, <1>1, Stages DEF SInv, ClaimIsExclusive, At, Request
<1>3. PICK answer : sent' = [sent EXCEPT ![n] = Append(@, [target |-> page[n].target,
                       answer |-> answer, sid |-> req[r].sid, at |-> req[r].at])]
  BY <1>0 DEF SendRemove
<1> DEFINE remove == [target |-> page[n].target, answer |-> answer, sid |-> req[r].sid,
                      at |-> req[r].at]
<1>4. remove.sid = page[n].sid /\ remove.target = page[n].target
  BY <1>2
<1>5. UNCHANGED <<clock, session, page>> /\ req' = [req EXCEPT ![r] = NoRequest]
  BY DEF SendRemove, End, tables
<1> HIDE DEF remove
<1>6. sent'[n] = <<remove>> /\ \A m \in Nonces \ {n} : sent'[m] = sent[m]
  BY <1>2, <1>3 DEF SInv, SessionTypeOK, remove
<1>7. <<remove>> # <<>> /\ DOMAIN <<remove>> = {1} /\ <<remove>>[1] = remove
  OBVIOUS
<1>8. StageOf(n)' = "used"
  BY <1>2, <1>5, <1>6, <1>7 DEF StageOf
<1>9. ASSUME NEW m \in Nonces, m # n PROVE StageOf(m)' = StageOf(m) /\ ActsOf(m)' = ActsOf(m)
  <2>1. \A q \in Requests : (At(q, "recheck") /\ req[q].nonce = m)'
                              <=> At(q, "recheck") /\ req[q].nonce = m
    BY <1>0, <1>1, <1>5, <1>9 DEF At, NoRequest, SInv, SessionTypeOK
  <2> QED
    BY <1>5, <1>6, <1>9, <2>1 DEF StageOf, Offers, ActsOf
<1>10. ActsOf(n)' = <<act>>
  <2>1. ActsOf(n)' = [i \in DOMAIN <<remove>> |-> [sid |-> <<remove>>[i].sid,
                                                  target |-> <<remove>>[i].target]]
    BY <1>6 DEF ActsOf
  <2>2. ActsOf(n)' = [i \in {1} |-> act]
    BY <1>4, <1>7, <2>1
  <2> QED
    BY <2>2
<1>11. stages[n] = "claimed" /\ stages' = [stages EXCEPT ![n] = "used"]
  BY <1>2, <1>8, <1>9
<1>12. actions' = [actions EXCEPT ![n] = <<act>>]
  BY <1>2, <1>9, <1>10
<1> HIDE DEF stages, actions
<1>13. Consent!Act(n)
  BY <1>2, <1>5, <1>11, <1>12 DEF Consent!Act, stages, actions
<1> QED
  BY <1>2, <1>13 DEF Consent!ConsentNext

LEMMA InitConsent == SessionInit => Consent!ConsentInit
<1> SUFFICES ASSUME SessionInit PROVE Consent!ConsentInit
  OBVIOUS
<1>1. \A n \in Nonces : StageOf(n) = "new"
  BY DEF SessionInit, StageOf
<1>2. \A n \in Nonces : ActsOf(n) = <<>>
  BY DEF SessionInit, ActsOf
<1> QED
  BY <1>1, <1>2 DEF SessionInit, Consent!ConsentInit

\* The confirmations of the Web implement OneTimeConsent, whatever threads
\* race for them, sessions end or restarts come in between.
\* Code: consume_confirmation, /remove/prepare and /remove/confirm.
THEOREM ConfirmationsAreConsents == SessionSpec => ImplementsConsent
<1>1. SInv /\ [SessionNext]_vars => [Consent!ConsentNext]_(Consent!consentVars)
  <2> SUFFICES ASSUME SInv, [SessionNext]_vars
               PROVE  [Consent!ConsentNext]_(Consent!consentVars)
    OBVIOUS
  <2>1. ASSUME NEW r \in Requests, Serve(r) PROVE Consent!ConsentNext
    <3>1. CASE \E n \in Nonces : ClaimRejected(r, n) \/ ClaimConfirmation(r, n)
      BY <3>1, ClaimConsent
    <3>2. CASE \E s \in Sids \cup {None} : QuietStep(r, s)
      BY <3>2, QuietConsent
    <3> QED
      BY <2>1, <3>1, <3>2, PrepareConsent, SendConsent DEF Serve, QuietStep
  <2>2. CASE UNCHANGED vars
    BY <2>2 DEF vars, tables, history, Consent!consentVars, StageOf, ActsOf, Offers, At
  <2> QED
    BY <2>1, <2>2, TickConsent, RestartConsent DEF SessionNext
<1> QED
  BY <1>1, InitConsent, SessionInductive, PTL
     DEF SessionSpec, ImplementsConsent, Consent!ConsentSpec
=============================================================================
