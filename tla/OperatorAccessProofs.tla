------------------------ MODULE OperatorAccessProofs ------------------------
(***************************************************************************)
(* Operator sessions and the audit log, for any number of operators,       *)
(* tokens, requests, purges and failures.  AccessInvariant is inductive;   *)
(* it gives that a revoked or expired session opens nothing, that the log  *)
(* tells the truth, and that a success stays on record.                    *)
(***************************************************************************)
EXTENDS OperatorAccess, TLAPS

-----------------------------------------------------------------------------
(***************************************************************************)
(* The inductive invariant.                                                *)
(***************************************************************************)

\* What a request carries between its steps: past require_admin it has an
\* identity, the token's operator or, without a token, the legacy one.
Carries(r) ==
  LET q == request[r]
  IN /\ q.pc = "arrived" =>
          q.bearer \in Tokens \cup {NoToken} /\ q.good \in BOOLEAN
     /\ q.pc = "found" => q.bearer \in Tokens /\ q.op \in Operators
     /\ q.pc \in {"authorised", "acted", "recording", "ok"} =>
          /\ q.bearer \in Tokens \cup {NoToken}
          /\ q.by \in Operators \cup {Legacy}
          /\ (q.by = Legacy) <=> (q.bearer = NoToken)
     /\ q.pc \in {"recording", "ok"} => q.at \in 0 .. clock

RequestsCarry == \A r \in Requests : Carries(r)

\* The row of a token somebody logged out of is revoked or gone.
EndedIsRevoked ==
  \A t \in ended : ~ session[t].exists \/ session[t].revoked

\* A request whose session was not good when it arrived holds a token that is
\* still not valid, and nobody past the lookup holds such a token.
BadStaysInvalid ==
  \A r \in Requests :
    /\ request[r].pc = "arrived" /\ ~ request[r].good =>
         request[r].bearer # NoToken /\ ~ IsValid(request[r].bearer, clock)
    /\ request[r].pc \in {"found", "authorised", "acted", "recording"} => request[r].good

\* An action that took effect is the action of a request that has acted.
ActedIsPerformed ==
  \A r \in Requests : request[r].pc \in {"acted", "recording", "ok"} => r \in performed

\* An audit row is committed in the step that answers its request, once.
RowsMatchAnswers ==
  \A a \in audit :
    /\ request[a.req].pc = "ok"
    /\ request[a.req].by = a.by
    /\ request[a.req].at = a.at
    /\ \A b \in audit : b.req = a.req => b = a

\* A purge under way has a cutoff that lay a retention period back.
CutoffIsOld ==
  auditSweep.pc = "batch" => Retention > 0 /\ auditSweep.cutoff <= clock - Retention

AccessInvariant ==
  /\ RequestsCarry
  /\ EndedIsRevoked
  /\ BadStaysInvalid
  /\ ActedIsPerformed
  /\ RowsMatchAnswers
  /\ CutoffIsOld
  /\ SuccessIsOnRecord
-----------------------------------------------------------------------------
(***************************************************************************)
(* What the steps do to the requests.                                      *)
(***************************************************************************)

\* The constants, one by one.
LEMMA Constants ==
  /\ Legacy \notin Operators /\ NoToken \notin Tokens
  /\ Ttl \in Nat \ {0} /\ BatchSize \in Nat \ {0} /\ MaxBatches \in Nat \ {0}
  /\ Resolution \in Nat /\ Retention \in Nat /\ MaxTime \in Nat
  /\ MaxFailures \in Nat
BY AccessAssumption

\* A step of one request leaves the others alone.
LEMMA OneRequest ==
  ASSUME TypeOK, NEW r \in Requests, NEW v, request' = [request EXCEPT ![r] = v]
  PROVE  /\ DOMAIN request' = Requests
         /\ request'[r] = v
         /\ \A q \in Requests : q # r => request'[q] = request[q]
BY DEF TypeOK

\* A success keeps who asked, what for, and the date it is given.
LEMMA SuccessEffect ==
  ASSUME TypeOK, NEW r \in Requests, NEW at, Succeed(r, at)
  PROVE  /\ DOMAIN request' = Requests
         /\ request'[r].pc = "ok" /\ request'[r].at = at
         /\ request'[r].by = request[r].by
         /\ request'[r].bearer = request[r].bearer
         /\ request'[r].does = request[r].does
         /\ \A q \in Requests : q # r => request'[q] = request[q]
<1> DEFINE v == [pc |-> "ok", does |-> request[r].does, bearer |-> request[r].bearer,
                 by |-> request[r].by, at |-> at]
<1>1. request' = [request EXCEPT ![r] = v]
  BY DEF Succeed, Step
<1> QED
  BY <1>1, OneRequest

\* What require_admin hands to the route.
LEMMA AuthoriseEffect ==
  ASSUME TypeOK, NEW r \in Requests, NEW by, Authorise(r, by)
  PROVE  /\ request'[r].pc = "authorised" /\ request'[r].by = by
         /\ request'[r].bearer = request[r].bearer
         /\ request'[r].good = request[r].good
<1> DEFINE v == [pc |-> "authorised", bearer |-> request[r].bearer,
                 does |-> request[r].does, good |-> request[r].good, by |-> by]
<1>1. request' = [request EXCEPT ![r] = v]
  BY DEF Authorise, Step
<1> QED
  BY <1>1, OneRequest

\* The claims of the invariant about one request.
Sound(r) ==
  /\ request[r].pc \in Answers \cup InFlight \cup {"idle"}
  /\ Carries(r)
  /\ request[r].pc = "arrived" /\ ~ request[r].good =>
       request[r].bearer # NoToken /\ ~ IsValid(request[r].bearer, clock)
  /\ request[r].pc \in {"found", "authorised", "acted", "recording"} => request[r].good
  /\ request[r].pc \in {"acted", "recording", "ok"} => r \in performed

\* The invariant's claims about requests, taken together.
LEMMA SoundParts ==
  (\A r \in Requests : Sound(r)) <=>
     /\ \A r \in Requests : request[r].pc \in Answers \cup InFlight \cup {"idle"}
     /\ RequestsCarry /\ BadStaysInvalid /\ ActedIsPerformed
BY DEF Sound, RequestsCarry, BadStaysInvalid, ActedIsPerformed

\* No session of a request in flight becomes valid again, time does not go
\* back, and what has been performed stays performed.
Frame ==
  /\ clock' \in Nat /\ clock <= clock'
  /\ performed \subseteq performed'
  /\ \A r \in Requests, t \in Tokens :
       request[r].pc = "arrived" /\ request[r].bearer = t /\ IsValid(t, clock)'
         => IsValid(t, clock)

\* Within such a frame a request that is left alone stays sound.
LEMMA LeftAlone ==
  ASSUME TypeOK, Frame, NEW r \in Requests, Sound(r), request'[r] = request[r]
  PROVE  Sound(r)'
<1>1. Carries(r)'
  BY DEF Carries, Sound, Frame, TypeOK
<1>2. ASSUME request'[r].pc = "arrived", ~ request'[r].good
      PROVE  request'[r].bearer # NoToken /\ ~ IsValid(request[r].bearer, clock)'
  <2>1. PICK t \in Tokens : request[r].bearer = t /\ ~ IsValid(t, clock) /\ t # NoToken
    BY <1>2 DEF Sound, Carries
  <2>2. ~ IsValid(t, clock)'
    BY <1>2, <2>1 DEF Frame
  <2> QED
    BY <2>1, <2>2 DEF IsValid
<1> QED
  BY <1>1, <1>2 DEF Sound, Frame
\* A step of one request, in a frame, keeps every request sound if it keeps
\* that one sound.
LEMMA StepSound ==
  ASSUME TypeOK, Frame, \A q \in Requests : Sound(q), NEW r \in Requests,
         Sound(r)', \A q \in Requests : q # r => request'[q] = request[q]
  PROVE  \A q \in Requests : Sound(q)'
BY LeftAlone

\* A refused or failed request carries nothing.
LEMMA RefusalSound ==
  ASSUME TypeOK, NEW r \in Requests,
         NEW status \in {"unauthorized", "logged_out", "failed", "error"},
         Answer(r, status)
  PROVE  Sound(r)'
<1>1. request'[r].pc = status
  BY OneRequest DEF Answer, Step
<1> QED
  BY <1>1 DEF Sound, Carries, Answers

\* A row of operator_sessions that exists has its columns.
LEMMA RowTyped ==
  ASSUME TypeOK, NEW t \in Tokens, session[t].exists
  PROVE  /\ session[t] \in Rows /\ session[t].expires \in Nat
         /\ session[t].op \in Operators
<1>1. session[t] \in Rows \cup {None}
  BY DEF TypeOK
<1>2. session[t] # None
  BY DEF None
<1>3. session[t] \in Rows
  BY <1>1, <1>2
<1> QED
  BY <1>3 DEF Rows

\* Frames: the steps that touch neither sessions nor the clock ...
LEMMA QuietFrame ==
  ASSUME TypeOK, UNCHANGED <<session, clock>>, performed \subseteq performed'
  PROVE  Frame
<1>1. \A t \in Tokens : IsValid(t, clock)' => IsValid(t, clock)
  BY DEF IsValid
<1>2. clock \in Nat /\ clock' = clock
  BY Constants DEF TypeOK
<1> QED
  BY <1>1, <1>2 DEF Frame

\* ... those that only make sessions less valid (Resolve's refresh, Logout, the
\* purge of expired sessions, time) ...
LEMMA SessionFrame ==
  ASSUME TypeOK, clock' \in {clock, clock + 1}, UNCHANGED performed,
         \A t \in Tokens : session'[t].exists =>
           /\ session[t].exists
           /\ session'[t].expires = session[t].expires
           /\ session[t].revoked => session'[t].revoked
  PROVE  Frame
<1>1. clock \in Nat
  BY Constants DEF TypeOK
<1>2. ASSUME NEW t \in Tokens, IsValid(t, clock)' PROVE IsValid(t, clock)
  BY <1>1, <1>2, RowTyped DEF IsValid
<1> QED
  BY <1>1, <1>2 DEF Frame

\* ... and a login, which takes a token no request in flight presents.
LEMMA LoginFrame ==
  ASSUME TypeOK, NEW o \in Operators, NEW t \in Tokens, Login(o, t)
  PROVE  Frame
<1>1. ASSUME NEW u \in Tokens, u # t, IsValid(u, clock)' PROVE IsValid(u, clock)
  BY <1>1 DEF Login, IsValid, TypeOK
<1>2. \A r \in Requests : request[r].pc = "arrived" => request[r].bearer # t
  BY DEF Login, InFlight
<1> QED
  BY <1>1, <1>2 DEF Frame, Login, TypeOK

\* What a refresh of last_used_at and a revocation leave of the row.
LEMMA RowWritten ==
  ASSUME TypeOK, NEW t \in Tokens, session[t].exists, NEW f \in {"used", "revoked"},
         session' = IF f = "used" THEN [session EXCEPT ![t].used = clock]
                    ELSE [session EXCEPT ![t].revoked = TRUE]
  PROVE  /\ session' \in [Tokens -> Rows \cup {None}]
         /\ \A u \in Tokens : u # t => session'[u] = session[u]
         /\ session'[t].exists
         /\ session'[t].expires = session[t].expires
         /\ f = "used" => session'[t].revoked = session[t].revoked
         /\ f = "revoked" => session'[t].revoked
<1>1. session \in [Tokens -> Rows \cup {None}] /\ session[t] \in Rows /\ clock \in Nat
  BY RowTyped, Constants DEF TypeOK
<1>2. CASE f = "used"
  <2>1. session'[t] = [session[t] EXCEPT !.used = clock]
    BY <1>1, <1>2
  <2>2. /\ session'[t] \in Rows /\ session'[t].exists
        /\ session'[t].expires = session[t].expires
        /\ session'[t].revoked = session[t].revoked
    BY <1>1, <2>1 DEF Rows
  <2> QED
    BY <1>1, <1>2, <2>2
<1>3. CASE f = "revoked"
  <2>1. session'[t] = [session[t] EXCEPT !.revoked = TRUE]
    BY <1>1, <1>3
  <2>2. /\ session'[t] \in Rows /\ session'[t].exists
        /\ session'[t].expires = session[t].expires
        /\ session'[t].revoked
    BY <1>1, <2>1 DEF Rows
  <2> QED
    BY <1>1, <1>3, <2>2
<1> QED
  BY <1>2, <1>3
-----------------------------------------------------------------------------
(***************************************************************************)
(* The steps keep the requests sound.                                      *)
(***************************************************************************)

\* A request arrives good unless its token is logged out of, revoked, expired
\* or unknown; a token that is any of these is not valid.
LEMMA ArriveSound ==
  ASSUME TypeOK, EndedIsRevoked, NEW r \in Requests,
         NEW bearer \in Tokens \cup {NoToken}, NEW key \in BOOLEAN,
         NEW does \in Purposes[r], Arrive(r, bearer, key, does)
  PROVE  Sound(r)'
<1> DEFINE good == IF bearer = NoToken THEN TRUE
                   ELSE bearer \notin ended /\ IsValid(bearer, clock)
<1>1. request'[r] = [pc |-> "arrived", bearer |-> bearer, key |-> key,
                     does |-> does, good |-> good]
  BY OneRequest DEF Arrive, Step
<1>2. good \in BOOLEAN
  BY DEF IsValid
<1> HIDE DEF good
<1>3. /\ request'[r].pc = "arrived" /\ request'[r].bearer = bearer
      /\ request'[r].good = good
  BY <1>1
<1>4. ~ good => bearer # NoToken /\ ~ IsValid(bearer, clock)
  BY DEF good, EndedIsRevoked, IsValid
<1>5. IsValid(bearer, clock)' = IsValid(bearer, clock)
  BY DEF Arrive, tables, IsValid
<1>6. Carries(r)'
  BY <1>2, <1>3 DEF Carries
<1>7. ~ request'[r].good => ~ good
  BY <1>2, <1>3
<1>8. ~ request'[r].good =>
        request'[r].bearer # NoToken /\ ~ IsValid(request[r].bearer, clock)'
  BY <1>3, <1>4, <1>5, <1>7 DEF IsValid
<1> QED
  BY <1>3, <1>6, <1>8 DEF Sound, InFlight

\* require_admin passes a request with a token on the strength of a valid
\* session, which a request that arrived bad does not have.
LEMMA RequireAdminSound ==
  ASSUME TypeOK, NEW r \in Requests, Sound(r), RequireAdmin(r)
  PROVE  Sound(r)'
<1> DEFINE q == request[r]
<1>1. /\ q.pc = "arrived" /\ q.bearer \in Tokens \cup {NoToken}
      /\ ~ q.good => q.bearer # NoToken /\ ~ IsValid(q.bearer, clock)
  BY DEF RequireAdmin, Sound, Carries
<1>2. CASE /\ q.bearer # NoToken /\ IsValid(q.bearer, clock)
           /\ Step(r, [pc |-> "found", bearer |-> q.bearer, does |-> q.does,
                       good |-> q.good, op |-> session[q.bearer].op,
                       used |-> session[q.bearer].used])
  <2>1. request'[r] = [pc |-> "found", bearer |-> q.bearer, does |-> q.does,
                       good |-> q.good, op |-> session[q.bearer].op,
                       used |-> session[q.bearer].used]
    BY <1>2, OneRequest DEF Step
  <2>2. /\ request'[r].pc = "found" /\ request'[r].bearer = q.bearer
        /\ request'[r].good = q.good /\ request'[r].op = session[q.bearer].op
    BY <2>1
  <2>3. q.bearer \in Tokens /\ q.good /\ session[q.bearer].op \in Operators
    BY <1>1, <1>2, RowTyped DEF IsValid
  <2> QED
    BY <2>2, <2>3 DEF Sound, Carries, InFlight
<1>3. CASE q.bearer = NoToken /\ Authorise(r, Legacy)
  <2>2. /\ request'[r].pc = "authorised" /\ request'[r].bearer = NoToken
        /\ request'[r].good = q.good /\ request'[r].by = Legacy
    BY <1>3, AuthoriseEffect
  <2> QED
    BY <1>1, <1>3, <2>2 DEF Sound, Carries, InFlight
<1>4. CASE Answer(r, "unauthorized")
  BY <1>4, RefusalSound
<1> QED
  BY <1>2, <1>3, <1>4 DEF RequireAdmin

\* The rest of resolve keeps the identity it was given.
LEMMA ResolveSound ==
  ASSUME TypeOK, NEW r \in Requests, Sound(r), Resolve(r)
  PROVE  Sound(r)'
<1> DEFINE q == request[r]
<1>1. q.pc = "found" /\ q.bearer \in Tokens /\ q.op \in Operators /\ q.good
  BY DEF Resolve, Sound, Carries
<1>2. CASE Answer(r, "unauthorized") \/ Answer(r, "error")
  BY <1>2, RefusalSound
<1>3. CASE Authorise(r, q.op)
  <2>2. /\ request'[r].pc = "authorised" /\ request'[r].bearer = q.bearer
        /\ request'[r].good = q.good /\ request'[r].by = q.op
    BY <1>3, AuthoriseEffect
  <2> QED
    BY <1>1, <2>2, Constants DEF Sound, Carries, InFlight
<1> QED
  BY <1>2, <1>3 DEF Resolve

\* The action takes effect in the step after which it counts as performed.
LEMMA ActSound ==
  ASSUME TypeOK, NEW r \in Requests, Sound(r), Act(r)
  PROVE  Sound(r)'
<1> DEFINE q == request[r]
<1>1. /\ q.pc = "authorised" /\ q.bearer \in Tokens \cup {NoToken} /\ q.good
      /\ q.by \in Operators \cup {Legacy} /\ ((q.by = Legacy) <=> (q.bearer = NoToken))
  BY DEF Act, Sound, Carries
<1>2. CASE Answer(r, "failed")
  BY <1>2, RefusalSound
<1>3. CASE /\ performed' = performed \cup {r}
           /\ Step(r, [pc |-> "acted", bearer |-> q.bearer, does |-> q.does,
                       good |-> q.good, by |-> q.by])
  <2>1. request'[r] = [pc |-> "acted", bearer |-> q.bearer, does |-> q.does,
                       good |-> q.good, by |-> q.by]
    BY <1>3, OneRequest DEF Step
  <2>2. /\ request'[r].pc = "acted" /\ request'[r].bearer = q.bearer
        /\ request'[r].good = q.good /\ request'[r].by = q.by
    BY <2>1
  <2> QED
    BY <1>1, <1>3, <2>2 DEF Sound, Carries, InFlight
<1> QED
  BY <1>2, <1>3 DEF Act

\* The record's transaction begins now.
LEMMA BeginRecordSound ==
  ASSUME TypeOK, NEW r \in Requests, Sound(r), BeginRecord(r)
  PROVE  Sound(r)'
<1> DEFINE q == request[r]
<1>1. /\ q.bearer \in Tokens \cup {NoToken} /\ r \in performed /\ q.good
      /\ q.by \in Operators \cup {Legacy} /\ ((q.by = Legacy) <=> (q.bearer = NoToken))
  BY DEF BeginRecord, Sound, Carries
<1>2. request'[r] = [pc |-> "recording", bearer |-> q.bearer, does |-> q.does,
                     good |-> q.good, by |-> q.by, at |-> clock]
  BY OneRequest DEF BeginRecord, Step
<1>3. /\ request'[r].pc = "recording" /\ request'[r].bearer = q.bearer
      /\ request'[r].good = q.good /\ request'[r].by = q.by /\ request'[r].at = clock
  BY <1>2
<1>4. clock \in 0 .. clock /\ UNCHANGED <<clock, performed>>
  BY Constants DEF BeginRecord, TypeOK, tables
<1> QED
  BY <1>1, <1>3, <1>4 DEF Sound, Carries, InFlight

\* The answer of success keeps who acted, and with what: after the record ...
LEMMA RecordSound ==
  ASSUME TypeOK, NEW r \in Requests, Sound(r), Record(r)
  PROVE  Sound(r)'
<1> DEFINE q == request[r]
<1>1. /\ q.pc = "recording" /\ q.bearer \in Tokens \cup {NoToken} /\ r \in performed
      /\ q.by \in Operators \cup {Legacy} /\ ((q.by = Legacy) <=> (q.bearer = NoToken))
      /\ q.at \in 0 .. clock
  BY DEF Record, Sound, Carries
<1>2. /\ request'[r].pc = "ok" /\ request'[r].by = q.by
      /\ request'[r].bearer = q.bearer /\ request'[r].at = q.at
  BY SuccessEffect DEF Record
<1>3. UNCHANGED <<clock, performed>>
  BY DEF Record
<1> QED
  BY <1>1, <1>2, <1>3 DEF Sound, Carries, Answers

\* ... and on the device routes, which have none.
LEMMA UnrecordedSound ==
  ASSUME TypeOK, NEW r \in Requests, Sound(r), ActUnrecorded(r)
  PROVE  Sound(r)'
<1> DEFINE q == request[r]
<1>1. /\ q.pc = "authorised" /\ q.bearer \in Tokens \cup {NoToken}
      /\ q.by \in Operators \cup {Legacy} /\ ((q.by = Legacy) <=> (q.bearer = NoToken))
  BY DEF ActUnrecorded, Sound, Carries
<1>2. CASE Answer(r, "failed")
  BY <1>2, RefusalSound
<1>3. CASE performed' = performed \cup {r} /\ Succeed(r, clock)
  <2>1. /\ request'[r].pc = "ok" /\ request'[r].by = q.by
        /\ request'[r].bearer = q.bearer /\ request'[r].at = clock
    BY <1>3, SuccessEffect
  <2>2. clock \in 0 .. clock /\ UNCHANGED clock
    BY Constants DEF ActUnrecorded, TypeOK
  <2> QED
    BY <1>1, <1>3, <2>1, <2>2 DEF Sound, Carries, Answers
<1> QED
  BY <1>2, <1>3 DEF ActUnrecorded
-----------------------------------------------------------------------------
(***************************************************************************)
(* The steps keep the invariant.                                           *)
(***************************************************************************)

\* A refresh never brings a session back: logins, refreshes, logouts, purges
\* and time leave a token that has been logged out of revoked or gone, and give
\* every request in flight its frame.
LEMMA SessionsStep ==
  ASSUME TypeOK, \A r \in Requests : Sound(r), EndedIsRevoked, [Next]_vars
  PROVE  /\ Frame /\ EndedIsRevoked' /\ ended' \subseteq Tokens
         /\ session' \in [Tokens -> Rows \cup {None}]
<1>0. /\ session \in [Tokens -> Rows \cup {None}] /\ ended \subseteq Tokens
      /\ clock \in Nat
  BY Constants DEF TypeOK
<1> DEFINE Goal == /\ Frame /\ EndedIsRevoked' /\ ended' \subseteq Tokens
                   /\ session' \in [Tokens -> Rows \cup {None}]
<1>1. ASSUME UNCHANGED <<session, ended, clock>>, performed \subseteq performed'
      PROVE  Goal
  BY <1>0, <1>1, QuietFrame DEF EndedIsRevoked
<1>2. ASSUME NEW o \in Operators, NEW t \in Tokens, Login(o, t) PROVE Goal
  <2>1. /\ ended' = ended \ {t}
        /\ session' = [session EXCEPT ![t] =
              [exists |-> TRUE, op |-> o, expires |-> clock + Ttl,
               revoked |-> FALSE, used |-> Never]]
    BY <1>2 DEF Login
  <2>2. [exists |-> TRUE, op |-> o, expires |-> clock + Ttl, revoked |-> FALSE,
         used |-> Never] \in Rows
    BY <1>0, Constants DEF Rows
  <2>3. \A u \in Tokens : u # t => session'[u] = session[u]
    BY <1>0, <2>1
  <2>4. EndedIsRevoked'
    BY <1>0, <2>1, <2>3 DEF EndedIsRevoked
  <2> QED
    BY <1>0, <1>2, <2>1, <2>2, <2>4, LoginFrame
<1>3. ASSUME NEW r \in Requests, Resolve(r) PROVE Goal
  <2>1. UNCHANGED <<ended, clock, performed>>
    BY <1>3 DEF Resolve
  <2>2. CASE UNCHANGED session
    BY <1>1, <2>1, <2>2
  <2>3. CASE /\ session[request[r].bearer].exists
             /\ session' = [session EXCEPT ![request[r].bearer].used = clock]
    <3>1. request[r].bearer \in Tokens
      BY <1>3 DEF Resolve, Sound, Carries
    <3>2. PICK t \in Tokens : /\ session[t].exists
                              /\ session' = [session EXCEPT ![t].used = clock]
      BY <2>3, <3>1
    <3>3. /\ session' \in [Tokens -> Rows \cup {None}]
          /\ \A u \in Tokens : u # t => session'[u] = session[u]
          /\ session'[t].exists /\ session'[t].expires = session[t].expires
          /\ session'[t].revoked = session[t].revoked
      BY <3>2, RowWritten
    <3>4. \A u \in Tokens : session'[u].exists =>
            /\ session[u].exists
            /\ session'[u].expires = session[u].expires
            /\ session[u].revoked => session'[u].revoked
      BY <3>2, <3>3
    <3>5. EndedIsRevoked'
      BY <1>0, <2>1, <3>2, <3>3 DEF EndedIsRevoked
    <3> QED
      BY <1>0, <2>1, <3>3, <3>4, <3>5, SessionFrame
  <2> QED
    BY <1>3, <2>2, <2>3 DEF Resolve
<1>4. ASSUME NEW r \in Requests, Logout(r) PROVE Goal
  <2>1. UNCHANGED <<clock, performed>>
    BY <1>4 DEF Logout
  <2>2. CASE request[r].by = Legacy
    BY <1>1, <1>4, <2>1, <2>2 DEF Logout
  <2>3. CASE request[r].by # Legacy
    <3>1. PICK t \in Tokens : t = request[r].bearer
      BY <1>4, <2>3 DEF Logout, Sound, Carries
    <3>2. /\ ended' = ended \cup {t}
          /\ session' = IF session[t].exists
                        THEN [session EXCEPT ![t].revoked = TRUE] ELSE session
      BY <1>4, <2>3, <3>1 DEF Logout
    <3>3. /\ session' \in [Tokens -> Rows \cup {None}]
          /\ \A u \in Tokens : u # t => session'[u] = session[u]
          /\ session'[t].exists =>
               /\ session[t].exists /\ session'[t].revoked
               /\ session'[t].expires = session[t].expires
      <4>1. CASE session[t].exists
        BY <3>2, <4>1, RowWritten
      <4>2. CASE ~ session[t].exists
        BY <1>0, <3>2, <4>2
      <4> QED
        BY <4>1, <4>2
    <3>4. \A u \in Tokens : session'[u].exists =>
            /\ session[u].exists
            /\ session'[u].expires = session[u].expires
            /\ session[u].revoked => session'[u].revoked
      BY <3>3
    <3>5. EndedIsRevoked'
      BY <1>0, <3>2, <3>3 DEF EndedIsRevoked
    <3> QED
      BY <1>0, <2>1, <3>2, <3>3, <3>4, <3>5, SessionFrame
  <2> QED
    BY <2>2, <2>3
<1>5. ASSUME PurgeDelete PROVE Goal
  <2>1. /\ session' = [t \in Tokens |-> IF t \in sweep.ids THEN None ELSE session[t]]
        /\ UNCHANGED <<ended, clock, performed>>
    BY <1>5 DEF PurgeDelete
  <2>2. \A t \in Tokens : session'[t].exists => session'[t] = session[t]
    BY <2>1 DEF None
  <2>3. EndedIsRevoked'
    BY <1>0, <2>1, <2>2 DEF EndedIsRevoked
  <2>4. \A u \in Tokens : session'[u].exists =>
          /\ session[u].exists
          /\ session'[u].expires = session[u].expires
          /\ session[u].revoked => session'[u].revoked
    BY <2>2
  <2> QED
    BY <1>0, <2>1, <2>3, <2>4, SessionFrame
<1>6. ASSUME Tick PROVE Goal
  BY <1>0, <1>6, SessionFrame DEF Tick, tables, EndedIsRevoked
<1>7. ASSUME NEW r \in Requests,
             \/ RequireAdmin(r) \/ Act(r) \/ ActUnrecorded(r) \/ BeginRecord(r)
             \/ Record(r) \/ RecordFails(r)
      PROVE  Goal
  <2>1. UNCHANGED <<session, ended, clock>> /\ performed \subseteq performed'
    BY <1>7 DEF RequireAdmin, Act, ActUnrecorded, BeginRecord, Record, RecordFails, tables
  <2> QED
    BY <1>1, <2>1
<1>8. ASSUME NEW r \in Requests, NEW bearer \in Tokens \cup {NoToken},
             NEW key \in BOOLEAN, NEW does \in Purposes[r],
             Arrive(r, bearer, key, does)
      PROVE  Goal
  BY <1>1, <1>8 DEF Arrive, tables
<1>9. ASSUME \/ PurgeSelect \/ AuditPurgeStart \/ AuditPurgeBatch
             \/ UNCHANGED vars \/ \E o \in Operators : SwitchOperator(o)
      PROVE  Goal
  <2>1. UNCHANGED <<session, ended, clock, performed>>
    BY <1>9 DEF PurgeSelect, AuditPurgeStart, AuditPurgeBatch, SwitchOperator,
       tables, vars
  <2> QED
    BY <1>1, <2>1
<1> HIDE DEF Goal
<1>10. Goal
  BY <1>2, <1>3, <1>4, <1>5, <1>6, <1>7, <1>8, <1>9 DEF Next
<1> QED
  BY <1>10 DEF Goal

\* Every request stays sound, whatever the others and the purges do.
LEMMA RequestsStep ==
  ASSUME TypeOK, \A r \in Requests : Sound(r), EndedIsRevoked, [Next]_vars
  PROVE  DOMAIN request' = Requests /\ \A r \in Requests : Sound(r)'
<1>0. Frame
  BY SessionsStep
<1> DEFINE Goal == DOMAIN request' = Requests /\ \A r \in Requests : Sound(r)'
<1>1. ASSUME UNCHANGED request PROVE Goal
  BY <1>0, <1>1, LeftAlone DEF TypeOK
<1>2. ASSUME NEW r \in Requests, NEW bearer \in Tokens \cup {NoToken},
             NEW key \in BOOLEAN, NEW does \in Purposes[r],
             Arrive(r, bearer, key, does)
      PROVE  Goal
  <2>1. \E v : request' = [request EXCEPT ![r] = v]
    BY <1>2 DEF Arrive, Step
  <2>2. Sound(r)'
    BY <1>2, ArriveSound
  <2>3. DOMAIN request' = Requests /\ \A q \in Requests : q # r => request'[q] = request[q]
    BY <2>1, OneRequest
  <2>4. \A q \in Requests : Sound(q)'
    BY <1>0, <2>2, <2>3, StepSound
  <2> QED
    BY <2>3, <2>4
<1>3. ASSUME NEW r \in Requests,
             \/ RequireAdmin(r) \/ Resolve(r) \/ Logout(r) \/ Act(r) \/ ActUnrecorded(r)
             \/ BeginRecord(r) \/ Record(r) \/ RecordFails(r)
      PROVE  Goal
  <2>1. \E v : request' = [request EXCEPT ![r] = v]
    BY <1>3 DEF RequireAdmin, Resolve, Logout, Act, ActUnrecorded, BeginRecord, Record,
       RecordFails, Step, Answer, Succeed, Authorise
  <2>2. Sound(r)'
    BY <1>3, RequireAdminSound, ResolveSound, ActSound, UnrecordedSound, BeginRecordSound,
       RecordSound, RefusalSound DEF Logout, RecordFails
  <2> QED
    BY <1>0, <2>1, <2>2, OneRequest, StepSound
<1>4. ASSUME NEW o \in Operators, NEW t \in Tokens, Login(o, t) PROVE Goal
  BY <1>1, <1>4 DEF Login
<1>5. ASSUME \/ PurgeSelect \/ PurgeDelete \/ AuditPurgeStart \/ AuditPurgeBatch
             \/ Tick \/ UNCHANGED vars \/ \E o \in Operators : SwitchOperator(o)
      PROVE  Goal
  <2>1. UNCHANGED request
    BY <1>5 DEF PurgeSelect, PurgeDelete, AuditPurgeStart, AuditPurgeBatch, Tick,
       SwitchOperator, vars
  <2> QED
    BY <1>1, <2>1
<1> HIDE DEF Goal
<1>6. Goal
  BY <1>2, <1>3, <1>4, <1>5 DEF Next
<1> QED
  BY <1>6 DEF Goal
\* The purge's cutoff is computed once and only grows older.
LEMMA CutoffStep ==
  ASSUME TypeOK, CutoffIsOld, [Next]_vars
  PROVE  /\ CutoffIsOld'
         /\ auditSweep' \in {Idle} \cup
              [pc : {"batch"}, cutoff : -Retention .. MaxTime, left : 1 .. MaxBatches]
<1> DEFINE Sweeps == [pc : {"batch"}, cutoff : -Retention .. MaxTime,
                      left : 1 .. MaxBatches]
<1>0. /\ clock \in 0 .. MaxTime /\ MaxTime \in Nat /\ Retention \in Nat
      /\ MaxBatches \in Nat \ {0} /\ auditSweep \in {Idle} \cup Sweeps
  BY Constants DEF TypeOK
<1>1. CASE UNCHANGED auditSweep /\ clock' \in {clock, clock + 1}
  <2>1. CASE auditSweep \in Sweeps
    BY <1>0, <1>1, <2>1 DEF CutoffIsOld
  <2>2. CASE auditSweep = Idle
    BY <1>1, <2>2 DEF CutoffIsOld, Idle
  <2> QED
    BY <1>0, <2>1, <2>2
<1>2. CASE AuditPurgeStart
  <2>1. /\ Retention > 0 /\ UNCHANGED clock
        /\ auditSweep' = [pc |-> "batch", cutoff |-> clock - Retention,
                          left |-> MaxBatches]
    BY <1>2 DEF AuditPurgeStart
  <2> QED
    BY <1>0, <2>1 DEF CutoffIsOld
<1>3. CASE AuditPurgeBatch
  <2>1. auditSweep \in Sweeps /\ auditSweep.pc = "batch"
    BY <1>0, <1>3 DEF AuditPurgeBatch, Idle
  <2>2. CASE auditSweep' = Idle
    BY <2>2 DEF CutoffIsOld, Idle
  <2>3. CASE /\ auditSweep.left # 1
             /\ auditSweep' = [auditSweep EXCEPT !.left = @ - 1]
    <3>1. /\ auditSweep'.pc = "batch" /\ auditSweep'.cutoff = auditSweep.cutoff
          /\ auditSweep'.left = auditSweep.left - 1
          /\ auditSweep' \in Sweeps
      BY <1>0, <2>1, <2>3
    <3> QED
      BY <1>3, <2>1, <3>1 DEF AuditPurgeBatch, CutoffIsOld
  <2> QED
    BY <1>3, <2>2, <2>3 DEF AuditPurgeBatch
<1>4. \/ UNCHANGED auditSweep /\ clock' \in {clock, clock + 1}
      \/ AuditPurgeStart \/ AuditPurgeBatch
  BY DEF Next, vars, SwitchOperator, Login, Arrive, RequireAdmin, Resolve, Logout,
     Act, ActUnrecorded, BeginRecord, Record, RecordFails, PurgeSelect, PurgeDelete,
     Tick, sweeps
<1> QED
  BY <1>1, <1>2, <1>3, <1>4

\* The rows of the log that are left say what was done, by whom and when, and a
\* success without a row is older than the retention period.
LEMMA AuditStep ==
  ASSUME TypeOK, AccessInvariant, [Next]_vars
  PROVE  RowsMatchAnswers' /\ SuccessIsOnRecord'
<1> USE DEF AccessInvariant
<1>0. /\ clock \in Nat /\ Retention \in Nat /\ DOMAIN request = Requests
      /\ \A a \in audit : a.req \in Requests
      /\ \A r \in Requests : request[r].pc = "ok" => request[r].at \in 0 .. clock
  BY Constants DEF TypeOK, RequestsCarry, Carries
<1>1. ASSUME UNCHANGED audit, clock' \in {clock, clock + 1},
             \A r \in Requests : request[r].pc = "ok" \/ request'[r].pc = "ok" =>
               request'[r] = request[r]
      PROVE  RowsMatchAnswers' /\ SuccessIsOnRecord'
  <2>1. RowsMatchAnswers'
    BY <1>0, <1>1 DEF RowsMatchAnswers
  <2>2. SuccessIsOnRecord'
    BY <1>0, <1>1 DEF SuccessIsOnRecord
  <2> QED
    BY <2>1, <2>2
<1>2. ASSUME NEW r \in Requests,
             \/ RequireAdmin(r) \/ Resolve(r) \/ Logout(r) \/ Act(r)
             \/ BeginRecord(r) \/ RecordFails(r)
      PROVE  RowsMatchAnswers' /\ SuccessIsOnRecord'
  <2>1. \E v : v.pc # "ok" /\ request' = [request EXCEPT ![r] = v]
    <3>1. ASSUME NEW status \in {"unauthorized", "logged_out", "failed", "error"},
                 Answer(r, status)
          PROVE  request' = [request EXCEPT ![r] = [pc |-> status]]
      BY <3>1 DEF Answer, Step
    <3>2. \A status \in {"unauthorized", "logged_out", "failed", "error"} :
            [pc |-> status].pc # "ok"
      OBVIOUS
    <3>3. CASE \E status \in {"unauthorized", "logged_out", "failed", "error"} :
                 Answer(r, status)
      BY <3>1, <3>2, <3>3
    <3>4. CASE RequireAdmin(r)
      BY <3>3, <3>4 DEF RequireAdmin, Authorise, Step
    <3>5. CASE Resolve(r)
      BY <3>3, <3>5 DEF Resolve, Authorise, Step
    <3>6. CASE Act(r)
      BY <3>3, <3>6 DEF Act, Step
    <3>7. CASE Logout(r) \/ RecordFails(r)
      BY <3>3, <3>7 DEF Logout, RecordFails
    <3>8. CASE BeginRecord(r)
      BY <3>8 DEF BeginRecord, Step
    <3> QED
      BY <1>2, <3>4, <3>5, <3>6, <3>7, <3>8
  <2>2. request'[r].pc # "ok" /\ \A q \in Requests : q # r => request'[q] = request[q]
    BY <2>1, OneRequest
  <2>3. request[r].pc # "ok" /\ UNCHANGED <<audit, clock>>
    BY <1>2 DEF RequireAdmin, Resolve, Logout, Act, BeginRecord, RecordFails, tables
  <2> QED
    BY <1>1, <2>2, <2>3
<1>3. ASSUME NEW r \in Requests, NEW bearer \in Tokens \cup {NoToken},
             NEW key \in BOOLEAN, NEW does \in Purposes[r],
             Arrive(r, bearer, key, does)
      PROVE  RowsMatchAnswers' /\ SuccessIsOnRecord'
  <2> DEFINE good == IF bearer = NoToken THEN TRUE
                     ELSE bearer \notin ended /\ IsValid(bearer, clock)
             new == [pc |-> "arrived", bearer |-> bearer, key |-> key,
                     does |-> does, good |-> good]
  <2>1. new.pc = "arrived" /\ request' = [request EXCEPT ![r] = new]
    BY <1>3 DEF Arrive, Step
  <2> HIDE DEF new
  <2>2. request'[r].pc # "ok" /\ \A q \in Requests : q # r => request'[q] = request[q]
    BY <2>1, OneRequest
  <2>3. request[r].pc # "ok" /\ UNCHANGED <<audit, clock>>
    BY <1>3 DEF Arrive, tables, Idle
  <2> QED
    BY <1>1, <2>2, <2>3
<1>4. ASSUME NEW r \in Requests, Record(r)
      PROVE  RowsMatchAnswers' /\ SuccessIsOnRecord'
  <2> DEFINE new == [id |-> nextId, req |-> r, by |-> request[r].by,
                     at |-> request[r].at]
  <2>1. /\ request[r].pc = "recording" /\ audit' = audit \cup {new} /\ clock' = clock
    BY <1>4 DEF Record
  <2>2. /\ request'[r].pc = "ok" /\ request'[r].by = request[r].by
        /\ request'[r].at = request[r].at
        /\ \A q \in Requests : q # r => request'[q] = request[q]
    BY <1>4, SuccessEffect DEF Record
  <2>3. new.req = r /\ new.by = request[r].by /\ new.at = request[r].at
    OBVIOUS
  <2> HIDE DEF new
  <2>4. \A a \in audit : a.req # r
    BY <2>1 DEF RowsMatchAnswers
  <2>5. RowsMatchAnswers'
    BY <1>0, <2>1, <2>2, <2>3, <2>4 DEF RowsMatchAnswers
  <2>6. SuccessIsOnRecord'
    BY <1>0, <2>1, <2>2, <2>3 DEF SuccessIsOnRecord
  <2> QED
    BY <2>5, <2>6
<1>8. ASSUME NEW r \in Requests, ActUnrecorded(r)
      PROVE  RowsMatchAnswers' /\ SuccessIsOnRecord'
  <2>1. /\ request[r].pc = "authorised" /\ request[r].does = "device"
        /\ UNCHANGED <<audit, clock>>
    BY <1>8 DEF ActUnrecorded
  <2>2. /\ request'[r].pc = "failed" \/ request'[r].does = "device"
        /\ \A q \in Requests : q # r => request'[q] = request[q]
    <3>1. CASE Answer(r, "failed")
      BY <3>1, OneRequest DEF Answer, Step
    <3>2. CASE Succeed(r, clock)
      BY <2>1, <3>2, SuccessEffect
    <3> QED
      BY <1>8, <3>1, <3>2 DEF ActUnrecorded
  <2>3. \A a \in audit : a.req # r
    BY <2>1 DEF RowsMatchAnswers
  <2>4. RowsMatchAnswers'
    BY <1>0, <2>1, <2>2, <2>3 DEF RowsMatchAnswers
  <2>5. SuccessIsOnRecord'
    BY <1>0, <2>1, <2>2 DEF SuccessIsOnRecord
  <2> QED
    BY <2>4, <2>5
<1>5. ASSUME AuditPurgeBatch PROVE RowsMatchAnswers' /\ SuccessIsOnRecord'
  <2>1. /\ auditSweep.pc = "batch" /\ UNCHANGED <<clock, request>>
        /\ audit' \subseteq audit
        /\ \A a \in audit : a \notin audit' => a.at < auditSweep.cutoff
    BY <1>5 DEF AuditPurgeBatch
  <2>2. Retention > 0 /\ auditSweep.cutoff <= clock - Retention
        /\ auditSweep.cutoff \in Int
    BY <1>0, <2>1, Constants DEF CutoffIsOld, TypeOK, Idle
  <2>3. RowsMatchAnswers'
    BY <2>1 DEF RowsMatchAnswers
  <2>4. ASSUME NEW r \in Requests, request[r].pc = "ok", request[r].does = "audited"
        PROVE  \/ \E a \in audit' : a.req = r
               \/ Retention > 0 /\ request[r].at < clock - Retention
    <3>1. CASE \E a \in audit : a.req = r
      <4>1. PICK a \in audit : a.req = r
        BY <3>1
      <4>2. CASE a \in audit'
        BY <4>1, <4>2
      <4>3. CASE a \notin audit'
        <5>1. request[r].at = a.at /\ a.at \in Int
          BY <1>0, <2>4, <4>1 DEF RowsMatchAnswers
        <5> QED
          BY <1>0, <2>1, <2>2, <4>3, <5>1
      <4> QED
        BY <4>2, <4>3
    <3>2. CASE ~ \E a \in audit : a.req = r
      BY <2>4, <3>2 DEF SuccessIsOnRecord
    <3> QED
      BY <3>1, <3>2
  <2>5. SuccessIsOnRecord'
    BY <2>1, <2>4 DEF SuccessIsOnRecord
  <2> QED
    BY <2>3, <2>5
<1>6. ASSUME NEW o \in Operators, NEW t \in Tokens, Login(o, t)
      PROVE  RowsMatchAnswers' /\ SuccessIsOnRecord'
  BY <1>1, <1>6 DEF Login
<1>7. ASSUME \/ PurgeSelect \/ PurgeDelete \/ AuditPurgeStart \/ Tick
             \/ UNCHANGED vars \/ \E o \in Operators : SwitchOperator(o)
      PROVE  RowsMatchAnswers' /\ SuccessIsOnRecord'
  <2>1. UNCHANGED <<audit, request>> /\ clock' \in {clock, clock + 1}
    BY <1>7 DEF PurgeSelect, PurgeDelete, AuditPurgeStart, Tick, SwitchOperator,
       tables, vars
  <2> QED
    BY <1>1, <2>1
<1> QED
  BY <1>2, <1>3, <1>4, <1>5, <1>6, <1>7, <1>8 DEF Next

\* The log, the clock and the counters keep their types.
LEMMA TableTypes ==
  ASSUME TypeOK, AccessInvariant, [Next]_vars
  PROVE  /\ clock' \in 0 .. MaxTime /\ active' \subseteq Operators /\ nextId' \in Nat
         /\ \A a \in audit' : /\ a.id \in 0 .. nextId' - 1 /\ a.req \in Requests
                              /\ a.by \in Operators \cup {Legacy}
                              /\ a.at \in 0 .. clock'
         /\ sweep' \in {Idle} \cup [pc : {"delete"}, ids : SUBSET Tokens]
         /\ failures' \in 0 .. MaxFailures /\ performed' \subseteq Requests
<1>0. /\ clock \in 0 .. MaxTime /\ active \subseteq Operators /\ nextId \in Nat
      /\ \A a \in audit : /\ a.id \in 0 .. nextId - 1 /\ a.req \in Requests
                          /\ a.by \in Operators \cup {Legacy} /\ a.at \in 0 .. clock
      /\ sweep \in {Idle} \cup [pc : {"delete"}, ids : SUBSET Tokens]
      /\ failures \in 0 .. MaxFailures /\ performed \subseteq Requests
      /\ MaxTime \in Nat /\ MaxFailures \in Nat
  BY Constants DEF TypeOK
<1>1. ASSUME NEW r \in Requests, Record(r)
      PROVE  /\ nextId' = nextId + 1
             /\ \A a \in audit' : /\ a.id \in 0 .. nextId' - 1 /\ a.req \in Requests
                                  /\ a.by \in Operators \cup {Legacy}
                                  /\ a.at \in 0 .. clock'
  <2> DEFINE new == [id |-> nextId, req |-> r, by |-> request[r].by,
                     at |-> request[r].at]
  <2>1. audit' = audit \cup {new} /\ clock' = clock /\ nextId' = nextId + 1
    BY <1>1 DEF Record
  <2>2. request[r].by \in Operators \cup {Legacy} /\ request[r].at \in 0 .. clock
    BY <1>1 DEF Record, AccessInvariant, RequestsCarry, Carries
  <2>3. /\ new.id = nextId /\ new.req = r /\ new.at \in 0 .. clock
        /\ new.by \in Operators \cup {Legacy}
    BY <2>2
  <2> HIDE DEF new
  <2> QED
    BY <1>0, <2>1, <2>3
<1>2. CASE \E r \in Requests : Record(r)
  <2>1. PICK r \in Requests : Record(r)
    BY <1>2
  <2>2. UNCHANGED <<clock, active, sweep, failures, performed>>
    BY <2>1 DEF Record, sweeps
  <2> QED
    BY <1>0, <1>1, <2>1, <2>2
<1>3. CASE PurgeSelect \/ PurgeDelete
  <2>1. sweep' \in {Idle} \cup [pc : {"delete"}, ids : SUBSET Tokens]
    BY <1>3 DEF PurgeSelect, PurgeDelete
  <2> QED
    BY <1>0, <1>3, <2>1 DEF PurgeSelect, PurgeDelete, tables
<1>4. CASE AuditPurgeBatch
  BY <1>0, <1>4 DEF AuditPurgeBatch
<1>5. CASE Tick
  BY <1>0, <1>5 DEF Tick, tables, sweeps
<1>6. CASE AuditPurgeStart \/ UNCHANGED vars \/ \E o \in Operators : SwitchOperator(o)
  BY <1>0, <1>6 DEF AuditPurgeStart, SwitchOperator, tables, sweeps, vars
<1>7. CASE \E r \in Requests :
             \/ RequireAdmin(r) \/ Resolve(r) \/ Logout(r) \/ Act(r)
             \/ ActUnrecorded(r) \/ BeginRecord(r) \/ RecordFails(r)
  <2>1. /\ UNCHANGED <<clock, active, audit, nextId, sweep>>
        /\ failures' \in 0 .. MaxFailures /\ performed' \subseteq Requests
    BY <1>0, <1>7 DEF RequireAdmin, Resolve, Logout, Act, ActUnrecorded, BeginRecord,
       RecordFails, tables, sweeps
  <2> QED
    BY <1>0, <2>1
<1>8. CASE \/ \E o \in Operators, t \in Tokens : Login(o, t)
           \/ \E r \in Requests : \E bearer \in Tokens \cup {NoToken},
                 key \in BOOLEAN, does \in Purposes[r] : Arrive(r, bearer, key, does)
  <2>1. UNCHANGED <<clock, active, audit, nextId, sweep, failures, performed>>
    BY <1>8 DEF Login, Arrive, tables, sweeps
  <2> QED
    BY <1>0, <2>1
<1> QED
  BY <1>2, <1>3, <1>4, <1>5, <1>6, <1>7, <1>8 DEF Next

\* Every step keeps the types and the inductive invariant.
LEMMA AccessStep ==
  TypeOK /\ AccessInvariant /\ [Next]_vars => TypeOK' /\ AccessInvariant'
<1> SUFFICES ASSUME TypeOK, AccessInvariant, [Next]_vars
             PROVE  TypeOK' /\ AccessInvariant'
  OBVIOUS
<1>1. \A r \in Requests : Sound(r)
  BY SoundParts DEF TypeOK, AccessInvariant
<1>2. /\ EndedIsRevoked' /\ ended' \subseteq Tokens
      /\ session' \in [Tokens -> Rows \cup {None}]
      /\ DOMAIN request' = Requests /\ \A r \in Requests : Sound(r)'
  BY <1>1, SessionsStep, RequestsStep DEF AccessInvariant
<1>3. /\ RequestsCarry' /\ BadStaysInvalid' /\ ActedIsPerformed'
      /\ \A r \in Requests : request'[r].pc \in Answers \cup InFlight \cup {"idle"}
  BY <1>2, SoundParts DEF Sound, RequestsCarry, BadStaysInvalid, ActedIsPerformed
<1>4. /\ CutoffIsOld' /\ RowsMatchAnswers' /\ SuccessIsOnRecord'
      /\ auditSweep' \in {Idle} \cup
           [pc : {"batch"}, cutoff : -Retention .. MaxTime, left : 1 .. MaxBatches]
  BY CutoffStep, AuditStep DEF AccessInvariant
<1>5. TypeOK'
  BY <1>2, <1>3, <1>4, TableTypes DEF TypeOK
<1> QED
  BY <1>2, <1>3, <1>4, <1>5 DEF AccessInvariant

\* Before the first login there is nothing to violate.
LEMMA AccessInit == Init => TypeOK /\ AccessInvariant
<1> SUFFICES ASSUME Init PROVE TypeOK /\ AccessInvariant
  OBVIOUS
<1>1. \A r \in Requests : request[r].pc = "idle"
  BY DEF Init, Idle
<1>2. TypeOK
  BY <1>1, Constants DEF Init, TypeOK
<1>3. AccessInvariant
  BY <1>1 DEF Init, AccessInvariant, RequestsCarry, Carries, EndedIsRevoked,
     BadStaysInvalid, ActedIsPerformed, RowsMatchAnswers, CutoffIsOld,
     SuccessIsOnRecord, Idle
<1> QED
  BY <1>2, <1>3

-----------------------------------------------------------------------------
(***************************************************************************)
(* Theorems.                                                               *)
(***************************************************************************)

\* The invariant on which the three guarantees rest: what a request carries
\* between require_admin, the action and the record, and what the session it
\* presents can still become.
THEOREM AccessConsistent == Spec => [](TypeOK /\ AccessInvariant)
BY AccessInit, AccessStep, PTL DEF Spec

\* AuthService.resolve and require_admin: no request that arrives with a revoked
\* or expired session is ever authorised or acts, whatever runs beside it.
THEOREM RevokedIsFinal == Spec => []RevokedStaysOut
<1>1. AccessInvariant => RevokedStaysOut
  BY DEF AccessInvariant, BadStaysInvalid, RevokedStaysOut
<1> QED
  BY <1>1, AccessConsistent, PTL

\* AuditService.record: every row of the log stands for one action that took
\* effect, once, under the identity of whoever performed it.
THEOREM AuditTrue == Spec => []AuditTellsTheTruth
<1>1. TypeOK /\ AccessInvariant => AuditTellsTheTruth
  BY DEF TypeOK, AccessInvariant, RowsMatchAnswers, ActedIsPerformed,
     RequestsCarry, Carries, AuditTellsTheTruth
<1> QED
  BY <1>1, AccessConsistent, PTL

\* record before the answer, and purge_older_than: an action of the admin router
\* answered with success has its row for as long as the retention period lasts.
THEOREM SuccessRecorded == Spec => []SuccessIsOnRecord
<1>1. AccessInvariant => SuccessIsOnRecord
  BY DEF AccessInvariant
<1> QED
  BY <1>1, AccessConsistent, PTL
=============================================================================
