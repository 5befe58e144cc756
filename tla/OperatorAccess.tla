---------------------------- MODULE OperatorAccess ----------------------------
(***************************************************************************)
(* Who may act in the dashboard, and what is kept of it: operator sessions *)
(* (services/auth_service.py), the guard every admin route depends on      *)
(* (require_admin), the shape all state-changing admin routes have (act,   *)
(* commit, then record in a transaction of its own), the device routes,    *)
(* which act and record nothing, and the two sweeps that delete expired    *)
(* sessions and old audit rows.  What an action does to its conversation,  *)
(* price or customer is the other modules' business; here it either takes  *)
(* effect or fails.                                                        *)
(***************************************************************************)
EXTENDS Integers, FiniteSets

CONSTANTS
  Operators, Tokens, Requests,
  Legacy,       \* the reserved operator behind the shared ADMIN_API_KEY
  NoToken,
  Purposes,     \* Purposes[r]: what the request r may be for
  Ttl, Resolution, Retention, BatchSize, MaxBatches,
  MaxTime, MaxFailures

\* A request logs out, registers or removes a device, or asks for one of the
\* actions of the admin router, each of which records itself.
Kinds == {"logout", "device", "audited"}

ASSUME AccessAssumption ==
  /\ Purposes \in [Requests -> SUBSET Kinds]
  /\ Legacy \notin Operators /\ NoToken \notin Tokens
  /\ {Ttl, BatchSize, MaxBatches} \subseteq Nat \ {0}
  /\ {Resolution, Retention, MaxTime, MaxFailures} \subseteq Nat

VARIABLES
  clock,
  active,      \* operators with is_active
  session,     \* operator_sessions, by token
  request,     \* the requests of the dashboard and the application
  audit,       \* audit_logs
  nextId,
  sweep,       \* the session purge: the ids it has selected
  auditSweep,  \* the audit purge: its cutoff and the batches it has left
  failures,
  performed,   \* the requests whose action took effect
  ended        \* the tokens somebody has logged out of

vars == <<clock, active, session, request, audit, nextId, sweep, auditSweep,
          failures, performed, ended>>

None == [exists |-> FALSE]
Never == -1
Idle == [pc |-> "idle"]
InFlight == {"arrived", "found", "authorised", "acted", "recording"}
Rows == [exists : {TRUE}, op : Operators, expires : Nat, revoked : BOOLEAN,
         used : Nat \cup {Never}]

\* OperatorSession.is_valid
IsValid(t, now) ==
  session[t].exists /\ ~session[t].revoked /\ session[t].expires > now

Init ==
  /\ clock = 0 /\ active = Operators /\ failures = 0 /\ nextId = 0
  /\ session = [t \in Tokens |-> None]
  /\ request = [r \in Requests |-> Idle]
  /\ audit = {} /\ performed = {} /\ sweep = Idle /\ auditSweep = Idle
  /\ ended = {}

tables == <<session, audit, nextId, performed, ended>>
sweeps == <<sweep, auditSweep>>

Step(r, fields) == request' = [request EXCEPT ![r] = fields]
\* A request that is refused or fails is over; of a success its author is kept,
\* and the moment its effect or its record dates from.
Answer(r, status) == Step(r, [pc |-> status])
Succeed(r, at) ==
  LET q == request[r]
  IN Step(r, [pc |-> "ok", does |-> q.does, bearer |-> q.bearer, by |-> q.by, at |-> at])

\* POST /admin/auth/login with the right password.
Login(o, t) ==
  /\ o \in active /\ session[t] = None
  /\ \A r \in Requests : request[r].pc \in InFlight => request[r].bearer # t
  /\ ended' = ended \ {t}
  /\ session' = [session EXCEPT ![t] =
       [exists |-> TRUE, op |-> o, expires |-> clock + Ttl, revoked |-> FALSE,
        used |-> Never]]
  /\ UNCHANGED <<clock, active, request, audit, nextId, performed, sweeps, failures>>

\* A request arrives, with a bearer token, the shared key, both or neither.
\* Whether its session was good at this moment is remembered for the properties.
Arrive(r, bearer, key, does) ==
  /\ request[r] = Idle
  /\ Step(r, [pc |-> "arrived", bearer |-> bearer, key |-> key, does |-> does,
              good |-> IF bearer = NoToken THEN TRUE
                       ELSE bearer \notin ended /\ IsValid(bearer, clock)])
  /\ UNCHANGED <<clock, active, tables, sweeps, failures>>

\* Past require_admin a request goes on under an identity.
Authorise(r, by) ==
  LET q == request[r]
  IN Step(r, [pc |-> "authorised", bearer |-> q.bearer, does |-> q.does,
              good |-> q.good, by |-> by])

\* require_admin: a request that presents a token stands or falls with it.  Its
\* session is read once; the row it goes on with may be purged meanwhile.
RequireAdmin(r) ==
  LET q == request[r]
  IN /\ q.pc = "arrived"
     /\ \/ /\ q.bearer # NoToken /\ IsValid(q.bearer, clock)
           /\ Step(r, [pc |-> "found", bearer |-> q.bearer, does |-> q.does,
                       good |-> q.good, op |-> session[q.bearer].op,
                       used |-> session[q.bearer].used])
        \/ q.bearer = NoToken /\ q.key /\ Authorise(r, Legacy)
        \/ /\ IF q.bearer = NoToken THEN ~q.key ELSE ~IsValid(q.bearer, clock)
           /\ Answer(r, "unauthorized")
     /\ UNCHANGED <<clock, active, tables, sweeps, failures>>

\* The row as the request read it is written back whole.
ResolveWritingBack(r) ==
  LET q == request[r]
  IN /\ q.pc = "found" /\ q.op \in active
     /\ session' = [session EXCEPT ![q.bearer] =
          [exists |-> TRUE, op |-> q.op, expires |-> clock + Ttl, revoked |-> FALSE,
           used |-> clock]]
     /\ Authorise(r, q.op)
     /\ UNCHANGED <<clock, active, audit, nextId, performed, ended, sweeps, failures>>

\* The rest of AuthService.resolve: the operator must be active, and last_used_at
\* is written when the one that was read is too old.  Only that write notices
\* that the row has been purged.
Resolve(r) ==
  LET q == request[r]
      old == q.used = Never \/ clock - q.used > Resolution
  IN /\ q.pc = "found"
     /\ \/ q.op \notin active /\ Answer(r, "unauthorized") /\ UNCHANGED session
        \/ q.op \in active /\ ~old /\ Authorise(r, q.op) /\ UNCHANGED session
        \/ /\ q.op \in active /\ old /\ session[q.bearer].exists
           /\ session' = [session EXCEPT ![q.bearer].used = clock]
           /\ Authorise(r, q.op)
        \/ /\ q.op \in active /\ old /\ ~session[q.bearer].exists
           /\ Answer(r, "error") /\ UNCHANGED session
     /\ UNCHANGED <<clock, active, audit, nextId, performed, ended, sweeps, failures>>

\* POST /admin/auth/logout; the shared key has no session to end.
Logout(r) ==
  LET q == request[r]
  IN /\ q.pc = "authorised" /\ q.does = "logout"
     /\ session' = IF q.by = Legacy THEN session
                   ELSE IF session[q.bearer].exists
                        THEN [session EXCEPT ![q.bearer].revoked = TRUE]
                        ELSE session
     /\ ended' = IF q.by = Legacy THEN ended ELSE ended \cup {q.bearer}
     /\ Answer(r, "logged_out")
     /\ UNCHANGED <<clock, active, audit, nextId, performed, sweeps, failures>>

\* The audit row first, the action afterwards.
ActAfterRecording(r) ==
  LET q == request[r]
  IN /\ q.pc = "authorised" /\ q.does = "audited"
     /\ audit' = audit \cup {[id |-> nextId, req |-> r, by |-> q.by, at |-> clock]}
     /\ nextId' = nextId + 1
     /\ \/ performed' = performed \cup {r} /\ Succeed(r, clock) /\ UNCHANGED failures
        \/ /\ failures < MaxFailures /\ failures' = failures + 1
           /\ Answer(r, "failed") /\ UNCHANGED performed
     /\ UNCHANGED <<clock, active, session, ended, sweeps>>

\* The action is committed, or fails with 404, 409 or 503.
Act(r) ==
  LET q == request[r]
  IN /\ q.pc = "authorised" /\ q.does = "audited"
     /\ \/ /\ performed' = performed \cup {r}
           /\ Step(r, [pc |-> "acted", bearer |-> q.bearer, does |-> q.does,
                       good |-> q.good, by |-> q.by])
           /\ UNCHANGED failures
        \/ /\ failures < MaxFailures /\ failures' = failures + 1
           /\ Answer(r, "failed") /\ UNCHANGED performed
     /\ UNCHANGED <<clock, active, session, audit, nextId, ended, sweeps>>

\* POST and DELETE /admin/device-token change a table, and the answer is all that
\* is left of who did it.
ActUnrecorded(r) ==
  /\ request[r].pc = "authorised" /\ request[r].does = "device"
  /\ \/ performed' = performed \cup {r} /\ Succeed(r, clock) /\ UNCHANGED failures
     \/ /\ failures < MaxFailures /\ failures' = failures + 1
        /\ Answer(r, "failed") /\ UNCHANGED performed
  /\ UNCHANGED <<clock, active, session, audit, nextId, ended, sweeps>>

\* AuditService.record begins the transaction its row will be dated from ...
BeginRecord(r) ==
  LET q == request[r]
  IN /\ q.pc = "acted"
     /\ Step(r, [pc |-> "recording", bearer |-> q.bearer, does |-> q.does,
                 good |-> q.good, by |-> q.by, at |-> clock])
     /\ UNCHANGED <<clock, active, tables, sweeps, failures>>

\* ... and commits it.
Record(r) ==
  LET q == request[r]
  IN /\ q.pc = "recording"
     /\ audit' = audit \cup {[id |-> nextId, req |-> r, by |-> q.by, at |-> q.at]}
     /\ nextId' = nextId + 1
     /\ Succeed(r, q.at)
     /\ UNCHANGED <<clock, active, session, performed, ended, sweeps, failures>>

\* The process dies, or the record cannot be written: the action stays, its row
\* is missing, and the operator is not told it succeeded.
RecordFails(r) ==
  /\ request[r].pc \in {"acted", "recording"} /\ failures < MaxFailures
  /\ failures' = failures + 1
  /\ Answer(r, "error")
  /\ UNCHANGED <<clock, active, tables, sweeps>>

\* purge_expired_sessions: the expired ids are collected ...
PurgeSelect ==
  /\ sweep = Idle
  /\ LET ids == {t \in Tokens : session[t].exists /\ session[t].expires < clock}
     IN ids # {} /\ sweep' = [pc |-> "delete", ids |-> ids]
  /\ UNCHANGED <<clock, active, tables, request, auditSweep, failures>>

\* ... and deleted.
PurgeDelete ==
  /\ sweep.pc = "delete" /\ sweep' = Idle
  /\ session' = [t \in Tokens |-> IF t \in sweep.ids THEN None ELSE session[t]]
  /\ UNCHANGED <<clock, active, audit, nextId, performed, ended, request, auditSweep, failures>>

\* The audit purge computes its cutoff once; a retention of zero keeps everything.
AuditPurgeStart ==
  /\ auditSweep = Idle /\ Retention > 0
  /\ auditSweep' = [pc |-> "batch", cutoff |-> clock - Retention, left |-> MaxBatches]
  /\ UNCHANGED <<clock, active, tables, request, sweep, failures>>

\* The oldest rows, whatever their age.
AuditPurgeBatchByCount ==
  LET batch == {a \in audit : Cardinality({b \in audit : b.id < a.id}) < BatchSize}
  IN /\ auditSweep.pc = "batch"
     /\ audit' = audit \ batch
     /\ auditSweep' = Idle
     /\ UNCHANGED <<clock, active, session, nextId, performed, ended, request, sweep, failures>>

\* One batch of purge_older_than: the lowest ids among the rows before the cutoff.
AuditPurgeBatch ==
  LET old == {a \in audit : a.at < auditSweep.cutoff}
      batch == {a \in old : Cardinality({b \in old : b.id < a.id}) < BatchSize}
  IN /\ auditSweep.pc = "batch"
     /\ audit' = audit \ batch
     /\ auditSweep' = IF batch = {} \/ auditSweep.left = 1 THEN Idle
                      ELSE [auditSweep EXCEPT !.left = @ - 1]
     /\ UNCHANGED <<clock, active, session, nextId, performed, ended, request, sweep, failures>>

\* An administrator of the database disables an operator, or enables one again.
SwitchOperator(o) ==
  /\ failures < MaxFailures /\ failures' = failures + 1
  /\ active' = IF o \in active THEN active \ {o} ELSE active \cup {o}
  /\ UNCHANGED <<clock, tables, request, sweeps>>

Tick ==
  /\ clock < MaxTime /\ clock' = clock + 1
  /\ UNCHANGED <<active, tables, request, sweeps, failures>>

Next ==
  \/ \E o \in Operators : SwitchOperator(o) \/ \E t \in Tokens : Login(o, t)
  \/ \E r \in Requests :
       \/ \E bearer \in Tokens \cup {NoToken}, key \in BOOLEAN, does \in Purposes[r] :
            Arrive(r, bearer, key, does)
       \/ RequireAdmin(r) \/ Resolve(r) \/ Logout(r)
       \/ Act(r) \/ ActUnrecorded(r) \/ BeginRecord(r) \/ Record(r) \/ RecordFails(r)
  \/ PurgeSelect \/ PurgeDelete \/ AuditPurgeStart \/ AuditPurgeBatch \/ Tick

Spec == Init /\ [][Next]_vars
-----------------------------------------------------------------------------
(* Properties *)

\* Every table, request and sweep keeps its type; a sweep never outlives its
\* batches.
Answers == {"unauthorized", "logged_out", "failed", "error", "ok"}
TypeOK ==
  /\ clock \in 0 .. MaxTime /\ active \subseteq Operators
  /\ session \in [Tokens -> Rows \cup {None}]
  /\ DOMAIN request = Requests
  /\ \A r \in Requests :
       request[r].pc \in Answers \cup InFlight \cup {"idle"}
  /\ nextId \in Nat
  /\ \A a \in audit : a.id \in 0 .. nextId - 1 /\ a.req \in Requests
                      /\ a.by \in Operators \cup {Legacy} /\ a.at \in 0 .. clock
  /\ sweep \in {Idle} \cup [pc : {"delete"}, ids : SUBSET Tokens]
  /\ auditSweep \in {Idle} \cup
       [pc : {"batch"}, cutoff : -Retention .. MaxTime, left : 1 .. MaxBatches]
  /\ failures \in 0 .. MaxFailures /\ performed \subseteq Requests /\ ended \subseteq Tokens

\* Logging out and expiring are final: no request that arrives with a revoked or
\* expired token is ever authorised, whatever refreshes, logouts and purges of the
\* same session run beside it.
RevokedStaysOut ==
  \A r \in Requests : request[r].pc \in {"authorised", "acted", "recording"} => request[r].good

\* The log records nothing that did not happen, once per request, and under the
\* name of whoever did it: the token's operator when a token was presented, the
\* legacy operator only for the shared key.
AuditTellsTheTruth ==
  \A a \in audit :
    /\ a.req \in performed
    /\ request[a.req].by = a.by
    /\ (a.by = Legacy) <=> (request[a.req].bearer = NoToken)
    /\ \A b \in audit : b.req = a.req => b = a

\* An action of the admin router that was answered with success is on record, and
\* stays there for the retention period, counted from the row's own date, however
\* the purge is batched and whenever it began.
SuccessIsOnRecord ==
  \A r \in Requests : request[r].pc = "ok" /\ request[r].does = "audited" =>
    \/ \E a \in audit : a.req = r
    \/ Retention > 0 /\ request[r].at < clock - Retention
=============================================================================
